---------------------------- MODULE ConnectProofs ----------------------------
(***************************************************************************)
(* One connection, one peer, and no success without a handshake: proofs    *)
(* about module Connect, for any number of processes, addresses and        *)
(* commands and any backlog.                                               *)
(***************************************************************************)
EXTENDS Connect, SequenceTheorems, TLAPS

\* A listening socket was asked for, and has no connection yet.
Listening ==
    \A p \in Proc :
        /\ pc[p] \in {"bound", "listening"} => Listens(p)
        /\ pc[p] \in {"start", "bound", "listening"} => peer[p] = NoProc

\* Who waits in a queue dialled its listener, waits nowhere else and has no
\* peer; it may have sent its header, or be gone.
Queued ==
    \A q \in Proc :
        /\ queue[q] # <<>> => pc[q] = "listening"
        /\ \A p \in Range(queue[q]) :
              /\ pc[p] \in {"connected", "asked", "ended"} /\ peer[p] = NoProc
              /\ ~Listens(p) /\ At(p) = At(q)
              /\ \A r \in Proc : p \in Range(queue[r]) => r = q

\* Header and Ack have gone both ways between p and its peer.
Shaken(p) ==
    /\ peer[p] # NoProc
    /\ \/ sent[p] = "header" /\ sent[peer[p]] = "ack"
       \/ sent[p] = "ack" /\ sent[peer[p]] = "header"

\* Who wrote what; the session goes on, and ends well, only behind a handshake.
Handshake ==
    \A p \in Proc :
        /\ sent[p] = "header" => Role(p) = "send" /\ ~Idle(p)
        /\ sent[p] = "ack" => Role(p) = "recv"
        /\ pc[p] \in {"start", "bound", "listening", "connected"} => sent[p] = "nothing"
        /\ pc[p] = "asked" => sent[p] = "header"
        /\ pc[p] = "serving" => Shaken(p)
        /\ code[p] = 0 => Idle(p) \/ Shaken(p)

Inv == TypeOK /\ Listening /\ Queued /\ OnePeer /\ Handshake

-----------------------------------------------------------------------------

\* Who is in a queue.
LEMMA RangeOfQueue ==
    /\ Range(<<>>) = {}
    /\ \A s \in Seq(Proc), p \in Proc : Range(Append(s, p)) = Range(s) \cup {p}
    /\ \A s \in Seq(Proc) : Range(s) \subseteq Proc /\ (s # <<>> => Head(s) \in Range(s))
<1>1. Range(<<>>) = {}
  BY DEF Range
<1>2. ASSUME NEW s \in Seq(Proc), NEW p \in Proc
      PROVE  Range(Append(s, p)) = Range(s) \cup {p}
  <2>1. /\ DOMAIN Append(s, p) = 1..Len(s) + 1 /\ DOMAIN s = 1..Len(s) /\ Len(s) \in Nat
        /\ Append(s, p)[Len(s) + 1] = p
        /\ \A i \in 1..Len(s) : Append(s, p)[i] = s[i]
    BY AppendProperties, LenProperties
  <2>2. 1..Len(s) + 1 = (1..Len(s)) \cup {Len(s) + 1}
    BY <2>1
  <2> QED
    BY <2>1, <2>2 DEF Range
<1>3. ASSUME NEW s \in Seq(Proc)
      PROVE  Range(s) \subseteq Proc /\ (s # <<>> => Head(s) \in Range(s))
  <2>1. Range(s) \subseteq Proc
    BY ElementOfSeq DEF Range
  <2>2. s # <<>> => 1 \in DOMAIN s /\ Head(s) = s[1]
    BY LenProperties, EmptySeq
  <2> QED
    BY <2>1, <2>2 DEF Range
<1> QED
  BY <1>1, <1>2, <1>3

LEMMA Initially == Init => Inv
<1> SUFFICES ASSUME Init PROVE Inv
  OBVIOUS
<1>1. \A q \in Proc : Range(queue[q]) = {}
  BY RangeOfQueue DEF Init
<1>2. TypeOK
  BY EmptySeq DEF Init, TypeOK
<1>3. Listening
  BY DEF Init, Listening
<1>4. Queued
  BY <1>1 DEF Init, Queued
<1>5. OnePeer /\ Handshake
  BY DEF Init, OnePeer, Handshake
<1> QED
  BY <1>2, <1>3, <1>4, <1>5 DEF Inv

\* A process moves on or ends, without a change of any queue or peer.  It writes
\* its first item at most once, and serves and ends with 0 only as it may.
LEMMA MovesOn ==
    ASSUME Inv, NEW p \in Proc, UNCHANGED <<command, queue, peer>>,
           NEW to \in {"bound", "listening", "asked", "serving", "ended"},
           pc' = [pc EXCEPT ![p] = to],
           NEW w \in {"nothing", "header", "ack"}, sent' = [sent EXCEPT ![p] = w],
           NEW c \in {-1, 0, 2, 3}, code' = [code EXCEPT ![p] = c],
           to \in {"bound", "listening"} => Listens(p) /\ peer[p] = NoProc /\ w = "nothing",
           Waiting(p) => to \in {"asked", "ended"},
           queue[p] = <<>>,
           w = sent[p] \/ sent[p] = "nothing",
           w = "header" => Role(p) = "send" /\ ~Idle(p),
           w = "ack" => Role(p) = "recv",
           to = "asked" => w = "header",
           to = "serving" => Shaken(p)',
           c = 0 => Idle(p) \/ Shaken(p)' \/ code[p] = 0
    PROVE  Inv'
<1>1. TypeOK'
  BY DEF Inv, TypeOK
<1>2. Listening'
  BY DEF Inv, TypeOK, Listening, Listens
<1>3. Queued'
  <2>1. \A q \in Proc : queue'[q] # <<>> => pc'[q] = "listening"
    BY DEF Inv, TypeOK, Queued
  <2>2. ASSUME NEW q \in Proc, NEW x \in Range(queue[q])
        PROVE  /\ pc'[x] \in {"connected", "asked", "ended"} /\ peer'[x] = NoProc
               /\ ~Listens(x)' /\ At(x)' = At(q)'
               /\ \A r \in Proc : x \in Range(queue'[r]) => r = q
    <3>1. x \in Proc
      BY <2>2, RangeOfQueue DEF Inv, TypeOK
    <3>2. x = p => to \in {"asked", "ended"}
      BY <2>2 DEF Waiting
    <3> QED
      BY <2>2, <3>1, <3>2 DEF Inv, TypeOK, Queued, Listens, At
  <2> QED
    BY <2>1, <2>2 DEF Queued
<1>4. OnePeer'
  BY DEF Inv, OnePeer, Listens, At
<1>5. Handshake'
  <2>1. \A x \in Proc : Shaken(x) => Shaken(x)'
    BY ConnectAssumption DEF Inv, TypeOK, Shaken, Handshake
  <2> SUFFICES ASSUME NEW x \in Proc
               PROVE  /\ sent'[x] = "header" => Role(x) = "send" /\ ~Idle(x)
                      /\ sent'[x] = "ack" => Role(x) = "recv"
                      /\ pc'[x] \in {"start", "bound", "listening", "connected"} => sent'[x] = "nothing"
                      /\ pc'[x] = "asked" => sent'[x] = "header"
                      /\ pc'[x] = "serving" => Shaken(x)'
                      /\ code'[x] = 0 => Idle(x) \/ Shaken(x)'
    BY DEF Handshake, Role, Idle
  <2>2. CASE x = p
    BY <2>1, <2>2 DEF Inv, TypeOK, Handshake
  <2>3. CASE x # p
    BY <2>1, <2>3 DEF Inv, TypeOK, Handshake
  <2> QED
    BY <2>2, <2>3
<1> QED
  BY <1>1, <1>2, <1>3, <1>4, <1>5 DEF Inv

\* Where no first item is written, no code set and no peer lost, the handshakes
\* stay what they are.
LEMMA HandshakeStays ==
    ASSUME Inv, UNCHANGED <<command, sent, code>>,
           \A x \in Proc : peer[x] # NoProc => peer'[x] = peer[x],
           \A x \in Proc : pc'[x] = pc[x] \/ (pc'[x] = "connected" /\ sent[x] = "nothing")
    PROVE  Handshake'
<1>1. \A x \in Proc : Shaken(x) => Shaken(x)'
  BY DEF Shaken
<1> QED
  BY <1>1 DEF Inv, Handshake, Role, Idle

\* The connection of p enters the queue of q.
LEMMA DialKeeps == ASSUME Inv, NEW p \in Proc, Dial(p) PROVE Inv'
<1>1. /\ pc[p] = "start" /\ ~Listens(p) /\ peer[p] = NoProc
      /\ pc' = [pc EXCEPT ![p] = "connected"]
      /\ UNCHANGED <<command, peer, sent, code>>
  BY DEF Dial, Inv, Listening
<1>2. PICK q \in Proc : /\ pc[q] = "listening" /\ At(q) = At(p)
                        /\ queue' = [queue EXCEPT ![q] = Append(queue[q], p)]
  BY DEF Dial, Listeners
<1>3. /\ \A r \in Proc : queue[r] \in Seq(Proc) /\ p \notin Range(queue[r])
      /\ q # p /\ queue[p] = <<>>
  BY <1>1, <1>2 DEF Inv, TypeOK, Queued
<1>4. /\ queue'[q] = Append(queue[q], p) /\ Range(queue'[q]) = Range(queue[q]) \cup {p}
      /\ \A r \in Proc \ {q} : queue'[r] = queue[r]
      /\ queue'[q] \in Seq(Proc)
  BY <1>2, <1>3, RangeOfQueue, AppendProperties DEF Inv, TypeOK
<1>5. TypeOK'
  BY <1>1, <1>2, <1>4 DEF Inv, TypeOK
<1>6. Listening'
  BY <1>1 DEF Inv, TypeOK, Listening, Listens
<1>7. Queued'
  <2>1. \A r \in Proc : Range(queue'[r]) \subseteq Range(queue[r]) \cup {p}
    BY <1>4
  <2>2. \A r \in Proc : p \in Range(queue'[r]) => r = q
    BY <1>3, <1>4
  <2>3. /\ \A r \in Proc : queue'[r] # <<>> => pc'[r] = "listening"
        /\ \A r \in Proc : r # p => pc'[r] = pc[r]
        /\ pc'[p] = "connected"
    BY <1>1, <1>2, <1>3, <1>4 DEF Inv, TypeOK, Queued
  <2>4. \A r, x \in Proc : x # p /\ x \in Range(queue'[r]) => x \in Range(queue[r])
    BY <2>1
  <2>5. ASSUME NEW r \in Proc, NEW x \in Range(queue'[r])
        PROVE  /\ pc'[x] \in {"connected", "asked", "ended"} /\ peer'[x] = NoProc
               /\ ~Listens(x)' /\ At(x)' = At(r)'
               /\ \A t \in Proc : x \in Range(queue'[t]) => t = r
    <3>1. CASE x = p
      BY <1>1, <1>2, <2>2, <2>3, <3>1 DEF Listens, At
    <3>2. CASE x # p
      <4>1. x \in Proc /\ x \in Range(queue[r])
        BY <2>1, <2>5, <3>2, <1>3, RangeOfQueue
      <4> QED
        BY <1>1, <2>3, <2>4, <3>2, <4>1 DEF Inv, Queued, Listens, At
    <3> QED
      BY <3>1, <3>2
  <2> QED
    BY <2>3, <2>5 DEF Queued
<1>8. OnePeer' /\ Handshake'
  <2>1. sent[p] = "nothing" /\ \A x \in Proc : pc'[x] = pc[x] \/ x = p
    BY <1>1 DEF Inv, TypeOK, Handshake
  <2>2. Handshake'
    BY <1>1, <2>1, HandshakeStays DEF Inv, TypeOK
  <2> QED
    BY <1>1, <2>2 DEF Inv, OnePeer, Listens, At
<1> QED
  BY <1>5, <1>6, <1>7, <1>8 DEF Inv

\* The head of p's queue becomes its peer, and nobody else's; those behind it
\* wait nowhere any more.
LEMMA AcceptKeeps == ASSUME Inv, NEW p \in Proc, Accept(p) PROVE Inv'
<1> DEFINE h == Head(queue[p])
<1>1. /\ pc[p] = "listening" /\ queue[p] # <<>> /\ queue[p] \in Seq(Proc)
      /\ pc' = [pc EXCEPT ![p] = "connected"]
      /\ peer' = [peer EXCEPT ![p] = h, ![h] = p]
      /\ queue' = [queue EXCEPT ![p] = <<>>]
      /\ UNCHANGED <<command, sent, code>>
  BY DEF Accept, Inv, TypeOK
<1>2. h \in Range(queue[p]) /\ h \in Proc
  BY <1>1, RangeOfQueue
<1> HIDE DEF h
<1>3. /\ pc[h] \in {"connected", "asked", "ended"} /\ peer[h] = NoProc /\ ~Listens(h) /\ At(h) = At(p)
      /\ peer[p] = NoProc /\ Listens(p) /\ h # p
      /\ \A r \in Proc : h \in Range(queue[r]) => r = p
  BY <1>1, <1>2 DEF Inv, Listening, Queued
<1>4. /\ peer'[p] = h /\ peer'[h] = p /\ p # NoProc /\ h # NoProc
      /\ \A r \in Proc \ {p, h} : peer'[r] = peer[r]
      /\ pc'[p] = "connected" /\ \A r \in Proc \ {p} : pc'[r] = pc[r]
  BY <1>1, <1>2, <1>3, ConnectAssumption DEF Inv, TypeOK
<1>5. /\ queue'[p] = <<>> /\ Range(queue'[p]) = {}
      /\ \A r \in Proc \ {p} : queue'[r] = queue[r]
  BY <1>1, RangeOfQueue DEF Inv, TypeOK
<1>6. TypeOK'
  BY <1>1, <1>2, EmptySeq DEF Inv, TypeOK
<1>7. Listening'
  BY <1>1, <1>3, <1>4 DEF Inv, Listening, Listens
<1>8. Queued'
  <2>1. ASSUME NEW r \in Proc, NEW x \in Range(queue'[r])
        PROVE  /\ pc'[x] \in {"connected", "asked", "ended"} /\ peer'[x] = NoProc
               /\ ~Listens(x)' /\ At(x)' = At(r)'
               /\ \A t \in Proc : x \in Range(queue'[t]) => t = r
    <3>1. r # p /\ x \in Range(queue[r])
      BY <1>5, <2>1
    <3>2. /\ x \in Proc /\ pc[x] \in {"connected", "asked", "ended"} /\ peer[x] = NoProc /\ ~Listens(x) /\ At(x) = At(r)
          /\ \A t \in Proc : x \in Range(queue[t]) => t = r
      BY <3>1, RangeOfQueue DEF Inv, TypeOK, Queued
    <3>3. x # p /\ x # h
      BY <1>1, <1>3, <3>1, <3>2
    <3> QED
      BY <1>1, <1>4, <1>5, <3>2, <3>3 DEF Listens, At
  <2>2. ASSUME NEW r \in Proc, queue'[r] # <<>> PROVE pc'[r] = "listening"
    BY <1>4, <1>5, <2>2 DEF Inv, Queued
  <2> QED
    BY <2>1, <2>2 DEF Queued
<1>9. OnePeer'
  <2>1. ASSUME NEW r \in Proc, peer'[r] # NoProc
        PROVE  /\ peer'[peer'[r]] = r
               /\ Listens(r) # Listens(peer'[r]) /\ At(r) = At(peer'[r])
    <3>1. CASE r \in {p, h}
      BY <1>1, <1>3, <1>4, <3>1 DEF Listens, At
    <3>2. CASE r \notin {p, h}
      <4>1. peer'[r] = peer[r] /\ peer[r] \in Proc /\ peer[peer[r]] = r
        BY <1>4, <2>1, <3>2 DEF Inv, TypeOK, OnePeer
      <4>2. peer[r] \notin {p, h}
        BY <1>3, <4>1, ConnectAssumption
      <4>3. peer'[peer[r]] = peer[peer[r]]
        BY <1>4, <4>1, <4>2
      <4>4. Listens(r) # Listens(peer[r]) /\ At(r) = At(peer[r])
        BY <2>1, <4>1, ConnectAssumption DEF Inv, OnePeer
      <4> QED
        BY <4>1, <4>3, <4>4
    <3> QED
      BY <3>1, <3>2
  <2> QED
    BY <2>1, <1>1 DEF OnePeer, Listens, At
<1>10. Handshake'
  <2>1. sent[p] = "nothing"
    BY <1>1 DEF Inv, Handshake
  <2> QED
    BY <1>1, <1>3, <1>4, <2>1, HandshakeStays
<1> QED
  BY <1>6, <1>7, <1>8, <1>9, <1>10 DEF Inv

\* Nothing, or nothing new, is written and no code is set.
LEMMA SameValue ==
    ASSUME Inv, NEW p \in Proc
    PROVE  /\ sent = [sent EXCEPT ![p] = sent[p]] /\ sent[p] \in {"nothing", "header", "ack"}
           /\ code = [code EXCEPT ![p] = code[p]] /\ code[p] \in {-1, 0, 2, 3}
           /\ code[p] = 0 => Idle(p) \/ Shaken(p)
           /\ sent[p] = "header" => Role(p) = "send" /\ ~Idle(p)
           /\ sent[p] = "ack" => Role(p) = "recv"
BY DEF Inv, TypeOK, Handshake

\* A process without a queue ends, with 0 only as it may.
LEMMA EndsProperly ==
    ASSUME Inv, NEW p \in Proc, NEW c \in {0, 2, 3}, Exit(p, c),
           UNCHANGED <<command, queue, peer, sent>>, queue[p] = <<>>,
           c = 0 => Idle(p) \/ Shaken(p)
    PROVE  Inv'
<1>1. /\ pc' = [pc EXCEPT ![p] = "ended"] /\ code' = [code EXCEPT ![p] = c]
      /\ sent' = [sent EXCEPT ![p] = sent[p]] /\ sent[p] \in {"nothing", "header", "ack"}
      /\ sent[p] = "header" => Role(p) = "send" /\ ~Idle(p)
      /\ sent[p] = "ack" => Role(p) = "recv"
  BY SameValue DEF Exit
<1>2. Shaken(p) => Shaken(p)'
  BY DEF Shaken
<1>3. c \in {-1, 0, 2, 3} /\ (c = 0 => Idle(p) \/ Shaken(p)' \/ code[p] = 0)
  BY <1>2
<1> QED
  BY <1>1, <1>3, MovesOn

LEMMA Preserved == Inv /\ [Next]_vars => Inv'
<1> SUFFICES ASSUME Inv, [Next]_vars PROVE Inv'
  OBVIOUS
<1>1. CASE UNCHANGED vars
  BY <1>1 DEF vars, Inv, TypeOK, Listening, Queued, OnePeer, Handshake, Shaken, Listens, At, Role,
     Idle
<1>2. ASSUME NEW p \in Proc, Step(p) PROVE Inv'
  <2>1. /\ pc[p] \notin {"connected", "asked", "ended"} \/ peer[p] # NoProc => ~Waiting(p)
        /\ pc[p] # "listening" => queue[p] = <<>>
        /\ pc[p] \in {"start", "bound"} => peer[p] = NoProc /\ sent[p] = "nothing"
    BY DEF Inv, Queued, Listening, Handshake, Waiting
  <2>2. CASE Bind(p) \/ Listen(p)
    <3>1. Listens(p) /\ pc[p] \in {"start", "bound"}
      BY <2>2 DEF Bind, Listen, Inv, Listening
    <3>2. /\ \E to \in {"bound", "listening"} : pc' = [pc EXCEPT ![p] = to]
          /\ UNCHANGED <<command, queue, peer, sent, code>>
      BY <2>2 DEF Bind, Listen
    <3> QED
      BY <2>1, <3>1, <3>2, SameValue, MovesOn
  <2>3. CASE BindFails(p) \/ ListenFails(p) \/ DialFails(p)
    <3>1. /\ pc[p] \in {"start", "bound"} /\ Exit(p, 2)
          /\ UNCHANGED <<command, queue, peer, sent>>
      BY <2>3 DEF BindFails, ListenFails, DialFails
    <3> QED
      BY <2>1, <3>1, EndsProperly
  <2>4. CASE Serve(p)
    <3>1. PICK c \in {0, 3} : Exit(p, c)
      BY <2>4 DEF Serve
    <3>2. /\ pc[p] = "serving" /\ Shaken(p) /\ queue[p] = <<>>
          /\ UNCHANGED <<command, queue, peer, sent>>
      BY <2>1, <2>4 DEF Serve, Inv, Handshake
    <3> QED
      BY <3>1, <3>2, EndsProperly
  <2>5. CASE ReadAckFails(p) \/ ReadHeaderFails(p)
    <3>1. /\ queue[p] = <<>> /\ Exit(p, 3) /\ UNCHANGED <<command, queue, peer, sent>>
      BY <2>1, <2>5 DEF ReadAckFails, ReadHeaderFails
    <3> QED
      BY <3>1, EndsProperly
  <2>6. CASE Accept(p)
    BY <2>6, AcceptKeeps
  <2>7. CASE Dial(p)
    BY <2>7, DialKeeps
  <2>8. CASE NothingToSend(p)
    <3>1. /\ queue[p] = <<>> /\ Idle(p) /\ Exit(p, 0) /\ UNCHANGED <<command, queue, peer, sent>>
      BY <2>1, <2>8 DEF NothingToSend
    <3> QED
      BY <3>1, EndsProperly
  <2>9. CASE SendHeader(p)
    <3>1. /\ queue[p] = <<>> /\ pc[p] = "connected" /\ Role(p) = "send" /\ ~Idle(p)
          /\ sent[p] = "nothing"
          /\ sent' = [sent EXCEPT ![p] = "header"] /\ pc' = [pc EXCEPT ![p] = "asked"]
          /\ UNCHANGED <<command, queue, peer, code>>
      BY <2>1, <2>9 DEF SendHeader, To, Write, Inv, Handshake
    <3>2. code' = [code EXCEPT ![p] = code[p]] /\ code[p] \in {-1, 0, 2, 3}
      BY <3>1, SameValue
    <3> QED
      BY <3>1, <3>2, MovesOn
  <2>10. CASE ReadAck(p)
    <3>1. /\ queue[p] = <<>> /\ pc[p] = "asked" /\ peer[p] # NoProc
          /\ sent[p] = "header" /\ sent[peer[p]] = "ack"
          /\ pc' = [pc EXCEPT ![p] = "serving"]
          /\ UNCHANGED <<command, queue, peer, sent, code>>
      BY <2>1, <2>10 DEF ReadAck, To, Inv, Handshake
    <3>2. Shaken(p)' /\ ~Waiting(p)
      BY <2>1, <3>1 DEF Shaken
    <3> QED
      BY <3>1, <3>2, SameValue, MovesOn
  <2>11. CASE ReadHeader(p)
    <3>1. /\ queue[p] = <<>> /\ pc[p] = "connected" /\ peer[p] # NoProc /\ Role(p) = "recv"
          /\ sent[p] = "nothing" /\ sent[peer[p]] = "header"
          /\ sent' = [sent EXCEPT ![p] = "ack"] /\ pc' = [pc EXCEPT ![p] = "serving"]
          /\ UNCHANGED <<command, queue, peer, code>>
      BY <2>1, <2>11 DEF ReadHeader, To, Write, Inv, Handshake
    <3>2. Shaken(p)' /\ ~Waiting(p)
      BY <2>1, <3>1 DEF Shaken, Inv, TypeOK
    <3> QED
      BY <3>1, <3>2, SameValue, MovesOn
  <2> QED
    BY <1>2, <2>2, <2>3, <2>4, <2>5, <2>6, <2>7, <2>8, <2>9, <2>10, <2>11 DEF Step
<1> QED
  BY <1>1, <1>2 DEF Next

-----------------------------------------------------------------------------

\* Every process is at a known place with a queue of processes, a peer or none
\* and one of the exit codes main returns.
THEOREM TypeCorrect == Spec => []TypeOK
<1>1. Inv => TypeOK
  BY DEF Inv
<1> QED
  BY <1>1, Initially, Preserved, PTL DEF Spec

\* However many processes dial and listen, BindAndAccept and DialOut join
\* exactly two of them, one that listened and one that dialled its address.
THEOREM JoinedInPairs == Spec => []OnePeer
<1>1. Inv => OnePeer
  BY DEF Inv
<1> QED
  BY <1>1, Initially, Preserved, PTL DEF Spec

\* RunSend, with anything to send, and RunReceive return 0 only to a process that
\* shook hands with one of the other role: a header went one way, an Ack the
\* other.  So the connection was accepted, and was so by no second sender.
THEOREM ZeroNeedsCounterpart == Spec => []SuccessIsJoined
<1>1. Inv => SuccessIsJoined
  <2> SUFFICES ASSUME Inv, NEW p \in Proc, code[p] = 0, ~Idle(p)
               PROVE  peer[p] # NoProc /\ Role(peer[p]) # Role(p) /\ ~Idle(peer[p])
    BY DEF SuccessIsJoined
  <2>1. Shaken(p) /\ peer[p] \in Proc
    BY DEF Inv, TypeOK, Handshake, Shaken
  <2> QED
    BY <2>1 DEF Shaken, Inv, Handshake, Idle
<1> QED
  BY <1>1, Initially, Preserved, PTL DEF Spec
=============================================================================
