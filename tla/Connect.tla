------------------------------- MODULE Connect -------------------------------
(***************************************************************************)
(* Who becomes whose peer: BindAndAccept and DialOut of cli.cpp, run by    *)
(* several xfer processes at once.  Each plays the role and dials or       *)
(* listens as its command says.  The kernel queues the connections that    *)
(* nobody accepted yet; the listener is closed when one was accepted.      *)
(* Then the handshake: header, Ack.  What follows it is module Session,    *)
(* here one step with its possible exit codes; that a send on a broken     *)
(* connection may also end the process by a signal is left to Session.     *)
(***************************************************************************)
EXTENDS Integers, Sequences, SequencesExt

CONSTANTS
    Proc,      \* the processes
    Address,   \* a host and a port on it
    Command,   \* the commands they may be started with
    NoProc,    \* nobody
    Backlog    \* connections the kernel queues for listen(2); 16 in the code

ASSUME ConnectAssumption ==
    /\ NoProc \notin Proc
    /\ Backlog \in Nat
    /\ Command \subseteq [role : {"send", "recv"}, dials : BOOLEAN, at : Address,
                          empty : BOOLEAN]

VARIABLES
    command,   \* what each process was told
    pc,        \* where it is
    queue,     \* at a listener: the processes whose connections wait in its backlog
    peer,      \* the process at the other end of an accepted connection
    sent,      \* the first thing it wrote: a session header, an Ack, or nothing
    code       \* the exit code of a process that ended

vars == <<command, pc, queue, peer, sent, code>>

Role(p) == command[p].role
At(p) == command[p].at

\* A sender that finds nothing to send: its manifest is empty.
Idle(p) == Role(p) = "send" /\ command[p].empty

\* listen || host.empty() for the sender, host.empty() for the receiver.
Listens(p) == ~command[p].dials

\* The listening socket at address a, if there is one.
Listeners(a) == {q \in Proc : pc[q] = "listening" /\ At(q) = a}

\* Mutant: the code of a failed transfer is that of a crash.
ExitPlain(p, c) ==
    /\ pc' = [pc EXCEPT ![p] = "ended"]
    /\ code' = [code EXCEPT ![p] = IF c = 3 THEN 1 ELSE c]

Exit(p, c) ==
    /\ pc' = [pc EXCEPT ![p] = "ended"]
    /\ code' = [code EXCEPT ![p] = c]

-----------------------------------------------------------------------------
(* BindAndAccept. *)

\* SO_REUSEADDR allows a second bind until one of the two sockets listens.
Bind(p) ==
    /\ pc[p] = "start" /\ Listens(p) /\ Listeners(At(p)) = {}
    /\ pc' = [pc EXCEPT ![p] = "bound"]
    /\ UNCHANGED <<command, queue, peer, sent, code>>

\* Some systems refuse the second bind already when the first is bound.
BindFails(p) ==
    /\ pc[p] = "start" /\ Listens(p)
    /\ \E q \in Proc \ {p} : pc[q] \in {"bound", "listening"} /\ At(q) = At(p)
    /\ Exit(p, 2)
    /\ UNCHANGED <<command, queue, peer, sent>>

Listen(p) ==
    /\ pc[p] = "bound" /\ Listeners(At(p)) = {}
    /\ pc' = [pc EXCEPT ![p] = "listening"]
    /\ UNCHANGED <<command, queue, peer, sent, code>>

ListenFails(p) ==
    /\ pc[p] = "bound" /\ Listeners(At(p)) # {}
    /\ Exit(p, 2)
    /\ UNCHANGED <<command, queue, peer, sent>>

\* Mutant: the listener stays open behind the accepted connection.
AcceptAgain(p) ==
    /\ pc[p] = "listening" /\ queue[p] # <<>>
    /\ pc' = [pc EXCEPT ![p] = "connected"]
    /\ peer' = [peer EXCEPT ![p] = Head(queue[p]), ![Head(queue[p])] = p]
    /\ queue' = [queue EXCEPT ![p] = Tail(queue[p])]
    /\ UNCHANGED <<command, sent, code>>

\* Mutant: every queued connection is accepted.
AcceptAll(p) ==
    /\ pc[p] = "listening" /\ queue[p] # <<>>
    /\ pc' = [pc EXCEPT ![p] = "connected"]
    /\ peer' = [q \in Proc |-> IF q = p THEN Last(queue[p]) ELSE IF q \in Range(queue[p]) THEN p ELSE peer[q]]
    /\ queue' = [queue EXCEPT ![p] = <<>>]
    /\ UNCHANGED <<command, sent, code>>

\* The oldest connection is accepted; on return the listener's destructor
\* closes it, which resets the others.
Accept(p) ==
    /\ pc[p] = "listening" /\ queue[p] # <<>>
    /\ pc' = [pc EXCEPT ![p] = "connected"]
    /\ peer' = [peer EXCEPT ![p] = Head(queue[p]), ![Head(queue[p])] = p]
    /\ queue' = [queue EXCEPT ![p] = <<>>]
    /\ UNCHANGED <<command, sent, code>>

-----------------------------------------------------------------------------
(* DialOut. *)

\* connect(2) succeeds when the kernel has queued the connection, whether or
\* not anyone will accept it.
Dial(p) ==
    /\ pc[p] = "start" /\ ~Listens(p)
    /\ \E q \in Listeners(At(p)) :
          /\ Len(queue[q]) <= Backlog
          /\ queue' = [queue EXCEPT ![q] = Append(@, p)]
    /\ pc' = [pc EXCEPT ![p] = "connected"]
    /\ UNCHANGED <<command, peer, sent, code>>

\* Refused, or given up after retrying against a full queue.
DialFails(p) ==
    /\ pc[p] = "start" /\ ~Listens(p)
    /\ \A q \in Listeners(At(p)) : Len(queue[q]) > Backlog
    /\ Exit(p, 2)
    /\ UNCHANGED <<command, queue, peer, sent>>

-----------------------------------------------------------------------------
(* The handshake, and the session behind it.                               *)

Waiting(p) == \E q \in Proc : p \in Range(queue[q])
To(p, next) == pc' = [pc EXCEPT ![p] = next]
Write(p, first) == sent' = [sent EXCEPT ![p] = first]

\* The first read of p fails: its connection was reset with the listener, or
\* its peer closed it without a word.  A connection that was closed while it
\* waited in the queue is accepted all the same.
Hangup(p) ==
    \/ peer[p] = NoProc /\ ~Waiting(p)
    \/ peer[p] # NoProc /\ pc[peer[p]] = "ended" /\ sent[peer[p]] = "nothing"

\* An empty manifest is success, whatever the connection is.
NothingToSend(p) ==
    /\ pc[p] = "connected" /\ Idle(p)
    /\ Exit(p, 0)
    /\ UNCHANGED <<command, queue, peer, sent>>

\* The header may wait in the kernel until the connection is accepted.
SendHeader(p) ==
    /\ pc[p] = "connected" /\ Role(p) = "send" /\ ~Idle(p)
    /\ Write(p, "header")
    /\ To(p, "asked")
    /\ UNCHANGED <<command, queue, peer, code>>

\* Mutant: whatever is read is taken for the Ack.
AnyReply(p) ==
    /\ pc[p] = "asked" /\ peer[p] # NoProc /\ sent[peer[p]] # "nothing"
    /\ To(p, "serving")
    /\ UNCHANGED <<command, queue, peer, sent, code>>

ReadAck(p) ==
    /\ pc[p] = "asked" /\ peer[p] # NoProc /\ sent[peer[p]] = "ack"
    /\ To(p, "serving")
    /\ UNCHANGED <<command, queue, peer, sent, code>>

\* Another sender's header is not an Ack.
ReadAckFails(p) ==
    /\ pc[p] = "asked"
    /\ Hangup(p) \/ (peer[p] # NoProc /\ sent[peer[p]] = "header")
    /\ Exit(p, 3)
    /\ UNCHANGED <<command, queue, peer, sent>>

\* ReadSessionHeader and WriteAck.  Two receivers wait for each other's header,
\* and neither has a timeout.
ReadHeader(p) ==
    /\ pc[p] = "connected" /\ Role(p) = "recv"
    /\ peer[p] # NoProc /\ sent[peer[p]] = "header"
    /\ Write(p, "ack")
    /\ To(p, "serving")
    /\ UNCHANGED <<command, queue, peer, code>>

ReadHeaderFails(p) ==
    /\ pc[p] = "connected" /\ Role(p) = "recv" /\ Hangup(p)
    /\ Exit(p, 3)
    /\ UNCHANGED <<command, queue, peer, sent>>

\* Each side's result of the transfer; one may fail and the other not.
Serve(p) ==
    /\ pc[p] = "serving"
    /\ \E c \in {0, 3} : Exit(p, c)
    /\ UNCHANGED <<command, queue, peer, sent>>

Init ==
    /\ command \in [Proc -> Command]
    /\ pc = [p \in Proc |-> "start"]
    /\ queue = [p \in Proc |-> <<>>]
    /\ peer = [p \in Proc |-> NoProc]
    /\ sent = [p \in Proc |-> "nothing"]
    /\ code = [p \in Proc |-> -1]

Step(p) ==
    \/ Bind(p) \/ BindFails(p) \/ Listen(p) \/ ListenFails(p) \/ Accept(p)
    \/ Dial(p) \/ DialFails(p)
    \/ NothingToSend(p) \/ SendHeader(p) \/ ReadAck(p) \/ ReadAckFails(p)
    \/ ReadHeader(p) \/ ReadHeaderFails(p) \/ Serve(p)

Next == \E p \in Proc : Step(p)

Spec == Init /\ [][Next]_vars
FairSpec == Spec /\ \A p \in Proc : WF_vars(Step(p))

-----------------------------------------------------------------------------
(* Properties. *)

TypeOK ==
    /\ command \in [Proc -> Command]
    /\ pc \in [Proc -> {"start", "bound", "listening", "connected", "asked", "serving", "ended"}]
    /\ queue \in [Proc -> Seq(Proc)]
    /\ peer \in [Proc -> Proc \cup {NoProc}]
    /\ sent \in [Proc -> {"nothing", "header", "ack"}]
    /\ code \in [Proc -> {-1, 0, 2, 3}]

\* However many processes dial and listen at one address, a session joins
\* exactly two: each is the other's only peer, one dialled and one listened.
OnePeer ==
    \A p \in Proc : peer[p] # NoProc =>
        /\ peer[peer[p]] = p
        /\ Listens(p) # Listens(peer[p])
        /\ At(p) = At(peer[p])

\* Who is told that the transfer succeeded had a counterpart: of the other role,
\* and with something to send.  In the backlog a sender cannot tell its listener
\* from another sender, or from one that closes without having accepted it; the
\* header and the Ack must make the difference.  A sender with nothing to send
\* ends with 0 whoever it is connected to, also when nobody accepts it.
SuccessIsJoined ==
    \A p \in Proc : code[p] = 0 /\ ~Idle(p) =>
        peer[p] # NoProc /\ Role(peer[p]) # Role(p) /\ ~Idle(peer[p])

\* Nobody is left behind in the queue of a listener that is gone, and every
\* process ends, but for a listener that nobody dials and for two receivers.
Excused(p) ==
    \/ pc[p] = "listening" /\ queue[p] = <<>>
    \/ pc[p] = "connected" /\ peer[p] # NoProc /\ Role(p) = "recv" /\ Role(peer[p]) = "recv"
Ends == \A p \in Proc : <>[](pc[p] = "ended" \/ Excused(p))
=============================================================================
