----------------------------- MODULE SocketProofs -----------------------------
(***************************************************************************)
(* A Socket uniquely owns its descriptor: proofs about module SocketLife.  *)
(***************************************************************************)
EXTENDS SocketLife, TLAPS

\* The three properties are one fact: outside the constructors, the open
\* sockets and the objects that hold a descriptor correspond one to one.  A
\* Connect that runs holds nothing until it is connected.
Owned == \A d \in Descriptor : table[d] \in SocketKinds => \E o \in Object : fd[o] = d
Dialling == dial # NoObject => Live(dial) /\ (left > 0 => fd[dial] = NoFd)

Inv == TypeOK /\ OneOwner /\ Owned /\ NoStale /\ Dialling

LEMMA Numbers == \A d \in Descriptor : d \in Nat /\ d # NoFd /\ d # Dead
BY SocketLifeAssumption DEF SocketLifeAssumption, NoFd, Dead

LEMMA Initially == Init => Inv
<1> SUFFICES ASSUME Init PROVE Inv
  OBVIOUS
<1>1. \A o \in Object : ~Valid(o)
  BY Numbers DEF Init, Valid
<1>2. TypeOK
  BY DEF Init, TypeOK
<1>3. OneOwner /\ NoStale
  BY <1>1 DEF OneOwner, NoStale
<1>4. Owned
  BY DEF Init, Owned, SocketKinds
<1>5. Dialling
  BY DEF Init, Dialling
<1> QED
  BY <1>2, <1>3, <1>4, <1>5 DEF Inv

-----------------------------------------------------------------------------
(* What the operations do to objects and table, whatever else they change. *)

\* Object o gives up what it holds, to be closed, and holds `new` instead.
LEMMA Replace ==
    ASSUME Inv, NEW o \in Object, NEW new \in {NoFd, Dead},
           table' = Freed(o), fd' = [fd EXCEPT ![o] = new]
    PROVE  OneOwner' /\ Owned' /\ NoStale'
<1>1. fd' \in [Object -> Descriptor \cup {NoFd, Dead}] /\ new \notin Descriptor
  BY Numbers DEF Inv, TypeOK
<1>2. OneOwner'
  BY <1>1 DEF Inv, TypeOK, OneOwner, Valid
<1>3. Owned'
  BY <1>1 DEF Inv, TypeOK, Owned, OneOwner, Valid, Freed, SocketKinds
<1>4. NoStale'
  BY <1>1 DEF Inv, TypeOK, NoStale, OneOwner, Valid, Freed
<1> QED
  BY <1>2, <1>3, <1>4

\* Object o closes what it held and takes a free descriptor d.
LEMMA Take ==
    ASSUME Inv, NEW o \in Object, NEW d \in Descriptor, NEW kind \in SocketKinds,
           table[d] \in {"free", "file"} \/ d = fd[o],
           table' = [Freed(o) EXCEPT ![d] = kind], fd' = [fd EXCEPT ![o] = d]
    PROVE  OneOwner' /\ Owned' /\ NoStale'
<1>1. fd' \in [Object -> Descriptor \cup {NoFd, Dead}]
  BY DEF Inv, TypeOK
<1>2. \A x \in Object \ {o} : fd[x] # d
  BY DEF Inv, TypeOK, OneOwner, NoStale, Valid, SocketKinds
<1>3. table' = [e \in Descriptor |-> IF e = d THEN kind ELSE IF e = fd[o] THEN "free" ELSE table[e]]
  BY DEF Freed
<1>4. OneOwner'
  BY <1>1, <1>2 DEF Inv, TypeOK, OneOwner, Valid
<1>5. Owned'
  BY <1>1, <1>3 DEF Inv, TypeOK, Owned, SocketKinds
<1>6. NoStale'
  BY <1>1, <1>2, <1>3 DEF Inv, TypeOK, NoStale, OneOwner, Valid
<1> QED
  BY <1>4, <1>5, <1>6

\* Object o closes what it held and takes over what `other` holds.
LEMMA Move ==
    ASSUME Inv, NEW o \in Object, NEW other \in Object, o # other,
           table' = Freed(o), fd' = [fd EXCEPT ![o] = fd[other], ![other] = NoFd]
    PROVE  OneOwner' /\ Owned' /\ NoStale'
<1>1. fd' \in [Object -> Descriptor \cup {NoFd, Dead}] /\ NoFd \notin Descriptor
  BY Numbers DEF Inv, TypeOK
<1>2. fd'[o] = fd[other] /\ fd'[other] = NoFd /\ \A x \in Object \ {o, other} : fd'[x] = fd[x]
  BY DEF Inv, TypeOK
<1>3. OneOwner'
  BY <1>1, <1>2 DEF Inv, TypeOK, OneOwner, Valid
<1>4. Owned'
  BY <1>1, <1>2 DEF Inv, TypeOK, Owned, OneOwner, Valid, Freed, SocketKinds
<1>5. NoStale'
  BY <1>1, <1>2 DEF Inv, TypeOK, NoStale, OneOwner, Valid, Freed
<1> QED
  BY <1>3, <1>4, <1>5

\* An object without a descriptor frees nothing.
LEMMA NothingFreed ==
    ASSUME Inv, NEW o \in Object, ~Valid(o)
    PROVE  Freed(o) = table
BY DEF Inv, TypeOK, Valid, Freed

\* Only files come and go.
LEMMA FilesOnly ==
    ASSUME Inv, NEW d \in Descriptor, table[d] \in {"free", "file"},
           NEW kind \in {"free", "file"},
           table' = [table EXCEPT ![d] = kind], fd' = fd
    PROVE  OneOwner' /\ Owned' /\ NoStale'
<1>1. table' = [e \in Descriptor |-> IF e = d THEN kind ELSE table[e]]
  BY DEF Inv, TypeOK
<1>2. OneOwner' /\ Owned'
  BY <1>1 DEF Inv, OneOwner, Owned, Valid, SocketKinds
<1>3. NoStale'
  BY <1>1 DEF Inv, NoStale, Valid, SocketKinds
<1> QED
  BY <1>2, <1>3

-----------------------------------------------------------------------------

LEMMA TypePreserved == TypeOK /\ [Next]_vars => TypeOK'
<1> SUFFICES ASSUME TypeOK, [Next]_vars PROVE TypeOK'
  OBVIOUS
<1> USE DEF TypeOK, Idle, SocketKinds, Freed, Free
<1>1. CASE UNCHANGED vars
  BY <1>1 DEF vars
<1>2. ASSUME NEW o \in Object,
             Construct(o) \/ Adopt(o) \/ Close(o) \/ Destroy(o) \/ ConnectBegin(o) \/ Bind(o) \/ Listen(o)
      PROVE  TypeOK'
  <2>1. CASE Construct(o) \/ Close(o) \/ Destroy(o)
    BY <2>1 DEF Construct, Close, Destroy
  <2>2. CASE Adopt(o)
    BY <2>2 DEF Adopt
  <2>3. CASE ConnectBegin(o)
    <3>1. left' \in Nat
      BY <2>3, SocketLifeAssumption DEF ConnectBegin, SocketLifeAssumption
    <3> QED
      BY <2>3, <3>1 DEF ConnectBegin
  <2>4. CASE Bind(o)
    <3>1. Freed(o) \in [Descriptor -> SocketKinds \cup {"free", "file"}]
      OBVIOUS
    <3>2. dial' = dial /\ left' = left
      BY <2>4 DEF Bind
    <3>3. CASE fd' = [fd EXCEPT ![o] = NoFd] /\ table' = Freed(o)
      BY <3>1, <3>2, <3>3
    <3>4. ASSUME NEW d \in Descriptor, fd' = [fd EXCEPT ![o] = d],
                 table' = [Freed(o) EXCEPT ![d] = "bound"]
          PROVE  TypeOK'
      BY <3>1, <3>2, <3>4
    <3> QED
      BY <2>4, <3>3, <3>4 DEF Bind
  <2>5. CASE Listen(o)
    BY <2>5 DEF Listen, Valid
  <2> QED
    BY <1>2, <2>1, <2>2, <2>3, <2>4, <2>5
<1>3. ASSUME NEW o \in Object, NEW x \in Object,
             MoveConstruct(o, x) \/ MoveAssign(o, x) \/ Accept(o, x)
      PROVE  TypeOK'
  BY <1>3 DEF MoveConstruct, MoveAssign, Accept
<1>4. CASE ConnectTry
  BY <1>4 DEF ConnectTry
<1>5. CASE ConnectEnd \/ OpenFile \/ CloseFile
  BY <1>5 DEF ConnectEnd, OpenFile, CloseFile
<1> QED
  BY <1>1, <1>2, <1>3, <1>4, <1>5 DEF Next

LEMMA DiallingPreserved == Inv /\ [Next]_vars => Dialling'
<1> SUFFICES ASSUME Inv, [Next]_vars PROVE Dialling'
  OBVIOUS
<1> USE DEF Inv, TypeOK, Dialling, Idle, Live
<1>1. CASE UNCHANGED vars
  BY <1>1 DEF vars
<1>2. ASSUME NEW o \in Object,
             Construct(o) \/ Adopt(o) \/ Close(o) \/ Destroy(o) \/ Bind(o) \/ Listen(o)
      PROVE  Dialling'
  BY <1>2 DEF Construct, Adopt, Close, Destroy, Bind, Listen
<1>3. ASSUME NEW o \in Object, ConnectBegin(o) PROVE Dialling'
  BY <1>3 DEF ConnectBegin, NoFd, Dead
<1>4. ASSUME NEW o \in Object, NEW x \in Object,
             MoveConstruct(o, x) \/ MoveAssign(o, x) \/ Accept(o, x)
      PROVE  Dialling'
  BY <1>4 DEF MoveConstruct, MoveAssign, Accept
<1>5. CASE ConnectTry
  BY <1>5, Numbers DEF ConnectTry, NoFd, Dead, Free
<1>6. CASE ConnectEnd \/ OpenFile \/ CloseFile
  BY <1>6 DEF ConnectEnd, OpenFile, CloseFile
<1> QED
  BY <1>1, <1>2, <1>3, <1>4, <1>5, <1>6 DEF Next

LEMMA Preserved == Inv /\ [Next]_vars => Inv'
<1> SUFFICES ASSUME Inv, [Next]_vars PROVE OneOwner' /\ Owned' /\ NoStale'
  BY TypePreserved, DiallingPreserved DEF Inv
<1>1. CASE UNCHANGED vars
  BY <1>1 DEF vars, Inv, OneOwner, Owned, NoStale, Valid
<1>2. ASSUME NEW o \in Object, Construct(o) PROVE OneOwner' /\ Owned' /\ NoStale'
  <2>1. Freed(o) = table
    BY <1>2, Numbers, NothingFreed DEF Construct, Live, Valid
  <2> QED
    BY <1>2, <2>1, Replace DEF Construct
<1>3. ASSUME NEW o \in Object, Adopt(o) PROVE OneOwner' /\ Owned' /\ NoStale'
  <2>1. Freed(o) = table
    BY <1>3, Numbers, NothingFreed DEF Adopt, Live, Valid
  <2> QED
    BY <1>3, <2>1, Take DEF Adopt, SocketKinds
<1>4. ASSUME NEW o \in Object, Close(o) \/ Destroy(o) \/ ConnectBegin(o)
      PROVE  OneOwner' /\ Owned' /\ NoStale'
  BY <1>4, Replace DEF Close, Destroy, ConnectBegin
<1>5. ASSUME NEW o \in Object, Bind(o) PROVE OneOwner' /\ Owned' /\ NoStale'
  <2>1. CASE fd' = [fd EXCEPT ![o] = NoFd] /\ table' = Freed(o)
    BY <2>1, Replace
  <2>2. ASSUME NEW d \in Free(Freed(o)), fd' = [fd EXCEPT ![o] = d],
               table' = [Freed(o) EXCEPT ![d] = "bound"]
        PROVE  OneOwner' /\ Owned' /\ NoStale'
    <3>1. d \in Descriptor /\ (table[d] = "free" \/ d = fd[o])
      BY DEF Free, Freed
    <3> QED
      BY <2>2, <3>1, Take DEF SocketKinds
  <2> QED
    BY <1>5, <2>1, <2>2 DEF Bind
<1>6. ASSUME NEW o \in Object, Listen(o) PROVE OneOwner' /\ Owned' /\ NoStale'
  <2>1. table' = [d \in Descriptor |-> IF d = fd[o] THEN "listening" ELSE table[d]]
    BY <1>6 DEF Listen, Valid, Inv, TypeOK
  <2> QED
    BY <1>6, <2>1 DEF Listen, Inv, OneOwner, Owned, NoStale, Valid, SocketKinds
<1>7. ASSUME NEW o \in Object, NEW x \in Object, MoveConstruct(o, x)
      PROVE  OneOwner' /\ Owned' /\ NoStale'
  <2>1. o # x /\ Freed(o) = table
    BY <1>7, Numbers, NothingFreed DEF MoveConstruct, Live, Valid
  <2> QED
    BY <1>7, <2>1, Move DEF MoveConstruct
<1>8. ASSUME NEW o \in Object, NEW x \in Object, MoveAssign(o, x)
      PROVE  OneOwner' /\ Owned' /\ NoStale'
  BY <1>8, Move DEF MoveAssign
<1>9. ASSUME NEW o \in Object, NEW x \in Object, Accept(o, x)
      PROVE  OneOwner' /\ Owned' /\ NoStale'
  <2>1. Freed(o) = table
    BY <1>9, Numbers, NothingFreed DEF Accept, Live, Valid
  <2>2. CASE fd' = [fd EXCEPT ![o] = NoFd] /\ table' = table
    BY <2>1, <2>2, Replace
  <2>3. CASE \E d \in Free(table) : fd' = [fd EXCEPT ![o] = d] /\ table' = [table EXCEPT ![d] = "connected"]
    BY <2>1, <2>3, Take DEF Free, SocketKinds
  <2> QED
    BY <1>9, <2>2, <2>3 DEF Accept
<1>10. CASE ConnectTry
  <2>1. dial \in Object /\ Freed(dial) = table
    BY <1>10, Numbers, NothingFreed DEF ConnectTry, Inv, TypeOK, Dialling, Valid
  <2>2. CASE fd' = [fd EXCEPT ![dial] = NoFd] /\ table' = table
    BY <2>1, <2>2, Replace
  <2>3. CASE \E d \in Free(table) : fd' = [fd EXCEPT ![dial] = d] /\ table' = [table EXCEPT ![d] = "connected"]
    BY <2>1, <2>3, Take DEF Free, SocketKinds
  <2> QED
    BY <1>10, <2>2, <2>3 DEF ConnectTry
<1>11. CASE ConnectEnd
  BY <1>11 DEF ConnectEnd, Inv, OneOwner, Owned, NoStale, Valid
<1>12. CASE OpenFile \/ CloseFile
  BY <1>12, FilesOnly DEF OpenFile, CloseFile, Free
<1> QED
  BY <1>1, <1>2, <1>3, <1>4, <1>5, <1>6, <1>7, <1>8, <1>9, <1>10, <1>11, <1>12 DEF Next

-----------------------------------------------------------------------------

\* No sequence of operations leaves two objects with one descriptor.
THEOREM UniqueOwner == Spec => []OneOwner
<1>1. Inv => OneOwner
  BY DEF Inv
<1> QED
  BY <1>1, Initially, Preserved, PTL DEF Spec

\* No open socket is ever without an object that will close it.
THEOREM NothingLeaks == Spec => []NoLeak
<1>1. Inv => NoLeak
  BY DEF Inv, NoLeak, Owned
<1> QED
  BY <1>1, Initially, Preserved, PTL DEF Spec

\* No object holds a descriptor that was closed behind its back.
THEOREM NothingStale == Spec => []NoStale
<1>1. Inv => NoStale
  BY DEF Inv
<1> QED
  BY <1>1, Initially, Preserved, PTL DEF Spec
=============================================================================
