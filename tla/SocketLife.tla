------------------------------ MODULE SocketLife ------------------------------
(***************************************************************************)
(* Who holds which descriptor: the class Socket of net/socket.cpp, used by *)
(* one thread in any order its interface allows, beside the files the same *)
(* process opens.  The kernel hands a closed descriptor out again, so that *)
(* one closed twice, or used after it was closed, would be another's.      *)
(***************************************************************************)
EXTENDS Integers

CONSTANTS
    Object,      \* the places a Socket object can live in
    Descriptor,  \* the descriptors the process can have
    NoObject,    \* none of them
    MaxAddr      \* BOUND: addresses one getaddrinfo returns

ASSUME SocketLifeAssumption ==
    /\ Descriptor \subseteq Nat
    /\ NoObject \notin Object
    /\ MaxAddr \in Nat

VARIABLES
    fd,      \* fd_ of each object; Dead when there is no object
    table,   \* the kernel's descriptor table
    dial,    \* the object whose Connect is running, or NoObject
    left     \* the addresses that Connect has still to try

vars == <<fd, table, dial, left>>

NoFd == -1
Dead == -2

SocketKinds == {"new", "bound", "listening", "connected"}

Live(o) == fd[o] # Dead
Valid(o) == fd[o] \in Descriptor
Idle == dial = NoObject /\ UNCHANGED <<dial, left>>

\* The table after Close() of o, and its free descriptors.
Freed(o) == [d \in Descriptor |-> IF d = fd[o] THEN "free" ELSE table[d]]
Free(t) == {d \in Descriptor : t[d] = "free"}

-----------------------------------------------------------------------------
(* Lifetime. *)

Construct(o) == Idle /\ ~Live(o) /\ fd' = [fd EXCEPT ![o] = NoFd] /\ UNCHANGED table

\* The constructor from a descriptor takes it over from the code that had it.
Adopt(o) ==
    /\ Idle /\ ~Live(o)
    /\ \E d \in Descriptor :
          /\ table[d] = "file"
          /\ fd' = [fd EXCEPT ![o] = d]
          /\ table' = [table EXCEPT ![d] = "connected"]

\* Mutant: the source of a move keeps its descriptor.
CopyConstruct(o, other) ==
    /\ Idle /\ ~Live(o) /\ Live(other)
    /\ fd' = [fd EXCEPT ![o] = fd[other]]
    /\ UNCHANGED table

MoveConstruct(o, other) ==
    /\ Idle /\ ~Live(o) /\ Live(other)
    /\ fd' = [fd EXCEPT ![o] = fd[other], ![other] = NoFd]
    /\ UNCHANGED table

\* A move to itself changes nothing.
MoveAssign(o, other) ==
    /\ Idle /\ Live(o) /\ Live(other) /\ o # other
    /\ fd' = [fd EXCEPT ![o] = fd[other], ![other] = NoFd]
    /\ table' = Freed(o)

\* Mutant: fd_ is not reset.
CloseKeepsFd(o) == Idle /\ Live(o) /\ table' = Freed(o) /\ UNCHANGED fd

Close(o) == Idle /\ Live(o) /\ table' = Freed(o) /\ fd' = [fd EXCEPT ![o] = NoFd]

Destroy(o) == Idle /\ Live(o) /\ table' = Freed(o) /\ fd' = [fd EXCEPT ![o] = Dead]

-----------------------------------------------------------------------------
(* Connect: Close, getaddrinfo, then one socket per address. *)

\* Without an address getaddrinfo failed.
ConnectBegin(o) ==
    /\ dial = NoObject /\ Live(o)
    /\ table' = Freed(o)
    /\ fd' = [fd EXCEPT ![o] = NoFd]
    /\ dial' = o
    /\ left' \in 0..MaxAddr

\* Mutant: a socket that did not connect is not closed.
TryWithoutClose ==
    /\ dial # NoObject /\ left > 0
    /\ \E d \in Free(table), connected \in BOOLEAN :
          /\ fd' = [fd EXCEPT ![dial] = d]
          /\ table' = [table EXCEPT ![d] = IF connected THEN "connected" ELSE "new"]
          /\ left' = IF connected THEN 0 ELSE left - 1
    /\ UNCHANGED dial

\* socket() fails, or connect() fails and the socket is closed again, or the
\* loop ends with a connection.
ConnectTry ==
    /\ dial # NoObject /\ left > 0
    /\ \/ /\ left' = left - 1
          /\ fd' = [fd EXCEPT ![dial] = NoFd]
          /\ UNCHANGED table
       \/ \E d \in Free(table) :
             /\ left' = 0
             /\ fd' = [fd EXCEPT ![dial] = d]
             /\ table' = [table EXCEPT ![d] = "connected"]
    /\ UNCHANGED dial

ConnectEnd ==
    /\ dial # NoObject /\ left = 0
    /\ dial' = NoObject
    /\ UNCHANGED <<fd, table, left>>

-----------------------------------------------------------------------------
(* The listening side. *)

\* Close, then a bound socket, or none when socket() or bind() fails.
Bind(o) ==
    /\ Idle /\ Live(o)
    /\ \/ \E d \in Free(Freed(o)) :
             /\ fd' = [fd EXCEPT ![o] = d]
             /\ table' = [Freed(o) EXCEPT ![d] = "bound"]
       \/ fd' = [fd EXCEPT ![o] = NoFd] /\ table' = Freed(o)

Listen(o) ==
    /\ Idle /\ Valid(o) /\ table[fd[o]] = "bound"
    /\ table' = [table EXCEPT ![fd[o]] = "listening"]
    /\ UNCHANGED fd

\* The new Socket that Accept returns; without a descriptor when it failed.
Accept(result, o) ==
    /\ Idle /\ ~Live(result) /\ Live(o)
    /\ \/ /\ Valid(o) /\ table[fd[o]] = "listening"
          /\ \E d \in Free(table) :
                /\ fd' = [fd EXCEPT ![result] = d]
                /\ table' = [table EXCEPT ![d] = "connected"]
       \/ fd' = [fd EXCEPT ![result] = NoFd] /\ UNCHANGED table

-----------------------------------------------------------------------------
(* The files the program opens and closes through raw descriptors. *)

OpenFile == Idle /\ \E d \in Free(table) : table' = [table EXCEPT ![d] = "file"] /\ UNCHANGED fd

CloseFile ==
    /\ Idle
    /\ \E d \in Descriptor : table[d] = "file" /\ table' = [table EXCEPT ![d] = "free"]
    /\ UNCHANGED fd

Init ==
    /\ fd = [o \in Object |-> Dead]
    /\ table = [d \in Descriptor |-> "free"]
    /\ dial = NoObject
    /\ left = 0

Next ==
    \/ \E o \in Object :
          \/ Construct(o) \/ Adopt(o) \/ Close(o) \/ Destroy(o)
          \/ ConnectBegin(o) \/ Bind(o) \/ Listen(o)
          \/ \E x \in Object : MoveConstruct(o, x) \/ MoveAssign(o, x) \/ Accept(o, x)
    \/ ConnectTry \/ ConnectEnd
    \/ OpenFile \/ CloseFile

Spec == Init /\ [][Next]_vars

-----------------------------------------------------------------------------
(* Properties. *)

TypeOK ==
    /\ fd \in [Object -> Descriptor \cup {NoFd, Dead}]
    /\ table \in [Descriptor -> SocketKinds \cup {"free", "file"}]
    /\ dial \in Object \cup {NoObject}
    /\ left \in Nat

\* socket.h:36 says that a Socket uniquely owns its descriptor: no sequence of
\* moves leaves two objects that will both close it.
OneOwner == \A o, x \in Object : Valid(o) /\ fd[o] = fd[x] => o = x

\* A socket no object holds is open for ever: it keeps its port, and its peer
\* waits.  No move, failed address or failed bind leaves one behind.
NoLeak == dial = NoObject => \A d \in Descriptor : table[d] \in SocketKinds => \E o \in Object : fd[o] = d

\* An object never holds a descriptor that was closed and may be a file, or
\* another's socket, by now.
NoStale == \A o \in Object : Valid(o) => table[fd[o]] \in SocketKinds
=============================================================================
