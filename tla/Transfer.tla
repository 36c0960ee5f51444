------------------------------ MODULE Transfer ------------------------------
(***************************************************************************)
(* What one session promises to the receiving user, without sockets,       *)
(* blocks or records: files appear in the output directory one by one, in  *)
(* the order of a plan that is announced once; a file that counts as       *)
(* received has the size and the checksum of its plan entry; only the file *)
(* in transit can be in any other state; success means the whole plan.     *)
(***************************************************************************)
EXTENDS Integers, Sequences

CONSTANTS
    Path,      \* relative paths
    EmptyPath, \* the path that is no file
    Entry,     \* plan entries: [path, size, crc]
    Content,   \* what a file can hold
    Missing,   \* ... or that there is none
    Rejected,  \* paths nothing is ever written to
    Crc(_),    \* checksum of a content
    NoCheck    \* the checksum value that stands for "not verified"

VARIABLES
    plan,      \* the announced entries, <<>> before
    verify,    \* checksums are compared
    next,      \* how many entries have been dealt with
    counted,   \* the entries reported as received
    store,     \* the output directory
    outcome    \* "running", "ok" or "failed"

vars == <<plan, verify, next, counted, store, outcome>>

Init ==
    /\ plan = <<>>
    /\ verify \in BOOLEAN
    /\ next = 0
    /\ counted = <<>>
    /\ store \in [Path -> Content \cup {Missing}]
    /\ outcome = "running"

Announce ==
    /\ plan = <<>>
    /\ plan' \in Seq(Entry) \ {<<>>}
    /\ UNCHANGED <<verify, next, counted, store, outcome>>

Pending == outcome = "running" /\ next < Len(plan)

\* What the content of a received file must be like.
Faithful(e, c) ==
    /\ c \in Content
    /\ Len(c) = e.size
    /\ verify /\ e.crc # NoCheck => Crc(c) = e.crc

\* The next file is complete, and from now on counts as received.
Deliver ==
    /\ Pending
    /\ next' = next + 1
    /\ LET e == plan[next + 1] IN
          /\ e.path \notin Rejected \cup {EmptyPath}
          /\ \A p \in Path \ {e.path} : store'[p] = store[p]
          /\ Faithful(e, store'[e.path])
          /\ counted' = Append(counted, e)
    /\ UNCHANGED <<plan, verify, outcome>>

\* An entry without a path is passed over.
Skip ==
    /\ Pending
    /\ plan[next + 1].path = EmptyPath
    /\ next' = next + 1
    /\ UNCHANGED <<plan, verify, counted, store, outcome>>

\* The file in transit is created, grows, or is left as it is by a failure.
Transit ==
    /\ Pending
    /\ \A p \in (Path \ {plan[next + 1].path}) \cup Rejected : store'[p] = store[p]
    /\ outcome' \in {"running", "failed"}
    /\ UNCHANGED <<plan, verify, next, counted>>

Succeed ==
    /\ outcome = "running"
    /\ plan # <<>>
    /\ next = Len(plan)
    /\ outcome' = "ok"
    /\ UNCHANGED <<plan, verify, next, counted, store>>

Fail ==
    /\ outcome = "running"
    /\ outcome' = "failed"
    /\ UNCHANGED <<plan, verify, next, counted, store>>

Next == Announce \/ Deliver \/ Skip \/ Transit \/ Succeed \/ Fail

Spec == Init /\ [][Next]_vars
=============================================================================
