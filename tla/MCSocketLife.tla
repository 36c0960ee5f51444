----------------------------- MODULE MCSocketLife -----------------------------
(***************************************************************************)
(* An instance of SocketLife for TLC: the objects of BindAndAccept (the    *)
(* listener, the result of Accept and the caller's socket).                *)
(***************************************************************************)
EXTENDS SocketLife, TLC

CONSTANTS listener, result, out, none

MCObject == {listener, result, out}
Symmetric == Permutations(MCObject)
=============================================================================
