----------------------------- MODULE MCDispatch -----------------------------
(* Instances of Dispatch for TLC: threads that each have a module id of     *)
(* their own.                                                              *)
EXTENDS Dispatch, TLC

CONSTANTS a, b, c   \* the threads

OwnModule == [t \in Threads |-> CASE t = a -> 1 [] t = b -> 2 [] t = c -> 3]

FdSymmetry == Permutations(Fds \ {DISPATCH_INVALID_FD})
=============================================================================
