----------------------------- MODULE MCMapfile -----------------------------
(* Instances of Mapfile for TLC: two threads that share a handle, three     *)
(* keys that hash_gen sends to one row and a fourth in a row of its own.    *)
EXTENDS Mapfile, TLC

CONSTANTS t1, t2, t3, h1, h2, k1, k2, k3, k4, v1, v2, row1, row2

OneHandle  == [t \in Threads |-> h1]
TwoHandles == [t \in Threads |-> IF t = t3 THEN h2 ELSE h1]

SameRow == [k \in Keys |-> IF k = k4 THEN row2 ELSE row1]

NoPrefixes  == [k \in Keys |-> {k}]

Set(k, v) == [op |-> "set", key |-> k, val |-> v]
Del(k)    == [op |-> "del", key |-> k]
Fetch(k)  == [op |-> "get", key |-> k]
Emp       == [op |-> "emp"]

(* Nothing is deleted from a row that several keys share.  Sets meet each   *)
(* kind of call, and so does emp; a third thread only opens the file, for   *)
(* itself.                                                                  *)
MapCalls == [t \in Threads |->
  CASE t = t1 -> {Set(k1, v1), Set(k2, v1), Set(k4, v1), Fetch(k1), Del(k4)}
    [] t = t2 -> {Set(k1, v2), Set(k3, v1), Emp}
    [] t = t3 -> {}]

SetCalls == [t \in Threads |-> {Set(k, v1) : k \in Keys} \cup {Set(k1, v2)}]
DelCalls == [t \in Threads |-> SetCalls[t] \cup {Del(k) : k \in Keys}]
=============================================================================
