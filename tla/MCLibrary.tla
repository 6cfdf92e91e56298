------------------------------ MODULE MCLibrary ------------------------------
(* Instances for TLC of the components that share no state with the others: *)
(* the log, the hash table, the conversion lists, the JSON functions and    *)
(* sem_timedwait_ms.  A behaviour exercises one of them, the others stay as *)
(* they began: what is checked is each component by itself.                 *)
EXTENDS Log, UTHash, ProtocolConvert, JsonApi, GwMisc, TLC

(* Log: two threads; records of one and two bytes and one that the buffer   *)
(* does not hold.                                                           *)
CONSTANTS short, long, huge

Lengths == [r \in Records |->
  CASE r = short -> 1 [] r = long -> 2 [] r = huge -> WRITE_BUF_SIZE]
(* Only the long record has arguments.                                     *)
Printed == [r \in Records |-> IF r = long THEN Records ELSE {r}]
Severities == [r \in Records |-> IF r = short THEN 1 ELSE 3]

(* UTHash: two crowded buckets.  a1 and a2 collide however many buckets     *)
(* there are, as do b1, b2 and b3; a3 is separated from a1 by the third     *)
(* expansion.                                                               *)
CONSTANTS a1, a2, a3, b1, b2, b3

Itself == [e \in Elements |-> e]
Hashes == [k \in Elements |-> IF k \in {a1, a2} THEN 0
                              ELSE IF k = a3 THEN 8 ELSE 1]

(* JsonApi: a text that fits, one that is not JSON and one that is too big; *)
(* one of the two looked-up items is missing from the tree.                 *)
CONSTANTS object, broken, big, pair1, pair2, item1

Sizes == [x \in Texts |-> CASE x = object -> 2 [] x = broken -> 3 [] x = big -> 4]
Items == [x \in JsonTexts |-> [p \in KeyPairs |->
  IF p = pair1 /\ x = object THEN item1 ELSE NoItem]]

(* GwMisc: just before and after a second begins.                           *)
Clock == {[tv_sec |-> s, tv_nsec |-> n] :
            s \in 5 .. 7, n \in {0, 1000001, 999999999}}

VARIABLE component

all_vars == <<vars, hash_vars, conv_vars, json_vars, misc_vars, component>>

LibraryInit ==
  /\ component \in {"log", "uthash", "protocol", "json", "misc"}
  /\ Init /\ HashInit /\ ConvInit /\ JsonInit
  /\ MiscInit
  /\ component # "misc" => clock = [tv_sec |-> 5, tv_nsec |-> 0]

LibraryNext ==
  /\ UNCHANGED component
  /\ \/ /\ component = "log" /\ Next
        /\ UNCHANGED <<hash_vars, conv_vars, json_vars, misc_vars>>
     \/ /\ component = "uthash" /\ HashNext
        /\ UNCHANGED <<vars, conv_vars, json_vars, misc_vars>>
     \/ /\ component = "protocol" /\ ConvNext
        /\ UNCHANGED <<vars, hash_vars, json_vars, misc_vars>>
     \/ /\ component = "json" /\ JsonNext
        /\ UNCHANGED <<vars, hash_vars, conv_vars, misc_vars>>
     \/ /\ component = "misc" /\ MiscNext
        /\ UNCHANGED <<vars, hash_vars, conv_vars, json_vars>>

LibrarySpec == LibraryInit /\ [][LibraryNext]_all_vars

Symmetry == Permutations({a1, a2}) \cup Permutations({b1, b2, b3})
==============================================================================
