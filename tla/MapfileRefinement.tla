-------------------------- MODULE MapfileRefinement --------------------------
(***************************************************************************)
(* mapfile.c implements the abstract map: every step of Mapfile is a step  *)
(* of KVMap, or changes nothing that KVMap sees, for any number of         *)
(* threads, keys, rows and power failures.                                 *)
(***************************************************************************)
EXTENDS MapfileProofs, SequenceLemmas

-----------------------------------------------------------------------------
(* What is found in a file.                                                *)

LEMMA LookupFull ==
  ASSUME Inv, NoPrefix, NEW k \in Keys
  PROVE  /\ Lookup(file, k) = Get(file.rows[hash_gen[k]], k)
         /\ Lookup(disk, k) = Get(disk.rows[hash_gen[k]], k)
<1>1. EmptyRows[hash_gen[k]] = EmptyRow
  BY DEF EmptyRows, Rows
<1>2. Get(EmptyRow, k) = Absent
  BY GetMiss DEF EmptyRow
<1> QED BY <1>1, <1>2 DEF Lookup, Inv, DiskInv, NoRowsUnlessFull

(* What calls see of the map is what a power failure would leave, and what *)
(* the file holds when nobody has written and not synced.                  *)
LEMMA SeenIs ==
  ASSUME Inv, NoPrefix
  PROVE  Map!Seen = [k \in Keys |-> Get(Stored[hash_gen[k]], k)]
<1>1. CASE emptied
  <2>1. ASSUME NEW k \in Keys PROVE Get(Stored[hash_gen[k]], k) = Absent
    <3>1. Stored[hash_gen[k]] = EmptyRow
      BY <1>1 DEF Stored, EmptyRows, Rows
    <3>2. Get(EmptyRow, k) = Absent
      BY GetMiss DEF EmptyRow
    <3> QED BY <3>1, <3>2
  <2> QED BY <1>1, <2>1 DEF Map!Seen, Map!EmptyMap
<1>2. CASE ~emptied
  <2>1. Stored = disk.rows
    BY <1>2 DEF Stored
  <2>2. \A k \in Keys : Lookup(disk, k) = Get(Stored[hash_gen[k]], k)
    BY <2>1, LookupFull
  <2> QED BY <1>2, <2>2 DEF Map!Seen
<1> QED BY <1>1, <1>2

LEMMA SeenAlone ==
  ASSUME Inv, NoPrefix, \A t \in Threads : ~Unsaved(t), NEW k \in Keys
  PROVE  Map!Seen[k] = Lookup(file, k)
<1>1. file.rows = Stored
  BY DEF Inv, DiskInv, SyncedRows
<1> QED BY <1>1, SeenIs, LookupFull

LEMMA SettledAlone ==
  ASSUME Inv, NoPrefix, ~emptied, \A t \in Threads : ~Unsaved(t)
  PROVE  Settled
<1>1. file.rows = disk.rows
  BY DEF Inv, DiskInv, SyncedRows, Stored
<1> QED BY <1>1, LookupFull DEF Settled

(* What the thread that is about to sync has made of the map.              *)
MadeOf(t) ==
  /\ call[t].op \in {"set", "del"} /\ call[t].key \in Keys
  /\ file.size = "full"
  /\ \A k \in Keys : Lookup(file, k) =
       IF k # call[t].key THEN Map!Seen[k]
       ELSE IF call[t].op = "set" THEN call[t].val ELSE Absent

Pending == \A t \in Threads : Unsaved(t) => MadeOf(t)

LEMMA PendingNow == Hypotheses /\ Inv => Pending
<1> SUFFICES ASSUME Hypotheses, Inv, NEW t \in Threads, Unsaved(t) PROVE MadeOf(t)
  BY DEF Pending
<1>1. pc[t] = "sync" /\ call[t].op # "emp" /\ NoPrefix
  BY DEF Unsaved, Hypotheses
<1>2. /\ call[t] \in Requests /\ call[t].op \in {"set", "del"}
      /\ call[t].key \in Keys /\ RowOf(t) = hash_gen[call[t].key]
  BY <1>1, InCall, RequestFields DEF Inv, TypeInv, CallKnown, Inside, RowOf
<1>3. /\ file.size = "full"
      /\ Get(file.rows[RowOf(t)], call[t].key)
           = IF call[t].op = "set" THEN call[t].val ELSE Absent
      /\ OtherKeysSame(call[t].key)
  BY <1>1 DEF Inv, DiskInv, CallDone, Done
<1>4. ASSUME NEW k \in Keys \ {call[t].key} PROVE Lookup(file, k) = Map!Seen[k]
  BY <1>1, <1>3, LookupFull, SeenIs DEF OtherKeysSame
<1>5. Lookup(file, call[t].key) = IF call[t].op = "set" THEN call[t].val ELSE Absent
  BY <1>2, <1>3 DEF Lookup
<1> QED BY <1>2, <1>3, <1>4, <1>5 DEF MadeOf

LEMMA PendingNext == Hypotheses /\ Inv' => Pending'
<1> SUFFICES ASSUME Hypotheses PROVE Inv' => Pending'
  OBVIOUS
<1>1. Inv => Pending
  BY PendingNow
<1> QED BY <1>1, PTL

(* A set that finds no slot finds as many other keys as the row has slots. *)
LEMMA FullRow ==
  ASSUME NoPrefix, NEW row \in Row, NEW k \in Keys,
         Shaped(row, hash_gen[k]), Stop(row, k) = {}
  PROVE  /\ Get(row, k) = Absent
         /\ \E f \in [Slots -> {l \in Keys : hash_gen[l] = hash_gen[k]
                                            /\ Get(row, l) # Absent}] :
              \A i, j \in Slots : f[i] = f[j] => i = j
<1> DEFINE S == {l \in Keys : hash_gen[l] = hash_gen[k] /\ Get(row, l) # Absent}
           free == {j \in Slots : row[j] = Hole \/ Matches(k, row[j])}
           f == [j \in Slots |-> row[j].key]
<1>1. free = {}
  <2> SUFFICES ASSUME free # {} PROVE FALSE
    OBVIOUS
  <2>1. free \in SUBSET Nat
    BY ConstantsAssumption DEF Slots
  <2>2. PICK m \in free : \A n \in free : m <= n
    BY <2>1, Least
  <2>3. m \in Slots /\ m \in Nat /\ TABLE_ROW_SIZE \in Nat
    BY <2>1, ConstantsAssumption
  <2>4. ASSUME NEW l \in 1 .. m - 1 PROVE l \notin free
    BY <2>2, <2>3, <2>4
  <2>5. \A l \in 1 .. m - 1 : l \in Slots
    BY <2>3 DEF Slots
  <2>6. m \in Stop(row, k)
    BY <2>2, <2>3, <2>4, <2>5 DEF Stop
  <2> QED BY <2>6
<1>2. ASSUME NEW j \in Slots
      PROVE  row[j] # Hole /\ row[j] \in Item /\ row[j].key \in Keys /\ row[j].key # k
             /\ row[j].val \in Values /\ hash_gen[row[j].key] = hash_gen[k]
  <2>1. row[j] # Hole /\ ~Matches(k, row[j])
    BY <1>1
  <2>2. row[j] \in Item
    BY <2>1 DEF Row
  <2>3. row[j].key \in Keys /\ row[j].val \in Values
    BY <2>2 DEF Item
  <2>4. row[j].key # k
    BY <2>1 DEF Matches, NoPrefix
  <2>5. hash_gen[row[j].key] = hash_gen[k]
    BY <2>1 DEF Shaped
  <2> QED BY <2>1, <2>2, <2>3, <2>4, <2>5
<1>3. Get(row, k) = Absent
  BY <1>2, GetMiss
<1>4. f \in [Slots -> S]
  <2> SUFFICES ASSUME NEW j \in Slots PROVE row[j].key \in S
    OBVIOUS
  <2>1. Get(row, row[j].key) = row[j].val
    BY <1>2, GetHit
  <2> QED BY <1>2, <2>1, ConstantsAssumption
<1>5. ASSUME NEW i \in Slots, NEW j \in Slots, i # j PROVE f[i] # f[j]
  <2>1. i \in 1 .. j - 1 \/ j \in 1 .. i - 1
    BY <1>5, ConstantsAssumption DEF Slots
  <2>2. row[i].key # row[j].key
    BY <1>2, <2>1 DEF Shaped
  <2> QED BY <2>2
<1> QED BY <1>3, <1>4, <1>5

-----------------------------------------------------------------------------
(* Steps that the abstract map does not see, and steps that are a call's   *)
(* effect.                                                                 *)

LEMMA SameAnswer ==
  ASSUME NEW u \in Threads, pc'[u] = pc[u], ret'[u] = ret[u], call'[u] = call[u],
         Unsaved(u) => (Settled' <=> Settled)
  PROVE  Answered(u)' = Answered(u)
BY DEF Answered, Emptying, Unsaved

(* Threads outside the critical section have no answer.                    *)
LEMMA NoAnswerOutside ==
  ASSUME NEW u \in Threads, pc[u] \notin {"truncate", "sync", "unlock"}
  PROVE  Answered(u) = NoReply
BY DEF Answered, Emptying

(* The thread in the critical section is alone with what is not synced.    *)
LEMMA AloneUnsynced ==
  ASSUME Inv, OneHandle, NEW t \in Threads, pc[t] \in Inside
  PROVE  \A u \in Threads \ {t} : /\ pc[u] \notin {"truncate", "sync", "unlock"}
                                  /\ ~Unsaved(u)
BY Exclusion DEF Inv, Inside, Unsaved

NoneUnderway == \A u \in Threads : Answered(u) # Underway

LEMMA AloneUnderway ==
  ASSUME Inv, OneHandle, NEW t \in Threads,
         pc[t] \in {"read", "write", "fopen"} \/ Unsaved(t)
  PROVE  NoneUnderway
<1> SUFFICES ASSUME NEW u \in Threads PROVE Answered(u) # Underway
  BY DEF NoneUnderway
<1>1. NoReply # Underway /\ Success # Underway
  BY DEF NoReply, Underway, Success
<1>2. CASE u # t
  <2>1. pc[t] \in Inside
    BY DEF Inside, Unsaved
  <2>2. pc[u] \notin {"truncate", "sync", "unlock"}
    BY <1>2, <2>1, AloneUnsynced
  <2> QED BY <1>1, <2>2, NoAnswerOutside
<1>3. CASE u = t
  <2>1. CASE pc[t] \in {"read", "write", "fopen"}
    BY <1>1, <1>3, <2>1, NoAnswerOutside
  <2>2. CASE Unsaved(t)
    <3>1. Answered(t) \in {NoReply, Success}
      BY <2>2 DEF Answered, Emptying, Unsaved
    <3> QED BY <1>1, <1>3, <3>1
  <2> QED BY <2>1, <2>2
<1> QED BY <1>2, <1>3

LEMMA Unseen ==
  ASSUME call' = call, emptied' = emptied, file'.size = "full" <=> file.size = "full",
         \A k \in Keys : Lookup(disk', k) = Lookup(disk, k),
         \A t \in Threads : Answered(t)' = Answered(t)
  PROVE  [Map!Next]_(Map!vars)
<1>1. [k \in Keys |-> Lookup(disk, k)]' = [k \in Keys |-> Lookup(disk, k)]
  OBVIOUS
<1>2. [t \in Threads |-> Answered(t)]' = [t \in Threads |-> Answered(t)]
  OBVIOUS
<1>3. (file.size = "full")' = (file.size = "full")
  OBVIOUS
<1> QED BY <1>1, <1>2, <1>3 DEF Map!vars

LEMMA OneAnswer ==
  ASSUME NEW t \in Threads, NEW a, Answered(t)' = a,
         \A u \in Threads \ {t} : Answered(u)' = Answered(u)
  PROVE  [u \in Threads |-> Answered(u)]' = [[u \in Threads |-> Answered(u)] EXCEPT ![t] = a]
OBVIOUS

(* A set or del takes effect: the map is what its thread has made of it.   *)
LEMMA Effect ==
  ASSUME Inv, NoPrefix, call' = call, emptied' = FALSE,
         file.size = "full", file'.size = "full",
         NEW t \in Threads, Answered(t) = NoReply, Answered(t)' = Success,
         \A u \in Threads \ {t} : Answered(u)' = Answered(u), NoneUnderway,
         call[t].op \in {"set", "del"}, call[t].key \in Keys,
         \A k \in Keys : Lookup(disk', k) =
           IF k # call[t].key THEN Map!Seen[k]
           ELSE IF call[t].op = "set" THEN call[t].val ELSE Absent
  PROVE  Map!Next
<1> DEFINE kvA == [k \in Keys |-> Lookup(disk, k)]
           ansA == [u \in Threads |-> Answered(u)]
           x == IF call[t].op = "set" THEN call[t].val ELSE Absent
<1>1. /\ ansA' = [ansA EXCEPT ![t] = Success] /\ ansA[t] = NoReply
      /\ \A u \in Threads : ansA[u] # Underway
  BY DEF NoneUnderway
<1>2. /\ (file.size = "full")' = TRUE /\ (file.size = "full") = TRUE
      /\ (file.size = "full")' = (file.size = "full")
  OBVIOUS
<1>3. kvA' = [Map!Seen EXCEPT ![call[t].key] = x]
  <2>1. Map!Seen = [k \in Keys |-> Map!Seen[k]]
    BY SeenIs
  <2> HIDE DEF x
  <2>2. \A k \in Keys : Lookup(disk', k) = IF k # call[t].key THEN Map!Seen[k] ELSE x
    BY DEF x
  <2>3. kvA' = [k \in Keys |-> IF k # call[t].key THEN Map!Seen[k] ELSE x]
    BY <2>2
  <2> DEFINE m == Map!Seen
  <2> HIDE DEF m, kvA
  <2>4. m = [k \in Keys |-> m[k]]
    BY <2>1 DEF m
  <2>5. [m EXCEPT ![call[t].key] = x] = [k \in Keys |-> IF k # call[t].key THEN m[k] ELSE x]
    BY <2>4
  <2> QED BY <2>3, <2>5 DEF m
<1>4. CASE call[t].op = "set"
  <2>1. kvA' = [Map!Seen EXCEPT ![call[t].key] = call[t].val]
    BY <1>3, <1>4
  <2>2. Map!DoSet(t)
    BY <1>1, <1>2, <1>4, <2>1 DEF Map!DoSet, Map!Store, Map!Answer, Map!Success, Success
  <2>3. Map!Do(t)
    BY <1>1, <2>2 DEF Map!Do, Map!NoAnswer, NoReply, Map!Underway, Underway
  <2> QED BY <2>3 DEF Map!Next
<1>5. CASE call[t].op = "del"
  <2>1. kvA' = [Map!Seen EXCEPT ![call[t].key] = Absent]
    BY <1>3, <1>5
  <2>2. Map!DoDel(t)
    BY <1>1, <1>2, <1>5, <2>1 DEF Map!DoDel, Map!Store, Map!Answer, Map!Success, Success
  <2>3. Map!Do(t)
    BY <1>1, <2>2 DEF Map!Do, Map!NoAnswer, NoReply, Map!Underway, Underway
  <2> QED BY <2>3 DEF Map!Next
<1> QED BY <1>4, <1>5

-----------------------------------------------------------------------------
(* One lemma per step.                                                     *)

LEMMA CallMaps ==
  ASSUME Inv, NEW t \in Threads, NEW c \in CallsOf[t], Call(t, c)
  PROVE  Map!Next
<1>1. /\ pc[t] = "idle" /\ call' = [call EXCEPT ![t] = c]
      /\ pc' = [pc EXCEPT ![t] = "lock"]
      /\ UNCHANGED <<file, disk, emptied, ret>>
      /\ t \in DOMAIN pc /\ t \in DOMAIN call /\ c \in Requests
  BY ConstantsAssumption DEF Call, Become, Inv, TypeInv, TypeOK
<1>2. call[t] = NoCall
  BY <1>1 DEF Inv, TypeInv, CallKnown, Inside
<1>3. (file.size = "full")' = (file.size = "full")
  BY <1>1
<1>4. ASSUME NEW u \in Threads PROVE Answered(u)' = Answered(u)
  <2>1. CASE u = t
    BY <1>1, <2>1 DEF Answered, Emptying
  <2>2. CASE u # t
    <3>1. /\ pc'[u] = pc[u] /\ ret'[u] = ret[u] /\ call'[u] = call[u]
          /\ Settled' <=> Settled
      BY <1>1, <2>2 DEF Settled, Lookup
    <3> QED BY <3>1, SameAnswer
  <2> QED BY <2>1, <2>2
<1>5. /\ UNCHANGED [k \in Keys |-> Lookup(disk, k)]
      /\ UNCHANGED [u \in Threads |-> Answered(u)]
  BY <1>1, <1>4 DEF Lookup
<1>6. /\ call[t] = Map!NoRequest /\ call'[t] \in Map!Requests
      /\ call' = [call EXCEPT ![t] = call'[t]]
  BY <1>1, <1>2 DEF Map!NoRequest, NoCall, Map!Requests, Requests
<1>7. Map!Call(t)
  BY <1>1, <1>3, <1>5, <1>6 DEF Map!Call
<1> QED BY <1>7 DEF Map!Next

(* What a step leaves alone that changes only the place and the locals of  *)
(* a thread, and that answers nothing.                                     *)
LEMMA QuietMaps ==
  ASSUME Inv, NEW t \in Threads, UNCHANGED <<file, disk, emptied, call, ret>>,
         pc[t] \notin {"truncate", "sync", "unlock"},
         NEW l, l \notin {"truncate", "sync", "unlock"}, pc' = [pc EXCEPT ![t] = l]
  PROVE  [Map!Next]_(Map!vars)
<1>1. t \in DOMAIN pc /\ pc'[t] = l /\ \A u \in Threads \ {t} : pc'[u] = pc[u]
  BY DEF Inv, TypeInv, TypeOK
<1>2. ASSUME NEW u \in Threads PROVE Answered(u)' = Answered(u)
  <2>1. CASE u = t
    BY <1>1, <2>1 DEF Answered, Emptying
  <2>2. CASE u # t
    BY <1>1, <2>2, SameAnswer DEF Settled, Lookup
  <2> QED BY <2>1, <2>2
<1>3. \A k \in Keys : Lookup(disk', k) = Lookup(disk, k)
  BY DEF Lookup
<1> QED BY <1>2, <1>3, Unseen

LEMMA QuietSteps ==
  ASSUME Inv, NEW t \in Threads,
         Open(t) \/ OpenFails(t) \/ Lock(t) \/ ReadForSet(t) \/ ReadForDel(t)
  PROVE  [Map!Next]_(Map!vars)
<1>1. CASE Open(t)
  <2>1. CASE pc' = [pc EXCEPT ![t] = "create"]
    BY <1>1, <2>1, QuietMaps DEF Open
  <2>2. CASE pc' = pc
    <3>1. pc' = [pc EXCEPT ![t] = "idle"]
      BY <1>1, <2>2 DEF Open, Inv, TypeInv, TypeOK
    <3> QED BY <1>1, <3>1, QuietMaps DEF Open
  <2> QED BY <1>1, <2>1, <2>2 DEF Open, Become
<1>2. CASE Lock(t)
  <2>1. \E l \in {"fopen", "read"} : pc' = [pc EXCEPT ![t] = l]
    BY <1>2 DEF Lock, Become
  <2> QED BY <1>2, <2>1, QuietMaps DEF Lock
<1>3. CASE ReadForSet(t) \/ ReadForDel(t)
  <2>1. pc' = [pc EXCEPT ![t] = "write"]
    BY <1>3 DEF ReadForSet, ReadForDel, Become
  <2> QED BY <1>3, <2>1, QuietMaps DEF ReadForSet, ReadForDel
<1>4. CASE OpenFails(t)
  BY <1>4, QuietMaps DEF OpenFails, Become
<1> QED BY <1>1, <1>2, <1>3, <1>4

(* A thread that gives up, or answers a get.                               *)
LEMMA ReplyMaps ==
  ASSUME Inv, OneHandle, NEW t \in Threads, NEW a,
         UNCHANGED <<file, disk, emptied, call>>, pc[t] \in {"read", "write", "fopen"},
         Reply(t, a)
  PROVE  /\ [u \in Threads |-> Answered(u)]' = [[u \in Threads |-> Answered(u)]
                                                  EXCEPT ![t] = a]
         /\ (file.size = "full")' = (file.size = "full")
         /\ UNCHANGED [k \in Keys |-> Lookup(disk, k)]
         /\ [u \in Threads |-> Answered(u)][t] = Map!NoAnswer
         /\ \A u \in Threads : [w \in Threads |-> Answered(w)][u] # Map!Underway
<1>1. /\ pc' = [pc EXCEPT ![t] = "unlock"] /\ ret' = [ret EXCEPT ![t] = a]
      /\ t \in DOMAIN pc /\ t \in DOMAIN ret
      /\ \A u \in Threads \ {t} : pc'[u] = pc[u] /\ ret'[u] = ret[u]
      /\ pc'[t] = "unlock" /\ ret'[t] = a
  BY DEF Reply, Become, Inv, TypeInv, TypeOK
<1>2. Answered(t) = NoReply /\ Answered(t)' = a
  BY <1>1 DEF Answered, Emptying
<1>3. \A u \in Threads \ {t} : Answered(u)' = Answered(u)
  BY <1>1, SameAnswer DEF Settled, Lookup
<1>4. [u \in Threads |-> Answered(u)]' = [[u \in Threads |-> Answered(u)] EXCEPT ![t] = a]
  BY <1>2, <1>3
<1>5. NoneUnderway
  BY AloneUnderway
<1>6. UNCHANGED [k \in Keys |-> Lookup(disk, k)]
  BY DEF Lookup
<1> QED BY <1>2, <1>4, <1>5, <1>6 DEF Map!NoAnswer, NoReply, Map!Underway, Underway,
                                      NoneUnderway

(* At the read and the write nothing is waiting to be synced.              *)
LEMMA ReadSeen ==
  ASSUME Hypotheses, Inv, NEW t \in Threads, pc[t] \in {"read", "write", "fopen"},
         NEW k \in Keys
  PROVE  Map!Seen[k] = Lookup(file, k)
<1>1. \A u \in Threads : ~Unsaved(u)
  BY AloneUnsynced DEF Inside, Hypotheses, Unsaved
<1> QED BY <1>1, SeenAlone DEF Hypotheses

(* The file is not whole: read_kv_item or write_kv_item fails.             *)
LEMMA FailMaps ==
  ASSUME Hypotheses, Inv, NEW t \in Threads,
         pc[t] \in {"read", "write"}, file.size # "full",
         UNCHANGED <<file, disk, emptied, call>>, Reply(t, Failure)
  PROVE  Map!Next
<1>1. /\ [u \in Threads |-> Answered(u)]' = [[u \in Threads |-> Answered(u)]
                                                  EXCEPT ![t] = Failure]
      /\ (file.size = "full")' = (file.size = "full")
      /\ UNCHANGED [k \in Keys |-> Lookup(disk, k)]
      /\ [u \in Threads |-> Answered(u)][t] = Map!NoAnswer
      /\ \A u \in Threads : [w \in Threads |-> Answered(w)][u] # Map!Underway
  BY ReplyMaps DEF Hypotheses
<1>2. call[t].op \in {"set", "del"} \/ (call[t].op = "get" /\ call[t].key \in Keys)
  <2>1. call[t] \in Requests /\ call[t].op # "emp"
    BY InCall DEF Inv, TypeInv, CallKnown, Inside
  <2> QED BY <2>1, RequestFields
<1>3. CASE call[t].op \in {"set", "del"}
  <2>1. Map!DoFail(t)
    BY <1>1, <1>3 DEF Map!DoFail, Map!Answer, Map!Failure, Failure
  <2>2. Map!Do(t)
    BY <1>1, <2>1 DEF Map!Do
  <2> QED BY <2>2 DEF Map!Next
<1>4. CASE call[t].op = "get" /\ call[t].key \in Keys
  <2>1. Map!Seen[call[t].key] = Absent
    BY <1>4, ReadSeen DEF Lookup
  <2>2. Map!DoGet(t)
    BY <1>1, <1>4, <2>1 DEF Map!DoGet, Map!Answer, Map!Failure, Failure
  <2>3. Map!Do(t)
    BY <1>1, <2>2 DEF Map!Do
  <2> QED BY <2>3 DEF Map!Next
<1> QED BY <1>2, <1>3, <1>4

LEMMA GetMaps ==
  ASSUME Hypotheses, Inv, NEW t \in Threads, ReadForGet(t)
  PROVE  Map!Next
<1> DEFINE v == Get(file.rows[RowOf(t)], call[t].key)
           a == IF v = Absent THEN Failure ELSE [ok |-> TRUE, val |-> v]
<1>1. /\ pc[t] = "read" /\ file.size = "full" /\ call[t].op = "get"
      /\ UNCHANGED <<file, disk, emptied, call>> /\ Reply(t, a)
  BY DEF ReadForGet
<1>2. call[t].key \in Keys
  BY <1>1, InCall DEF Inv, Inside
<1>3. Map!Seen[call[t].key] = v
  BY <1>1, <1>2, ReadSeen DEF Lookup, RowOf
<1> HIDE DEF v
<1> HIDE DEF a
<1>4. /\ [u \in Threads |-> Answered(u)]' = [[u \in Threads |-> Answered(u)]
                                                  EXCEPT ![t] = a]
      /\ (file.size = "full")' = (file.size = "full")
      /\ UNCHANGED [k \in Keys |-> Lookup(disk, k)]
      /\ [u \in Threads |-> Answered(u)][t] = Map!NoAnswer
      /\ \A u \in Threads : [w \in Threads |-> Answered(w)][u] # Map!Underway
  BY <1>1, ReplyMaps DEF Hypotheses
<1>5. Map!DoGet(t)
  <2>1. a = IF v = Absent THEN Map!Failure ELSE Map!Found(v)
    BY DEF a, Map!Failure, Failure, Map!Found
  <2> QED BY <1>1, <1>3, <1>4, <2>1 DEF Map!DoGet, Map!Answer
<1>6. Map!Do(t)
  BY <1>1, <1>4, <1>5 DEF Map!Do
<1> QED BY <1>6 DEF Map!Next

LEMMA FullMaps ==
  ASSUME Hypotheses, Inv, NEW t \in Threads, ReadRowFull(t)
  PROVE  Map!Next
<1> DEFINE k == call[t].key
           row == file.rows[RowOf(t)]
           seen == Map!Seen
<1>1. /\ pc[t] = "read" /\ file.size = "full" /\ call[t].op = "set"
      /\ Stop(row, k) = {}
      /\ UNCHANGED <<file, disk, emptied, call>> /\ Reply(t, Failure)
  BY DEF ReadRowFull
<1>2. k \in Keys /\ RowOf(t) = hash_gen[k] /\ RowOf(t) \in Rows
  BY <1>1, InCall DEF Inv, Inside, RowOf
<1>3. row \in Row /\ Shaped(row, hash_gen[k])
  BY <1>2 DEF Inv, DiskInv, RowsShaped, TypeInv, TypeOK, File
<1>4. ASSUME NEW l \in Keys, hash_gen[l] = hash_gen[k]
      PROVE  seen[l] = Get(row, l)
  <2>1. Map!Seen[l] = Lookup(file, l)
    BY <1>1, ReadSeen
  <2> QED BY <1>1, <1>2, <1>4, <2>1 DEF Lookup
<1>5. /\ Get(row, k) = Absent
      /\ \E f \in [Slots -> {l \in Keys : hash_gen[l] = hash_gen[k]
                                         /\ Get(row, l) # Absent}] :
           \A i, j \in Slots : f[i] = f[j] => i = j
  BY <1>1, <1>2, <1>3, FullRow DEF Hypotheses
<1> HIDE DEF k, row, seen
<1>6. seen[k] = Absent
  BY <1>2, <1>4, <1>5
<1>7. {l \in Keys : hash_gen[l] = hash_gen[k] /\ seen[l] # Absent}
        = {l \in Keys : hash_gen[l] = hash_gen[k] /\ Get(row, l) # Absent}
  BY <1>4
<1>8. /\ [u \in Threads |-> Answered(u)]' = [[u \in Threads |-> Answered(u)]
                                                  EXCEPT ![t] = Failure]
      /\ (file.size = "full")' = (file.size = "full")
      /\ UNCHANGED [l \in Keys |-> Lookup(disk, l)]
      /\ [u \in Threads |-> Answered(u)][t] = Map!NoAnswer
      /\ \A u \in Threads : [w \in Threads |-> Answered(w)][u] # Map!Underway
  BY <1>1, ReplyMaps DEF Hypotheses
<1>9. Map!RowFull(call[t].key)
  <2>1. \E f \in [Slots -> {l \in Keys : hash_gen[l] = hash_gen[k] /\ seen[l] # Absent}] :
          \A i, j \in Slots : f[i] = f[j] => i = j
    BY <1>5, <1>7
  <2> QED BY <2>1 DEF Map!RowFull, k, seen, Slots
<1>10. Map!Seen[call[t].key] = Absent
  BY <1>6 DEF k, seen
<1>11. Map!DoSet(t)
  BY <1>1, <1>8, <1>9, <1>10 DEF Map!DoSet, Map!Answer, Map!Failure, Failure
<1>12. Map!Do(t)
  BY <1>1, <1>8, <1>11 DEF Map!Do
<1> QED BY <1>12 DEF Map!Next

(* An I/O error before anything is changed.                                *)
LEMMA ErrorMaps ==
  ASSUME Hypotheses, Inv, NEW t \in Threads,
         \/ ReadError(t) \/ WriteError(t)
         \/ EmpError(t) /\ pc[t] = "fopen"
  PROVE  Map!Next
<1>1. /\ pc[t] \in {"read", "write", "fopen"} /\ Reply(t, Error)
      /\ UNCHANGED <<file, disk, emptied, call>>
  BY DEF ReadError, WriteError, EmpError
<1>2. /\ [u \in Threads |-> Answered(u)]' = [[u \in Threads |-> Answered(u)]
                                                  EXCEPT ![t] = Error]
      /\ (file.size = "full")' = (file.size = "full")
      /\ UNCHANGED [k \in Keys |-> Lookup(disk, k)]
      /\ [u \in Threads |-> Answered(u)][t] = Map!NoAnswer
      /\ \A u \in Threads : [w \in Threads |-> Answered(w)][u] # Map!Underway
  BY <1>1, ReplyMaps DEF Hypotheses
<1>3. call[t] # Map!NoRequest
  <2>1. call[t] \in Requests
    BY <1>1, InCall DEF Inv, Inside
  <2> QED BY <2>1, RequestFields DEF Map!NoRequest, NoCall
<1>4. Map!DoError(t)
  BY <1>1, <1>2, <1>3 DEF Map!DoError, Map!Answer, Map!Error, Error
<1>5. Map!Do(t)
  BY <1>1, <1>2, <1>4 DEF Map!Do
<1> QED BY <1>5 DEF Map!Next

(* write_kv_item: unseen, unless the disk holds already what is written.   *)
LEMMA WriteMaps ==
  ASSUME Hypotheses, Inv, Inv', NEW t \in Threads, Write(t)
  PROVE  [Map!Next]_(Map!vars)
<1>1. pc[t] = "write" /\ UNCHANGED <<disk, emptied, call>> /\ t \in DOMAIN pc
  BY DEF Write, Inv, TypeInv, TypeOK
<1>2. CASE file.size # "full"
  BY <1>1, <1>2, FailMaps DEF Write
<1>3. CASE file.size = "full"
  <2>1. pc' = [pc EXCEPT ![t] = "sync"] /\ UNCHANGED ret
    BY <1>3 DEF Write, Become
  <2>2. /\ pc'[t] = "sync" /\ call[t].op \in {"set", "del"}
        /\ \A u \in Threads \ {t} : pc'[u] = pc[u] /\ ~Unsaved(u)
    <3>1. pc[t] \in Inside
      BY <1>1 DEF Inside
    <3> QED BY <1>1, <2>1, <3>1, AloneUnsynced DEF Hypotheses, Inv, TypeInv, CallKnown
  <2>3. \A u \in Threads \ {t} : Answered(u)' = Answered(u)
    BY <1>1, <2>1, <2>2, SameAnswer
  <2>4. Map!Seen' = Map!Seen
    BY <1>1 DEF Map!Seen, Map!EmptyMap, Lookup
  <2>5. MadeOf(t)'
    <3>1. Unsaved(t)'
      BY <1>1, <2>2 DEF Unsaved
    <3> QED BY <3>1, PendingNext DEF Pending
  <2>6. /\ file'.size = "full" /\ call[t].key \in Keys
        /\ \A k \in Keys : Lookup(file', k) =
             IF k # call[t].key THEN Map!Seen[k]
             ELSE IF call[t].op = "set" THEN call[t].val ELSE Absent
    BY <1>1, <2>4, <2>5 DEF MadeOf
  <2>7. Answered(t) = NoReply /\ NoneUnderway
    BY <1>1, NoAnswerOutside, AloneUnderway DEF Hypotheses
  <2>8. CASE ~Settled'
    <3>1. Answered(t)' = NoReply
      BY <1>1, <2>2, <2>8 DEF Answered, Emptying
    <3>2. \A k \in Keys : Lookup(disk', k) = Lookup(disk, k)
      BY <1>1 DEF Lookup
    <3> QED BY <1>1, <1>3, <2>3, <2>6, <2>7, <3>1, <3>2, Unseen
  <2>9. CASE Settled'
    <3>1. Answered(t)' = Success
      BY <1>1, <2>2, <2>9 DEF Answered, Emptying
    <3>2. \A k \in Keys : Lookup(disk', k) = Lookup(file', k)
      BY <2>9 DEF Settled
    <3>3. emptied' = FALSE
      BY <2>9 DEF Settled, Inv, TypeInv, TypeOK
    <3> QED BY <1>1, <1>3, <2>2, <2>3, <2>6, <2>7, <3>1, <3>2, <3>3, Effect DEF Hypotheses
  <2> QED BY <2>8, <2>9
<1> QED BY <1>2, <1>3

(* fsync: the effect of the call, unless it has been seen already.         *)
LEMMA SyncMaps ==
  ASSUME Hypotheses, Inv, NEW t \in Threads, Sync(t)
  PROVE  [Map!Next]_(Map!vars)
<1>1. /\ pc[t] = "sync" /\ disk' = file /\ emptied' = FALSE /\ UNCHANGED <<file, call>>
      /\ pc' = [pc EXCEPT ![t] = "unlock"] /\ ret' = [ret EXCEPT ![t] = Success]
      /\ t \in DOMAIN pc /\ t \in DOMAIN ret
  BY DEF Sync, Reply, Become, Inv, TypeInv, TypeOK
<1>2. /\ pc'[t] = "unlock" /\ ret'[t] = Success
      /\ \A u \in Threads \ {t} : pc'[u] = pc[u] /\ ret'[u] = ret[u] /\ ~Unsaved(u)
  <2>1. pc[t] \in Inside
    BY <1>1 DEF Inside
  <2> QED BY <1>1, <2>1, AloneUnsynced DEF Hypotheses
<1>3. \A u \in Threads \ {t} : Answered(u)' = Answered(u)
  BY <1>1, <1>2, SameAnswer
<1>4. Answered(t)' = Success
  BY <1>2 DEF Answered
<1>5. \A k \in Keys : Lookup(disk', k) = Lookup(file, k)
  BY <1>1 DEF Lookup
<1>6. CASE Unsaved(t)
  <2>1. MadeOf(t)
    BY <1>6, PendingNow DEF Pending
  <2>2. CASE Settled
    <3>1. Answered(t) = Success
      BY <1>6, <2>2 DEF Answered, Emptying, Unsaved
    <3>2. emptied = FALSE /\ \A k \in Keys : Lookup(disk', k) = Lookup(disk, k)
      BY <1>5, <2>2 DEF Settled, Inv, TypeInv, TypeOK
    <3> QED BY <1>1, <1>3, <1>4, <3>1, <3>2, Unseen
  <2>3. CASE ~Settled
    <3>1. Answered(t) = NoReply
      BY <1>6, <2>3 DEF Answered, Emptying, Unsaved
    <3>2. NoneUnderway
      BY <1>6, AloneUnderway DEF Hypotheses
    <3> QED BY <1>1, <1>3, <1>4, <1>5, <2>1, <3>1, <3>2, Effect DEF MadeOf, Hypotheses
  <2> QED BY <2>2, <2>3
<1>7. CASE ~Unsaved(t)
  <2>1. call[t].op = "emp" /\ Answered(t) = Underway
    BY <1>1, <1>7 DEF Unsaved, Answered, Emptying
  <2>2. file.size = "full" /\ file.rows = EmptyRows
    BY <1>1, <2>1 DEF Inv, DiskInv, CallDone, Done
  <2>3. [k \in Keys |-> Lookup(disk, k)]' = Map!EmptyMap
    <3>1. \A k \in Keys : Get(file.rows[hash_gen[k]], k) = Absent
      <4> TAKE k \in Keys
      <4>1. file.rows[hash_gen[k]] = EmptyRow
        BY <2>2 DEF EmptyRows, Rows
      <4>2. Get(EmptyRow, k) = Absent
        BY GetMiss DEF EmptyRow, Hypotheses
      <4> QED BY <4>1, <4>2
    <3> QED BY <1>5, <2>2, <3>1 DEF Lookup, Map!EmptyMap
  <2>4. /\ [u \in Threads |-> Answered(u)]' = [[u \in Threads |-> Answered(u)]
                                                  EXCEPT ![t] = Success]
        /\ [u \in Threads |-> Answered(u)][t] = Underway
    BY <1>3, <1>4, <2>1
  <2>5. (file.size = "full") = TRUE /\ (file.size = "full")' = (file.size = "full")
    BY <1>1, <2>2
  <2>6. Map!EndEmp(t)
    BY <1>1, <2>3, <2>4, <2>5 DEF Map!EndEmp, Map!Answer, Map!Store, Map!Success, Success,
                                  Map!Underway, Underway
  <2> QED BY <2>6 DEF Map!Next
<1> QED BY <1>6, <1>7

(* fopen(file, "w"): mapfile_kv_emp begins.                                *)
LEMMA EmpClearMaps ==
  ASSUME Hypotheses, Inv, NEW t \in Threads, EmpClear(t)
  PROVE  Map!Next
<1>1. /\ pc[t] = "fopen" /\ UNCHANGED <<disk, call, ret>> /\ emptied' = TRUE
      /\ file' = [size |-> "short", rows |-> EmptyRows]
      /\ pc' = [pc EXCEPT ![t] = "truncate"] /\ t \in DOMAIN pc
      /\ call[t].op = "emp"
  BY DEF EmpClear, Become, Inv, TypeInv, TypeOK, CallKnown
<1>2. /\ pc'[t] = "truncate"
      /\ \A u \in Threads \ {t} : pc'[u] = pc[u] /\ ~Unsaved(u)
  <2>1. pc[t] \in Inside
    BY <1>1 DEF Inside
  <2> QED BY <1>1, <2>1, AloneUnsynced DEF Hypotheses
<1>3. \A u \in Threads \ {t} : Answered(u)' = Answered(u)
  BY <1>1, <1>2, SameAnswer
<1>4. Answered(t) = NoReply /\ Answered(t)' = Underway /\ NoneUnderway
  <2>1. Answered(t)' = Underway
    BY <1>1, <1>2 DEF Answered, Emptying
  <2> QED BY <1>1, <2>1, NoAnswerOutside, AloneUnderway DEF Hypotheses
<1>5. /\ [u \in Threads |-> Answered(u)]' = [[u \in Threads |-> Answered(u)]
                                                EXCEPT ![t] = Underway]
      /\ [u \in Threads |-> Answered(u)][t] = NoReply
      /\ \A u \in Threads : [w \in Threads |-> Answered(w)][u] # Underway
  BY <1>3, <1>4 DEF NoneUnderway
<1>6. (file.size = "full")' = FALSE /\ UNCHANGED [k \in Keys |-> Lookup(disk, k)]
  BY <1>1 DEF Lookup
<1>7. Map!BeginEmp(t)
  BY <1>1, <1>5, <1>6 DEF Map!BeginEmp, Map!Answer, Map!Underway, Underway
<1>8. Map!Do(t)
  BY <1>1, <1>5, <1>7 DEF Map!Do, Map!NoAnswer, NoReply, Map!Underway, Underway
<1> QED BY <1>8 DEF Map!Next

(* ftruncate or truncate: the file of an empty map is made whole.          *)
LEMMA ExtendMaps ==
  ASSUME Hypotheses, Inv, UNCHANGED <<disk, emptied, call, ret>>,
         file' = [file EXCEPT !.size = "full"],
         \A u \in Threads : (Settled' <=> Settled) => Answered(u)' = Answered(u)
  PROVE  [Map!Next]_(Map!vars)
<1>1. file'.size = "full" /\ file'.rows = file.rows
  BY DEF Inv, TypeInv, TypeOK, File
<1>2. \A k \in Keys : Lookup(file', k) = Lookup(file, k) /\ Lookup(disk', k) = Lookup(disk, k)
  BY <1>1, LookupFull DEF Lookup, Hypotheses
<1>3. Settled' <=> Settled
  BY <1>2 DEF Settled
<1>4. \A u \in Threads : Answered(u)' = Answered(u)
  BY <1>3
<1>5. CASE file.size = "full"
  BY <1>1, <1>2, <1>4, <1>5, Unseen
<1>6. CASE file.size # "full"
  <2>1. \A u \in Threads : ~Unsaved(u)
    BY <1>6 DEF Unsaved, Inv, DiskInv, CallDone
  <2>2. \A k \in Keys : Map!Seen[k] = Absent
    BY <1>6, <2>1, SeenAlone DEF Lookup, Hypotheses
  <2>3. Map!Seen = Map!EmptyMap
    <3>1. Map!Seen = [k \in Keys |-> Map!Seen[k]]
      BY SeenIs DEF Hypotheses
    <3> QED BY <2>2, <3>1 DEF Map!EmptyMap
  <2>4. /\ UNCHANGED [k \in Keys |-> Lookup(disk, k)]
        /\ UNCHANGED [u \in Threads |-> Answered(u)]
        /\ (file.size = "full")' = TRUE /\ ~(file.size = "full")
    BY <1>1, <1>2, <1>4, <1>6
  <2>5. Map!Provide
    BY <2>3, <2>4 DEF Map!Provide
  <2> QED BY <2>5 DEF Map!Next
<1> QED BY <1>5, <1>6

LEMMA EmpExtendMaps ==
  ASSUME Hypotheses, Inv, NEW t \in Threads, EmpExtend(t)
  PROVE  [Map!Next]_(Map!vars)
<1>1. /\ pc[t] = "truncate" /\ UNCHANGED <<disk, emptied, call, ret>>
      /\ file' = [file EXCEPT !.size = "full"]
      /\ pc' = [pc EXCEPT ![t] = "sync"] /\ t \in DOMAIN pc
      /\ call[t].op = "emp"
  BY DEF EmpExtend, Become, Inv, TypeInv, TypeOK, CallKnown
<1>2. /\ pc'[t] = "sync" /\ \A u \in Threads \ {t} : pc'[u] = pc[u]
  BY <1>1
<1>3. Answered(t)' = Answered(t)
  BY <1>1, <1>2 DEF Answered, Emptying
<1>4. ASSUME NEW u \in Threads, Settled' <=> Settled PROVE Answered(u)' = Answered(u)
  BY <1>1, <1>2, <1>3, <1>4, SameAnswer
<1> QED BY <1>1, <1>4, ExtendMaps

(* An I/O error of mapfile_kv_emp when it has given up the file.           *)
LEMMA EmpErrorMaps ==
  ASSUME Hypotheses, Inv, NEW t \in Threads, EmpError(t), pc[t] # "fopen"
  PROVE  Map!Next
<1>1. /\ Emptying(t) /\ UNCHANGED <<file, disk, emptied, call>>
      /\ pc' = [pc EXCEPT ![t] = "unlock"] /\ ret' = [ret EXCEPT ![t] = Error]
      /\ t \in DOMAIN pc /\ t \in DOMAIN ret
  BY DEF EmpError, Emptying, Reply, Become, Inv, TypeInv, TypeOK
<1>2. /\ pc'[t] = "unlock" /\ ret'[t] = Error
      /\ \A u \in Threads \ {t} : pc'[u] = pc[u] /\ ret'[u] = ret[u]
  BY <1>1
<1>3. \A u \in Threads \ {t} : Answered(u)' = Answered(u)
  BY <1>1, <1>2, SameAnswer DEF Settled, Lookup
<1>4. Answered(t) = Underway /\ Answered(t)' = Error
  BY <1>1, <1>2 DEF Answered, Emptying
<1>5. /\ [u \in Threads |-> Answered(u)]' = [[u \in Threads |-> Answered(u)]
                                                EXCEPT ![t] = Error]
      /\ [u \in Threads |-> Answered(u)][t] = Underway
      /\ UNCHANGED [k \in Keys |-> Lookup(disk, k)]
      /\ (file.size = "full")' = (file.size = "full")
  BY <1>1, <1>3, <1>4 DEF Lookup
<1>6. Map!EndEmp(t)
  BY <1>1, <1>5 DEF Map!EndEmp, Map!Answer, Map!Error, Error, Map!Underway, Underway
<1> QED BY <1>6 DEF Map!Next

LEMMA ReturnMaps ==
  ASSUME Hypotheses, Inv, NEW t \in Threads, Return(t)
  PROVE  Map!Next
<1> DEFINE ansA == [u \in Threads |-> Answered(u)]
<1>1. /\ pc[t] = "unlock" /\ UNCHANGED <<file, disk, emptied>>
      /\ call' = [call EXCEPT ![t] = NoCall] /\ pc' = [pc EXCEPT ![t] = "idle"]
      /\ ret' = [ret EXCEPT ![t] = NoReply]
      /\ t \in DOMAIN pc /\ t \in DOMAIN ret /\ t \in DOMAIN call
      /\ ret[t] \notin {NoReply, Underway}
  BY DEF Return, Become, Inv, TypeInv, TypeOK, DiskInv, CallDone
<1>2. /\ pc'[t] = "idle"
      /\ \A u \in Threads \ {t} : pc'[u] = pc[u] /\ ret'[u] = ret[u] /\ call'[u] = call[u]
  BY <1>1
<1>3. \A u \in Threads \ {t} : Answered(u)' = Answered(u)
  BY <1>1, <1>2, SameAnswer DEF Settled, Lookup
<1>4. Answered(t) \notin {NoReply, Underway} /\ Answered(t)' = NoReply
  BY <1>1, <1>2 DEF Answered, Emptying
<1>5. ansA' = [ansA EXCEPT ![t] = NoReply] /\ ansA[t] \notin {NoReply, Underway}
  BY <1>3, <1>4, OneAnswer
<1>6. /\ (file.size = "full")' = (file.size = "full")
      /\ UNCHANGED [k \in Keys |-> Lookup(disk, k)]
  BY <1>1 DEF Lookup
<1>7. Map!Return(t)
  BY <1>1, <1>5, <1>6 DEF Map!Return, Map!Answer, Map!NoAnswer, NoReply,
                          Map!Underway, Underway, Map!NoRequest, NoCall
<1> QED BY <1>7 DEF Map!Next

(* mapfile_kv_open makes the file.                                         *)
LEMMA CreateMaps ==
  ASSUME Hypotheses, Inv, NEW t \in Threads, Create(t)
  PROVE  [Map!Next]_(Map!vars)
<1>1. /\ pc[t] = "create" /\ UNCHANGED <<disk, emptied, call, ret>>
      /\ file' = IF file.size = "none" THEN [file EXCEPT !.size = "short"] ELSE file
      /\ pc' = [pc EXCEPT ![t] = "ftruncate"] /\ t \in DOMAIN pc
  BY DEF Create, Become, Inv, TypeInv, TypeOK
<1>2. /\ pc'[t] = "ftruncate" /\ \A u \in Threads \ {t} : pc'[u] = pc[u]
  BY <1>1
<1>3. (file'.size = "full" <=> file.size = "full") /\ file'.rows = file.rows
  BY <1>1 DEF Inv, TypeInv, TypeOK, File
<1>4. Settled' <=> Settled
  BY <1>1, <1>3 DEF Settled, Lookup
<1>5. ASSUME NEW u \in Threads PROVE Answered(u)' = Answered(u)
  <2>1. CASE u = t
    BY <1>1, <1>2, <2>1 DEF Answered, Emptying
  <2>2. CASE u # t
    BY <1>1, <1>2, <1>4, <2>2, SameAnswer
  <2> QED BY <2>1, <2>2
<1>6. \A k \in Keys : Lookup(disk', k) = Lookup(disk, k)
  BY <1>1 DEF Lookup
<1> QED BY <1>1, <1>3, <1>5, <1>6, Unseen

LEMMA CreateExtendMaps ==
  ASSUME Hypotheses, Inv, NEW t \in Threads, CreateExtend(t)
  PROVE  [Map!Next]_(Map!vars)
<1>1. /\ pc[t] = "ftruncate" /\ UNCHANGED <<disk, emptied, call, ret>>
      /\ file' = [file EXCEPT !.size = "full"]
      /\ pc' = [pc EXCEPT ![t] = "fsync"] /\ t \in DOMAIN pc
  BY DEF CreateExtend, Become, Inv, TypeInv, TypeOK
<1>2. /\ pc'[t] = "fsync" /\ \A u \in Threads \ {t} : pc'[u] = pc[u]
  BY <1>1
<1>3. Answered(t)' = Answered(t)
  BY <1>1, <1>2 DEF Answered, Emptying
<1>4. ASSUME NEW u \in Threads, Settled' <=> Settled PROVE Answered(u)' = Answered(u)
  BY <1>1, <1>2, <1>3, <1>4, SameAnswer
<1> QED BY <1>1, <1>4, ExtendMaps

(* The fsync of an open may be the one that makes another thread's call    *)
(* take effect, or an emptied map reach the disk.                          *)
LEMMA CreateSyncMaps ==
  ASSUME Hypotheses, Inv, NEW t \in Threads, CreateSync(t)
  PROVE  [Map!Next]_(Map!vars)
<1>1. /\ pc[t] = "fsync" /\ UNCHANGED <<file, call, ret>>
      /\ disk' = file /\ emptied' = FALSE
      /\ pc' = [pc EXCEPT ![t] = "idle"] /\ t \in DOMAIN pc
  BY DEF CreateSync, Become, Inv, TypeInv, TypeOK
<1>2. /\ pc'[t] = "idle" /\ \A u \in Threads \ {t} : pc'[u] = pc[u]
  BY <1>1
<1>3. Settled' /\ Answered(t)' = Answered(t)
  BY <1>1, <1>2 DEF Settled, Lookup, Answered, Emptying
<1>4. \A k \in Keys : Lookup(disk', k) = Lookup(file, k)
  BY <1>1 DEF Lookup
<1>5. ASSUME NEW u \in Threads, ~Unsaved(u) \/ Settled PROVE Answered(u)' = Answered(u)
  BY <1>1, <1>2, <1>3, <1>5, SameAnswer
<1>6. CASE Settled
  <2>1. emptied = FALSE /\ \A k \in Keys : Lookup(disk', k) = Lookup(disk, k)
    BY <1>4, <1>6 DEF Settled, Inv, TypeInv, TypeOK
  <2> QED BY <1>1, <1>5, <1>6, <2>1, Unseen
<1>7. CASE ~Settled /\ \E u \in Threads : Unsaved(u)
  <2>1. PICK u \in Threads : Unsaved(u)
    BY <1>7
  <2>2. pc[u] \in Inside /\ u # t /\ pc'[u] = pc[u]
    BY <1>1, <1>2, <2>1 DEF Unsaved, Inside
  <2>3. \A x \in Threads \ {u} : Answered(x)' = Answered(x)
    BY <1>5, <2>2, AloneUnsynced DEF Hypotheses
  <2>4. Answered(u) = NoReply /\ Answered(u)' = Success
    BY <1>1, <1>3, <1>7, <2>1, <2>2 DEF Answered, Emptying, Unsaved
  <2>5. MadeOf(u) /\ NoneUnderway
    BY <2>1, PendingNow, AloneUnderway DEF Pending, Hypotheses
  <2> QED BY <1>1, <1>4, <2>3, <2>4, <2>5, Effect DEF MadeOf, Hypotheses
<1>8. CASE ~Settled /\ \A u \in Threads : ~Unsaved(u)
  <2>1. emptied = TRUE
    BY <1>8, SettledAlone DEF Hypotheses, Inv, TypeInv, TypeOK
  <2>2. \A k \in Keys : Lookup(file, k) = Absent
    BY <1>8, <2>1, SeenAlone DEF Map!Seen, Map!EmptyMap, Hypotheses
  <2>3. /\ [k \in Keys |-> Lookup(disk, k)]' = Map!EmptyMap
        /\ UNCHANGED [u \in Threads |-> Answered(u)]
        /\ (file.size = "full")' = (file.size = "full")
    BY <1>1, <1>4, <1>5, <1>8, <2>2 DEF Map!EmptyMap
  <2>4. Map!Reach
    BY <1>1, <2>1, <2>3 DEF Map!Reach
  <2> QED BY <2>4 DEF Map!Next
<1> QED BY <1>6, <1>7, <1>8

(* A power failure leaves of each key what calls saw or what the file held *)
(* or, if the file has been emptied, all that was there before.            *)
LEMMA CrashMaps ==
  ASSUME Hypotheses, Inv, PowerFailure
  PROVE  Map!Next
<1> DEFINE kvA == [k \in Keys |-> Lookup(disk, k)]
           whole == (file.size = "full")
<1>1. /\ disk' = file' /\ emptied' = FALSE
      /\ pc' = [t \in Threads |-> "idle"] /\ call' = [t \in Threads |-> NoCall]
  BY DEF PowerFailure
<1>2. [t \in Threads |-> Answered(t)]' = [t \in Threads |-> Map!NoAnswer]
  <2>1. \A t \in Threads : Answered(t)' = NoReply
    BY <1>1 DEF Answered, Emptying
  <2> QED BY <2>1 DEF Map!NoAnswer, NoReply
<1>3. call' = [t \in Threads |-> Map!NoRequest]
  BY <1>1 DEF NoCall, Map!NoRequest
<1>4. disk.size = "full" /\ ~emptied => file.size = "full"
  BY DEF Inv, DiskInv, ShorterByEmp
<1>5. ASSUME ~emptied PROVE \A k \in Keys : Map!Seen[k] = Lookup(disk, k)
  BY <1>5 DEF Map!Seen
<1>6. ASSUME emptied PROVE \A k \in Keys : Map!Seen[k] = Absent
  BY <1>6 DEF Map!Seen, Map!EmptyMap
<1>7. CASE emptied /\ file' = disk
  <2>1. UNCHANGED kvA /\ whole' \in BOOLEAN
    BY <1>1, <1>7 DEF Lookup
  <2>2. Map!Crash
    BY <1>1, <1>2, <1>3, <1>7, <2>1 DEF Map!Crash
  <2> QED BY <2>2 DEF Map!Next
<1>8. CASE ~(emptied /\ file' = disk)
  <2>1. \/ file' = disk /\ ~emptied
        \/ /\ file'.size \in {file.size, IF emptied THEN "short" ELSE disk.size}
           /\ file'.size = "full" =>
                \A r \in Rows : file'.rows[r] \in {file.rows[r], Stored[r]}
    BY <1>8, CrashRows
  <2>2. ASSUME NEW k \in Keys
        PROVE  Lookup(disk', k) \in {Map!Seen[k], Lookup(file, k)}
    <3>1. hash_gen[k] \in Rows
      BY DEF Rows
    <3>2. CASE file' = disk /\ ~emptied
      BY <1>1, <1>5, <3>2
    <3>3. CASE ~(file' = disk /\ ~emptied) /\ file'.size = "full"
      <4>1. Lookup(disk', k) = Get(file'.rows[hash_gen[k]], k)
        BY <1>1, <3>3 DEF Lookup
      <4>2. file'.rows[hash_gen[k]] \in {file.rows[hash_gen[k]], Stored[hash_gen[k]]}
        BY <2>1, <3>1, <3>3
      <4>3. Lookup(disk', k) \in {Get(file.rows[hash_gen[k]], k), Get(Stored[hash_gen[k]], k)}
        BY <4>1, <4>2
      <4> QED BY <4>3, LookupFull, SeenIs DEF Hypotheses
    <3>4. CASE ~(file' = disk /\ ~emptied) /\ file'.size # "full"
      <4>1. Lookup(disk', k) = Absent
        BY <1>1, <3>4 DEF Lookup
      <4>2. CASE emptied
        BY <1>6, <4>1, <4>2
      <4>3. CASE ~emptied
        <5>1. disk.size # "full"
          BY <1>4, <2>1, <3>4, <4>3
        <5>2. Map!Seen[k] = Absent
          BY <1>5, <4>3, <5>1 DEF Lookup
        <5> QED BY <4>1, <5>2
      <4> QED BY <4>2, <4>3
    <3> QED BY <3>2, <3>3, <3>4
  <2>3. ASSUME NEW k \in Keys, Lookup(file, k) # Map!Seen[k]
        PROVE  Lookup(file, k) \in Map!Effects(k)
    <3>1. PICK t \in Threads : Unsaved(t)
      BY <2>3, SeenAlone DEF Hypotheses
    <3>2. ~Settled
      BY <1>5, <2>3 DEF Settled
    <3>3. [u \in Threads |-> Answered(u)][t] = Map!NoAnswer
      BY <3>1, <3>2 DEF Answered, Emptying, Unsaved, Map!NoAnswer, NoReply
    <3>4. MadeOf(t)
      BY <3>1, PendingNow DEF Pending
    <3>5. CASE call[t].op = "set" /\ call[t].key = k /\ Lookup(file, k) = call[t].val
      BY <3>3, <3>5 DEF Map!Effects
    <3>6. CASE call[t].op = "del" /\ call[t].key = k /\ Lookup(file, k) = Absent
      BY <3>3, <3>6 DEF Map!Effects
    <3> QED BY <2>3, <3>4, <3>5, <3>6 DEF MadeOf
  <2>4. \A k \in Keys : kvA'[k] \in {Map!Seen[k]} \cup Map!Effects(k)
    BY <2>2, <2>3
  <2>5. whole' = whole \/ (whole' = FALSE /\ kvA' = Map!EmptyMap)
    <3>1. CASE file'.size = "full"
      <4>1. file.size = "full"
        BY <1>4, <2>1, <3>1
      <4> QED BY <3>1, <4>1
    <3>2. CASE file'.size # "full"
      BY <1>1, <3>2 DEF Lookup, Map!EmptyMap
    <3> QED BY <3>1, <3>2
  <2>6. DOMAIN kvA' = Keys
    OBVIOUS
  <2>7. Map!Crash
    BY <1>1, <1>2, <1>3, <2>4, <2>5, <2>6 DEF Map!Crash
  <2> QED BY <2>7 DEF Map!Next
<1> QED BY <1>7, <1>8

-----------------------------------------------------------------------------
LEMMA InitMaps == Init => Map!Init
<1> SUFFICES ASSUME Init PROVE Map!Init
  OBVIOUS
<1>1. \A k \in Keys : Lookup(disk, k) = Absent
  BY DEF Init, Lookup
<1>2. (file.size = "full") = FALSE
  BY DEF Init
<1>3. \A t \in Threads : Answered(t) = NoReply
  BY DEF Init, Answered, Emptying
<1> QED BY <1>1, <1>2, <1>3 DEF Init, Map!Init, Map!EmptyMap, Map!NoRequest, Map!NoAnswer,
                                NoCall, NoReply

LEMMA NextMaps == Hypotheses /\ Inv /\ Inv' /\ [Next]_vars => [Map!Next]_(Map!vars)
<1> SUFFICES ASSUME Hypotheses, Inv, Inv', [Next]_vars PROVE [Map!Next]_(Map!vars)
  OBVIOUS
<1>1. ASSUME NEW t \in Threads, Opening(t) PROVE [Map!Next]_(Map!vars)
  BY <1>1, QuietSteps, CreateMaps, CreateExtendMaps, CreateSyncMaps DEF Opening
<1>2. ASSUME NEW t \in Threads, Lock(t) PROVE [Map!Next]_(Map!vars)
  BY <1>2, QuietSteps
<1>3. ASSUME NEW t \in Threads, Locked(t) PROVE [Map!Next]_(Map!vars)
  <2>1. CASE ReadError(t) \/ WriteError(t)
    BY <2>1, ErrorMaps
  <2>2. CASE EmpError(t)
    BY <2>2, ErrorMaps, EmpErrorMaps
  <2>3. CASE ReadFails(t)
    BY <2>3, FailMaps DEF ReadFails
  <2>4. CASE ReadForSet(t) \/ ReadForDel(t)
    BY <2>4, QuietSteps
  <2>5. CASE ReadForGet(t)
    BY <2>5, GetMaps
  <2>6. CASE ReadRowFull(t)
    BY <2>6, FullMaps
  <2>7. CASE EmpClear(t) \/ EmpExtend(t)
    BY <2>7, EmpClearMaps, EmpExtendMaps
  <2> QED BY <1>3, <2>1, <2>2, <2>3, <2>4, <2>5, <2>6, <2>7, WriteMaps, SyncMaps,
             ReturnMaps DEF Locked
<1>4. ASSUME NEW t \in Threads, NEW c \in CallsOf[t], Call(t, c) PROVE [Map!Next]_(Map!vars)
  BY <1>4, CallMaps
<1>5. CASE PowerFailure
  BY <1>5, CrashMaps
<1>6. CASE UNCHANGED vars
  <2>1. UNCHANGED <<file, disk, emptied, pc, call, ret>>
    BY <1>6 DEF vars
  <2>2. \A t \in Threads : Answered(t)' = Answered(t)
    BY <2>1, SameAnswer DEF Settled, Lookup
  <2>3. \A k \in Keys : Lookup(disk', k) = Lookup(disk, k)
    BY <2>1 DEF Lookup
  <2> QED BY <2>1, <2>2, <2>3, Unseen
<1> QED BY <1>1, <1>2, <1>3, <1>4, <1>5, <1>6 DEF Next

(* The file implements the map, under the hypotheses of FileInvariant: the *)
(* threads that make calls share a handle, no key is a prefix of another   *)
(* and deleted keys have their rows to themselves.                         *)
THEOREM FileImplementsMap == Hypotheses => (Spec => ImplementsMap)
<1> SUFFICES ASSUME Hypotheses PROVE Spec => ImplementsMap
  OBVIOUS
<1>1. Spec => []Inv
  BY FileInvariant
<1>2. Init => Map!Init
  BY InitMaps
<1>3. Inv /\ Inv' /\ [Next]_vars => [Map!Next]_(Map!vars)
  BY NextMaps
<1> QED BY <1>1, <1>2, <1>3, PTL DEF Spec, ImplementsMap, Map!Spec
=============================================================================
