---------------------------- MODULE MapfileProofs ----------------------------
(***************************************************************************)
(* For any number of threads, keys, rows and power failures: the threads   *)
(* that share a handle of mapfile.c lose no update, and what has been      *)
(* acknowledged survives.                                                  *)
(***************************************************************************)
EXTENDS Mapfile, TLAPS

(* The threads that make calls share one handle, as the mutex needs; the   *)
(* others may open the file.                                               *)
OneHandle ==
  \A t, u \in Threads : CallsOf[t] # {} /\ CallsOf[u] # {}
                          => HandleOf[t] = HandleOf[u]

(* From the mutex to the unlock.                                           *)
Inside == {"read", "write", "sync", "fopen", "truncate", "unlock"}

(* What a thread in a call knows of it.                                    *)
CallKnown(t) ==
  /\ pc[t] \in Inside => lock[HandleOf[t]] = t
  /\ IF pc[t] \in Inside \cup {"lock"} THEN call[t] \in CallsOf[t]
                                       ELSE call[t] = NoCall
  /\ pc[t] = "read" => call[t].op # "emp"
  /\ pc[t] = "write" => call[t].op \in {"set", "del"}
  /\ pc[t] \in {"fopen", "truncate"} => call[t].op = "emp"
  /\ pc[t] = "sync" => call[t].op # "get"

TypeInv == TypeOK /\ \A t \in Threads : CallKnown(t)

-----------------------------------------------------------------------------
(* The loops over a row.                                                   *)

LEMMA StopsOnce ==
  ASSUME NEW row \in Row, NEW k \in Keys, NEW i \in Stop(row, k), NEW j \in Stop(row, k)
  PROVE  i = j
BY ConstantsAssumption DEF Stop, Slots

LEMMA PutType ==
  ASSUME NEW row \in Row, NEW k \in Keys, NEW v \in Values
  PROVE  Put(row, k, v) \in Row
<1>1. ASSUME NEW j \in Slots
      PROVE  (IF j \notin Stop(row, k) THEN row[j]
              ELSE IF row[j] = Hole THEN [key |-> k, val |-> v]
              ELSE [row[j] EXCEPT !.val = v]) \in Item \cup {Hole}
  BY <1>1 DEF Row, Item
<1> QED BY <1>1 DEF Put, Row

LEMMA RmType ==
  ASSUME NEW row \in Row, NEW k \in Keys
  PROVE  Rm(row, k) \in Row
BY DEF Rm, Row

LEMMA GetType ==
  ASSUME NEW row \in Row, NEW k \in Keys
  PROVE  Get(row, k) \in Values \cup {Absent}
<1> DEFINE hits == {j \in Stop(row, k) : row[j] # Hole}
<1>1. hits \subseteq Slots
  BY DEF Stop
<1>2. CASE hits = {}
  BY <1>2 DEF Get
<1>3. CASE hits # {}
  <2>1. (CHOOSE j \in hits : TRUE) \in hits
    BY <1>3
  <2> DEFINE j == CHOOSE j \in hits : TRUE
  <2> HIDE DEF j
  <2>2. j \in Slots /\ row[j] # Hole
    BY <1>1, <2>1 DEF j
  <2>3. row[j] \in Item
    BY <2>2 DEF Row
  <2>4. Get(row, k) = row[j].val
    BY <1>3 DEF Get, j
  <2> QED BY <2>3, <2>4 DEF Item
<1> QED BY <1>2, <1>3

LEMMA RequestFields ==
  ASSUME NEW c \in Requests
  PROVE  /\ c.op \in {"set", "get", "del", "emp"}
         /\ c.op # "emp" => c.key \in Keys
         /\ c.op = "set" => c.val \in Values
         /\ c # NoCall
BY DEF Requests, NoCall

LEMMA AffectedIs ==
  ASSUME NEW c \in Requests \cup {NoCall}
  PROVE  Affected(c) = IF c.op \in {"set", "del"} THEN {c.key}
                       ELSE IF c.op = "emp" THEN Keys ELSE {}
BY DEF Affected

(* A thread in a call has its arguments and the row of its key.            *)
LEMMA InCall ==
  ASSUME TypeInv, NEW t \in Threads, pc[t] \in Inside \cup {"lock"}
  PROVE  /\ call[t] \in Requests
         /\ CallsOf[t] # {}
         /\ call[t].op # "emp" => call[t].key \in Keys /\ RowOf(t) \in Rows
         /\ call[t].op = "set" => call[t].val \in Values
<1>1. call[t] \in CallsOf[t] /\ CallsOf[t] \in SUBSET Requests
  BY ConstantsAssumption DEF TypeInv, CallKnown
<1>2. call[t] \in Requests
  BY <1>1
<1>3. call[t].op # "emp" => call[t].key \in Keys
  BY <1>2, RequestFields
<1>4. call[t].op = "set" => call[t].val \in Values
  BY <1>2, RequestFields
<1> QED BY <1>1, <1>2, <1>3, <1>4 DEF RowOf, Rows

(* The mutex of the one handle lets one thread in.                         *)
LEMMA Exclusion ==
  ASSUME TypeInv, OneHandle, NEW t \in Threads, NEW u \in Threads,
         pc[t] \in Inside, pc[u] \in Inside
  PROVE  t = u
<1>1. CallsOf[t] # {} /\ CallsOf[u] # {}
  BY InCall
<1>2. HandleOf[t] = HandleOf[u]
  BY <1>1 DEF OneHandle
<1> QED BY <1>2 DEF TypeInv, CallKnown

-----------------------------------------------------------------------------
(* Type correctness.                                                       *)

LEMMA InitTypes == Init => TypeInv
<1> SUFFICES ASSUME Init PROVE TypeInv
  OBVIOUS
<1>1. EmptyRow \in Row /\ EmptyRows \in [Rows -> Row]
  BY DEF EmptyRow, EmptyRows, Row
<1>2. TypeOK
  <2>1. file \in File /\ disk \in File
    BY <1>1 DEF Init, File
  <2>2. ret \in [Threads -> {NoReply, Success, Failure, Error}
                           \cup [ok : {TRUE}, val : Values]]
    BY DEF Init
  <2>3. emptied \in BOOLEAN
    BY DEF Init
  <2>4. crashes \in 0 .. MaxCrashes
    BY ConstantsAssumption DEF Init
  <2> QED BY <1>1, <2>1, <2>2, <2>3, <2>4 DEF Init, TypeOK
<1>3. \A t \in Threads : CallKnown(t)
  BY DEF Init, CallKnown, Inside
<1> QED BY <1>2, <1>3 DEF TypeInv

(* A thread that did nothing knows what it knew.                           *)
LEMMA OthersKnow ==
  ASSUME TypeInv, NEW t \in Threads, NEW u \in Threads, u # t,
         pc'[u] = pc[u], call'[u] = call[u],
         lock' = lock \/ lock[HandleOf[t]] \in {t, NoThread},
         \E x : lock' \in {lock, [lock EXCEPT ![HandleOf[t]] = x]}
  PROVE  CallKnown(u)'
<1>1. CallKnown(u) /\ NoThread # u
  BY ConstantsAssumption DEF TypeInv
<1>2. CASE pc[u] \notin Inside
  BY <1>1, <1>2 DEF CallKnown
<1>3. CASE pc[u] \in Inside
  <2>1. lock[HandleOf[u]] = u
    BY <1>1, <1>3 DEF CallKnown
  <2>2. lock' = lock \/ HandleOf[u] # HandleOf[t]
    BY <1>1, <2>1
  <2>3. lock \in [Handles -> Threads \cup {NoThread}]
    BY DEF TypeInv, TypeOK
  <2>4. HandleOf[u] \in Handles /\ HandleOf[t] \in Handles
    BY ConstantsAssumption
  <2>5. lock'[HandleOf[u]] = u
    BY <2>1, <2>2, <2>3, <2>4
  <2> QED BY <1>1, <2>5 DEF CallKnown
<1> QED BY <1>2, <1>3

-----------------------------------------------------------------------------
LEMMA OpeningTypes ==
  ASSUME TypeInv, NEW t \in Threads, Opening(t)
  PROVE  TypeInv'
<1>1. /\ UNCHANGED <<lock, call, kv, ret, crashes, acked>>
      /\ emptied' \in {emptied, FALSE}
      /\ opened' \in {opened, opened \cup {HandleOf[t]}}
      /\ disk' \in {disk, file}
      /\ file' \in {file, [file EXCEPT !.size = "short"], [file EXCEPT !.size = "full"]}
      /\ \E l \in {"idle", "create", "ftruncate", "fsync"} :
           pc' = pc \/ pc' = [pc EXCEPT ![t] = l]
      /\ pc[t] \in {"idle", "create", "ftruncate", "fsync"}
  BY DEF Opening, Open, Create, CreateExtend, CreateSync, OpenFails, Become
<1>2. /\ file' \in File /\ disk' \in File
      /\ opened' \subseteq Handles
      /\ pc' \in [Threads -> {"idle", "create", "ftruncate", "fsync", "lock", "read",
                         "write", "sync", "fopen", "truncate", "unlock"}]
  <2>1. HandleOf[t] \in Handles
    BY ConstantsAssumption
  <2>2. file \in File /\ disk \in File /\ opened \subseteq Handles
    BY DEF TypeInv, TypeOK
  <2>3. file' \in File /\ disk' \in File
    BY <1>1, <2>2 DEF File
  <2> QED BY <1>1, <2>1, <2>2, <2>3 DEF TypeInv, TypeOK
<1>3. TypeOK'
  BY <1>1, <1>2 DEF TypeInv, TypeOK
<1>4. \A u \in Threads : CallKnown(u)'
  <2> TAKE u \in Threads
  <2>1. CallKnown(u)
    BY DEF TypeInv
  <2>2. CASE u = t
    BY <1>1, <2>1, <2>2 DEF TypeInv, TypeOK, CallKnown, Inside
  <2>3. CASE u # t
    BY <1>1, <2>1, <2>3 DEF TypeInv, TypeOK, CallKnown, Inside
  <2> QED BY <2>2, <2>3
<1> QED BY <1>3, <1>4 DEF TypeInv

LEMMA CallTypes ==
  ASSUME TypeInv, NEW t \in Threads, NEW c \in CallsOf[t], Call(t, c)
  PROVE  TypeInv'
<1>1. /\ pc[t] = "idle" /\ call' = [call EXCEPT ![t] = c]
      /\ pc' = [pc EXCEPT ![t] = "lock"]
      /\ UNCHANGED <<file, disk, emptied, opened, lock, kv, ret, crashes>>
  BY DEF Call, Become
<1>2. acked' \in [Keys -> Values \cup {Absent, Unsure}]
  BY DEF Call, TypeInv, TypeOK
<1>3. TypeOK'
  <2>1. c \in Requests
    BY ConstantsAssumption
  <2> QED BY <1>1, <1>2, <2>1 DEF TypeInv, TypeOK
<1>4. CallKnown(t)'
  BY <1>1 DEF TypeInv, TypeOK, CallKnown, Inside
<1>5. \A u \in Threads \ {t} : CallKnown(u)'
  <2> TAKE u \in Threads \ {t}
  <2>1. pc'[u] = pc[u] /\ call'[u] = call[u] /\ lock' = lock
    BY <1>1 DEF TypeInv, TypeOK
  <2> QED BY <2>1, OthersKnow
<1> QED BY <1>3, <1>4, <1>5 DEF TypeInv

LEMMA LockTypes ==
  ASSUME TypeInv, NEW t \in Threads, Lock(t)
  PROVE  TypeInv'
<1>1. /\ pc[t] = "lock" /\ lock[HandleOf[t]] = NoThread
      /\ lock' = [lock EXCEPT ![HandleOf[t]] = t]
      /\ pc' = [pc EXCEPT ![t] = IF call[t].op = "emp" THEN "fopen" ELSE "read"]
      /\ UNCHANGED <<file, disk, emptied, opened, call, kv, ret, crashes, acked>>
  BY DEF Lock, Become
<1>2. HandleOf[t] \in Handles
  BY ConstantsAssumption
<1>3. TypeOK'
  BY <1>1, <1>2 DEF TypeInv, TypeOK
<1>4. CallKnown(t)'
  BY <1>1, <1>2 DEF TypeInv, TypeOK, CallKnown, Inside
<1>5. \A u \in Threads \ {t} : CallKnown(u)'
  <2> TAKE u \in Threads \ {t}
  <2>1. pc'[u] = pc[u] /\ call'[u] = call[u]
    BY <1>1 DEF TypeInv, TypeOK
  <2> QED BY <1>1, <2>1, OthersKnow
<1> QED BY <1>3, <1>4, <1>5 DEF TypeInv

(* The reads, which change locals only.                                    *)
LEMMA ReadTypes ==
  ASSUME TypeInv, NEW t \in Threads,
         \/ ReadError(t) \/ ReadFails(t) \/ ReadForGet(t) \/ ReadRowFull(t)
         \/ ReadForSet(t) \/ ReadForDel(t)
  PROVE  TypeInv'
<1>1. /\ pc[t] = "read"
      /\ UNCHANGED <<file, disk, emptied, opened, lock, call, crashes, acked>>
  BY DEF ReadError, ReadFails, ReadForGet, ReadRowFull, ReadForSet, ReadForDel
<1>2. /\ call[t] \in Requests
      /\ call[t].op \in {"set", "get", "del"}
      /\ call[t].key \in Keys /\ RowOf(t) \in Rows
      /\ call[t].op = "set" => call[t].val \in Values
  <2>1. pc[t] \in Inside /\ call[t].op # "emp"
    BY <1>1 DEF TypeInv, CallKnown, Inside
  <2> QED BY <2>1, InCall, RequestFields
<1>3. file.rows[RowOf(t)] \in Row
  BY <1>2 DEF TypeInv, TypeOK, File
<1>4. \/ /\ pc' = [pc EXCEPT ![t] = "unlock"]
         /\ UNCHANGED kv
         /\ \E r \in {Success, Failure, Error} \cup [ok : {TRUE}, val : Values] :
              ret' = [ret EXCEPT ![t] = r]
      \/ /\ pc' = [pc EXCEPT ![t] = "write"] /\ call[t].op \in {"set", "del"}
         /\ UNCHANGED ret
         /\ \E r \in Row : kv' = [kv EXCEPT ![t] = r]
  <2>1. CASE ReadError(t) \/ ReadFails(t)
    BY <2>1 DEF ReadError, ReadFails, Reply, Become
  <2>2. CASE ReadForGet(t)
    <3> DEFINE v == Get(file.rows[RowOf(t)], call[t].key)
    <3>1. v \in Values \cup {Absent}
      BY <1>2, <1>3, GetType
    <3>2. (IF v = Absent THEN Failure ELSE [ok |-> TRUE, val |-> v])
            \in {Failure} \cup [ok : {TRUE}, val : Values]
      BY <3>1
    <3> HIDE DEF v
    <3>3. /\ ret' = [ret EXCEPT ![t] = IF v = Absent THEN Failure
                                       ELSE [ok |-> TRUE, val |-> v]]
          /\ pc' = [pc EXCEPT ![t] = "unlock"]
          /\ UNCHANGED kv
      BY <2>2 DEF ReadForGet, Reply, Become, v
    <3> QED BY <3>2, <3>3
  <2>3. CASE ReadRowFull(t)
    BY <2>3 DEF ReadRowFull, Reply, Become
  <2>4. CASE ReadForSet(t)
    <3>1. Put(file.rows[RowOf(t)], call[t].key, call[t].val) \in Row
      BY <1>2, <1>3, <2>4, PutType DEF ReadForSet
    <3> QED BY <2>4, <3>1 DEF ReadForSet, Become
  <2>5. CASE ReadForDel(t)
    <3>1. Rm(file.rows[RowOf(t)], call[t].key) \in Row
      BY <1>2, <1>3, RmType
    <3> QED BY <2>5, <3>1 DEF ReadForDel, Become
  <2> QED BY <2>1, <2>2, <2>3, <2>4, <2>5
<1>5. TypeOK'
  <2>1. ret' \in [Threads -> {NoReply, Success, Failure, Error}
                            \cup [ok : {TRUE}, val : Values]]
    BY <1>4 DEF TypeInv, TypeOK
  <2>2. kv' \in [Threads -> Row]
    BY <1>4 DEF TypeInv, TypeOK
  <2>3. pc' \in [Threads -> {"idle", "create", "ftruncate", "fsync", "lock", "read",
                         "write", "sync", "fopen", "truncate", "unlock"}]
    BY <1>4 DEF TypeInv, TypeOK
  <2> QED BY <1>1, <2>1, <2>2, <2>3 DEF TypeInv, TypeOK
<1>6. CallKnown(t)'
  <2>1. CallKnown(t) /\ t \in DOMAIN pc
    BY DEF TypeInv, TypeOK
  <2>2. CASE pc' = [pc EXCEPT ![t] = "unlock"]
    <3>1. pc'[t] = "unlock"
      BY <2>1, <2>2
    <3> QED BY <1>1, <2>1, <3>1 DEF CallKnown, Inside
  <2>3. CASE pc' = [pc EXCEPT ![t] = "write"] /\ call[t].op \in {"set", "del"}
    <3>1. pc'[t] = "write"
      BY <2>1, <2>3
    <3> QED BY <1>1, <2>1, <2>3, <3>1 DEF CallKnown, Inside
  <2> QED BY <1>4, <2>2, <2>3
<1>7. \A u \in Threads \ {t} : CallKnown(u)'
  <2> TAKE u \in Threads \ {t}
  <2>1. pc'[u] = pc[u] /\ call'[u] = call[u]
    BY <1>1, <1>4 DEF TypeInv, TypeOK
  <2> QED BY <1>1, <2>1, OthersKnow
<1> QED BY <1>5, <1>6, <1>7 DEF TypeInv

(* The accesses that change the file or the disk.                          *)
LEMMA WriteTypes ==
  ASSUME TypeInv, NEW t \in Threads,
         \/ WriteError(t) \/ Write(t) \/ Sync(t)
         \/ EmpClear(t) \/ EmpExtend(t) \/ EmpError(t)
  PROVE  TypeInv'
<1>1. /\ pc[t] \in {"write", "sync", "fopen", "truncate"}
      /\ emptied' \in {emptied, TRUE, FALSE}
      /\ UNCHANGED <<opened, lock, call, kv, crashes, acked>>
  BY DEF WriteError, Write, Sync, EmpClear, EmpExtend, EmpError
<1>2. file' \in File /\ disk' \in File
  <2>1. file \in File /\ disk \in File /\ kv[t] \in Row
    BY DEF TypeInv, TypeOK
  <2>2. [file EXCEPT !.rows[RowOf(t)] = kv[t]] \in File
    BY <2>1 DEF File
  <2>3. [size |-> "short", rows |-> EmptyRows] \in File
    BY DEF File, EmptyRows, EmptyRow, Row
  <2>4. [file EXCEPT !.size = "full"] \in File
    BY <2>1 DEF File
  <2> QED BY <2>1, <2>2, <2>3, <2>4
          DEF WriteError, Write, Sync, EmpClear, EmpExtend, EmpError
<1>3. /\ \/ UNCHANGED ret
         \/ \E r \in {Success, Failure, Error} : ret' = [ret EXCEPT ![t] = r]
      /\ \/ pc[t] = "write" /\ pc' = [pc EXCEPT ![t] = "sync"]
         \/ pc[t] = "fopen" /\ pc' = [pc EXCEPT ![t] = "truncate"]
         \/ pc[t] = "truncate" /\ pc' = [pc EXCEPT ![t] = "sync"]
         \/ pc' = [pc EXCEPT ![t] = "unlock"]
  BY DEF WriteError, Write, Sync, EmpClear, EmpExtend, EmpError, Reply, Become
<1>4. TypeOK'
  <2>1. /\ ret' \in [Threads -> {NoReply, Success, Failure, Error}
                         \cup [ok : {TRUE}, val : Values]]
        /\ pc' \in [Threads -> {"idle", "create", "ftruncate", "fsync", "lock", "read",
                         "write", "sync", "fopen", "truncate", "unlock"}]
    BY <1>3 DEF TypeInv, TypeOK
  <2> QED BY <1>1, <1>2, <2>1 DEF TypeInv, TypeOK
<1>5. CallKnown(t)'
  BY <1>1, <1>3 DEF TypeInv, TypeOK, CallKnown, Inside
<1>6. \A u \in Threads \ {t} : CallKnown(u)'
  <2> TAKE u \in Threads \ {t}
  <2>1. pc'[u] = pc[u] /\ call'[u] = call[u]
    BY <1>1, <1>3 DEF TypeInv, TypeOK
  <2> QED BY <1>1, <2>1, OthersKnow
<1> QED BY <1>4, <1>5, <1>6 DEF TypeInv

LEMMA ReturnTypes ==
  ASSUME TypeInv, NEW t \in Threads, Return(t)
  PROVE  TypeInv'
<1>1. /\ pc[t] = "unlock" /\ lock' = [lock EXCEPT ![HandleOf[t]] = NoThread]
      /\ call' = [call EXCEPT ![t] = NoCall]
      /\ ret' = [ret EXCEPT ![t] = NoReply]
      /\ kv' = [kv EXCEPT ![t] = EmptyRow]
      /\ pc' = [pc EXCEPT ![t] = "idle"]
      /\ UNCHANGED <<file, disk, emptied, opened, crashes>>
  BY DEF Return, Become
<1>2. HandleOf[t] \in Handles /\ EmptyRow \in Row /\ lock[HandleOf[t]] = t
  BY <1>1, ConstantsAssumption DEF EmptyRow, Row, TypeInv, CallKnown, Inside
<1>3. acked' \in [Keys -> Values \cup {Absent, Unsure}]
  <2>1. call[t].op = "set" => call[t].val \in Values
    BY <1>1, InCall DEF Inside
  <2>2. acked \in [Keys -> Values \cup {Absent, Unsure}]
    BY DEF TypeInv, TypeOK
  <2> DEFINE settled == {k \in Affected(call[t]) : \A u \in Threads \ {t} :
                                        k \notin Affected(call[u])}
  <2> HIDE DEF settled
  <2>3. acked' = [k \in Keys |->
                   IF k \notin settled \/ ~ret[t].ok THEN acked[k]
                   ELSE IF call[t].op = "set" THEN call[t].val ELSE Absent]
    BY DEF Return, settled
  <2> QED BY <2>1, <2>2, <2>3
<1>4. TypeOK'
  BY <1>1, <1>2, <1>3 DEF TypeInv, TypeOK
<1>5. CallKnown(t)'
  BY <1>1 DEF TypeInv, TypeOK, CallKnown, Inside
<1>6. \A u \in Threads \ {t} : CallKnown(u)'
  <2> TAKE u \in Threads \ {t}
  <2>1. pc'[u] = pc[u] /\ call'[u] = call[u]
    BY <1>1 DEF TypeInv, TypeOK
  <2> QED BY <1>1, <1>2, <2>1, OthersKnow
<1> QED BY <1>4, <1>5, <1>6 DEF TypeInv

LEMMA StoredType ==
  ASSUME TypeInv, NEW r \in Rows PROVE Stored[r] \in Row
BY DEF TypeInv, TypeOK, Stored, EmptyRows, EmptyRow, Row, File

LEMMA CrashTypes ==
  ASSUME TypeInv, PowerFailure
  PROVE  TypeInv'
<1>1. file \in File /\ disk \in File
  BY DEF TypeInv, TypeOK
<1>2. ASSUME NEW size \in {file.size, IF emptied THEN "short" ELSE disk.size},
             NEW cached \in SUBSET Unsynced,
             file' = [size |-> size,
                      rows |-> [r \in Rows |-> [j \in Slots |->
                         IF size # "full" THEN Hole
                         ELSE IF <<r, j>> \in cached THEN file.rows[r][j]
                         ELSE Stored[r][j]]]]
      PROVE  file' \in File
  <2>1. ASSUME NEW r \in Rows
        PROVE  [j \in Slots |-> IF size # "full" THEN Hole
                    ELSE IF <<r, j>> \in cached THEN file.rows[r][j]
                    ELSE Stored[r][j]] \in Row
    <3>1. file.rows[r] \in Row /\ Stored[r] \in Row
      BY <1>1, StoredType DEF File
    <3> QED BY <3>1 DEF Row
  <2>2. size \in {"none", "short", "full"}
    BY <1>1 DEF File
  <2> QED BY <1>2, <2>1, <2>2 DEF File
<1>3. file' \in File
  BY <1>1, <1>2 DEF PowerFailure
<1>4. /\ disk' = file' /\ emptied' = FALSE /\ opened' = {} /\ UNCHANGED acked
      /\ lock' = [h \in Handles |-> NoThread]
      /\ pc' = [t \in Threads |-> "idle"]
      /\ call' = [t \in Threads |-> NoCall]
      /\ ret' = [t \in Threads |-> NoReply]
      /\ kv' = [t \in Threads |-> EmptyRow]
      /\ crashes' \in 0 .. MaxCrashes
  BY ConstantsAssumption DEF PowerFailure, TypeInv, TypeOK
<1>5. EmptyRow \in Row
  BY DEF EmptyRow, Row
<1>6. TypeOK'
  BY <1>3, <1>4, <1>5 DEF TypeInv, TypeOK
<1>7. \A t \in Threads : CallKnown(t)'
  BY <1>4 DEF CallKnown, Inside
<1> QED BY <1>6, <1>7 DEF TypeInv

LEMMA StutterTypes ==
  ASSUME TypeInv, UNCHANGED vars
  PROVE  TypeInv'
<1>1. UNCHANGED <<file, disk, emptied, opened, lock, pc, call, kv, ret, crashes,
                    acked>>
  BY DEF vars
<1> QED BY <1>1 DEF TypeInv, TypeOK, CallKnown

LEMMA NextTypes == TypeInv /\ [Next]_vars => TypeInv'
<1> SUFFICES ASSUME TypeInv, [Next]_vars PROVE TypeInv'
  OBVIOUS
<1>1. ASSUME NEW t \in Threads, Opening(t) PROVE TypeInv'
  BY <1>1, OpeningTypes
<1>2. ASSUME NEW t \in Threads, Lock(t) PROVE TypeInv'
  BY <1>2, LockTypes
<1>3. ASSUME NEW t \in Threads, Locked(t) PROVE TypeInv'
  BY <1>3, ReadTypes, WriteTypes, ReturnTypes DEF Locked
<1>4. ASSUME NEW t \in Threads, NEW c \in CallsOf[t], Call(t, c) PROVE TypeInv'
  BY <1>4, CallTypes
<1>5. CASE PowerFailure
  BY <1>5, CrashTypes
<1>6. CASE UNCHANGED vars
  BY <1>6, StutterTypes
<1> QED BY <1>1, <1>2, <1>3, <1>4, <1>5, <1>6 DEF Next

(* The variables of the model of mapfile.c keep their types.               *)
THEOREM TypeCorrect == Spec => []TypeOK
<1>1. Spec => []TypeInv
  BY InitTypes, NextTypes, PTL DEF Spec
<1>2. TypeInv => TypeOK
  BY DEF TypeInv
<1> QED BY <1>1, <1>2, PTL

-----------------------------------------------------------------------------
(* No update is lost.                                                      *)

Current(t) ==
  pc[t] = "write" =>
     LET row == file.rows[RowOf(t)] IN
     kv[t] = IF call[t].op = "set" THEN Put(row, call[t].key, call[t].val)
             ELSE Rm(row, call[t].key)

(* Rows that do not change keep a thread's copy current.                   *)
LEMMA CurrentKept ==
  ASSUME NEW t \in Threads, Current(t),
         pc'[t] = pc[t], call'[t] = call[t], kv'[t] = kv[t], file'.rows = file.rows
  PROVE  Current(t)'
<1>1. RowOf(t)' = RowOf(t)
  BY DEF RowOf
<1>2. file.rows[RowOf(t)]' = file.rows[RowOf(t)]
  BY <1>1
<1> QED BY <1>2 DEF Current

(* The steps that leave the rows alone.                                    *)
LEMMA CurrentNoWrite ==
  ASSUME TypeInv, RowIsCurrent, NEW t \in Threads, NEW l, pc' = [pc EXCEPT ![t] = l],
         \A u \in Threads \ {t} : call'[u] = call[u] /\ kv'[u] = kv[u],
         file'.rows = file.rows,
         l # "write" \/ Current(t)'
  PROVE  RowIsCurrent'
<1>1. ASSUME NEW u \in Threads PROVE Current(u)'
  <2>1. CASE u = t
    <3>1. pc'[t] = l
      BY DEF TypeInv, TypeOK
    <3> QED BY <2>1, <3>1 DEF Current
  <2>2. CASE u # t
    <3>1. pc'[u] = pc[u]
      BY <2>2 DEF TypeInv, TypeOK
    <3>2. Current(u)
      BY DEF RowIsCurrent, Current
    <3> QED BY <2>2, <3>1, <3>2, CurrentKept
  <2> QED BY <2>1, <2>2
<1> QED BY <1>1 DEF RowIsCurrent, Current

(* While a thread is inside, no other one is about to write.               *)
LEMMA CurrentAlone ==
  ASSUME TypeInv, OneHandle, NEW t \in Threads, pc[t] \in Inside,
         NEW l, pc' = [pc EXCEPT ![t] = l], l # "write"
  PROVE  RowIsCurrent'
<1>1. ASSUME NEW u \in Threads PROVE pc'[u] # "write"
  <2>1. CASE u = t
    BY <2>1 DEF TypeInv, TypeOK
  <2>2. CASE u # t
    <3>1. pc'[u] = pc[u]
      BY <2>2 DEF TypeInv, TypeOK
    <3>2. pc[u] \notin Inside
      BY <2>2, Exclusion
    <3> QED BY <3>1, <3>2 DEF Inside
  <2> QED BY <2>1, <2>2
<1> QED BY <1>1 DEF RowIsCurrent

LEMMA NextCurrent == OneHandle /\ TypeInv /\ RowIsCurrent /\ [Next]_vars => RowIsCurrent'
<1> SUFFICES ASSUME OneHandle, TypeInv, RowIsCurrent, [Next]_vars PROVE RowIsCurrent'
  OBVIOUS
<1>1. ASSUME NEW t \in Threads, Opening(t) PROVE RowIsCurrent'
  <2>1. UNCHANGED <<call, kv>> /\ file'.rows = file.rows
    BY <1>1 DEF Opening, Open, Create, CreateExtend, CreateSync, OpenFails, TypeInv,
                TypeOK, File
  <2>2. CASE pc' = pc
    BY <2>1, <2>2, CurrentKept DEF RowIsCurrent, Current
  <2>3. CASE \E l \in {"idle", "create", "ftruncate", "fsync"} : pc' = [pc EXCEPT ![t] = l]
    BY <2>1, <2>3, CurrentNoWrite
  <2> QED BY <1>1, <2>2, <2>3 DEF Opening, Open, Create, CreateExtend, CreateSync,
                                  OpenFails, Become
<1>2. ASSUME NEW t \in Threads, Lock(t) PROVE RowIsCurrent'
  <2> DEFINE l == IF call[t].op = "emp" THEN "fopen" ELSE "read"
  <2>1. UNCHANGED <<call, kv, file>> /\ pc' = [pc EXCEPT ![t] = l]
    BY <1>2 DEF Lock, Become
  <2>2. l # "write"
    OBVIOUS
  <2> HIDE DEF l
  <2> QED BY <2>1, <2>2, CurrentNoWrite
<1>3. ASSUME NEW t \in Threads, NEW c \in CallsOf[t], Call(t, c) PROVE RowIsCurrent'
  <2>1. UNCHANGED <<kv, file>> /\ pc' = [pc EXCEPT ![t] = "lock"]
        /\ call' = [call EXCEPT ![t] = c]
    BY <1>3 DEF Call, Become
  <2>2. \A u \in Threads \ {t} : call'[u] = call[u]
    BY <2>1 DEF TypeInv, TypeOK
  <2> QED BY <2>1, <2>2, CurrentNoWrite
<1>4. ASSUME NEW t \in Threads, ReadForSet(t) \/ ReadForDel(t) PROVE RowIsCurrent'
  <2>1. /\ pc' = [pc EXCEPT ![t] = "write"]
        /\ UNCHANGED <<file, call>>
        /\ kv' = [kv EXCEPT ![t] =
                    IF call[t].op = "set"
                    THEN Put(file.rows[RowOf(t)], call[t].key, call[t].val)
                    ELSE Rm(file.rows[RowOf(t)], call[t].key)]
    BY <1>4 DEF ReadForSet, ReadForDel, Become
  <2>2. \A u \in Threads \ {t} : kv'[u] = kv[u]
    BY <2>1 DEF TypeInv, TypeOK
  <2>3. kv'[t] = IF call[t].op = "set"
                 THEN Put(file.rows[RowOf(t)], call[t].key, call[t].val)
                 ELSE Rm(file.rows[RowOf(t)], call[t].key)
    BY <2>1 DEF TypeInv, TypeOK
  <2>4. Current(t)'
    BY <2>1, <2>3 DEF Current, RowOf, Put, Rm, Stop, Matches
  <2> QED BY <2>1, <2>2, <2>4, CurrentNoWrite
<1>5. ASSUME NEW t \in Threads, Locked(t), ~(ReadForSet(t) \/ ReadForDel(t))
      PROVE  RowIsCurrent'
  <2>1. /\ pc[t] \in Inside
        /\ \E l \in {"sync", "truncate", "unlock", "idle"} : pc' = [pc EXCEPT ![t] = l]
    BY <1>5 DEF Locked, ReadError, ReadFails, ReadForGet, ReadRowFull, WriteError, Write,
                Sync, EmpClear, EmpExtend, EmpError, Return, Reply, Become, Inside
  <2> QED BY <2>1, CurrentAlone
<1>6. CASE PowerFailure
  BY <1>6 DEF PowerFailure, RowIsCurrent
<1>7. CASE UNCHANGED vars
  <2>1. UNCHANGED <<file, pc, call, kv>>
    BY <1>7 DEF vars
  <2> QED BY <2>1, CurrentKept DEF RowIsCurrent, Current
<1> QED BY <1>1, <1>2, <1>3, <1>4, <1>5, <1>6, <1>7 DEF Next

(* Between the read and the write of a row nobody else changes it, when    *)
(* the threads that make calls share a handle.                             *)
THEOREM NoLostUpdate == OneHandle => (Spec => []RowIsCurrent)
<1> SUFFICES ASSUME OneHandle PROVE Spec => []RowIsCurrent
  OBVIOUS
<1>1. Init => TypeInv /\ RowIsCurrent
  BY InitTypes DEF Init, RowIsCurrent
<1>2. TypeInv /\ RowIsCurrent /\ [Next]_vars => (TypeInv /\ RowIsCurrent)'
  BY NextTypes, NextCurrent
<1> QED BY <1>1, <1>2, PTL DEF Spec

-----------------------------------------------------------------------------
(* What is acknowledged is on the disk, under the two restrictions without *)
(* which a row is no map: no key is a prefix of another, and a key that is *)
(* deleted has its row to itself.                                          *)

NoPrefix == \A k \in Keys : PrefixOf[k] = {k}

DeletesAlone ==
  \A t \in Threads : \A c \in CallsOf[t] :
     c.op = "del" => \A k \in Keys : hash_gen[k] = hash_gen[c.key] => k = c.key

(* A row without holes before its keys, each of which it holds once.       *)
Shaped(row, r) ==
  /\ \A j \in Slots : row[j] # Hole => hash_gen[row[j].key] = r
  /\ \A j \in Slots : \A l \in 1 .. j - 1 :
       row[j] # Hole => row[l] # Hole /\ row[l].key # row[j].key

(* Two rows that differ in one slot at most.                               *)
Near(F, D) == \A i, j \in Slots : F[i] # D[i] /\ F[j] # D[j] => i = j

LEMMA EmptyRowShaped ==
  ASSUME NEW r PROVE Shaped(EmptyRow, r) /\ EmptyRow \in Row
BY DEF Shaped, EmptyRow, Slots, Row

LEMMA GetHit ==
  ASSUME NoPrefix, NEW row \in Row, NEW r, Shaped(row, r), NEW k \in Keys,
         NEW j \in Slots, row[j] # Hole, row[j].key = k
  PROVE  Get(row, k) = row[j].val
<1> DEFINE hits == {i \in Stop(row, k) : row[i] # Hole}
<1>1. Matches(k, row[j])
  BY ConstantsAssumption DEF Matches
<1>2. ASSUME NEW l \in 1 .. j - 1 PROVE row[l] # Hole /\ ~Matches(k, row[l])
  BY DEF Shaped, Matches, NoPrefix
<1>3. j \in hits
  BY <1>1, <1>2 DEF Stop
<1>4. (CHOOSE i \in hits : TRUE) \in hits
  BY <1>3
<1>5. (CHOOSE i \in hits : TRUE) = j
  BY <1>3, <1>4, StopsOnce
<1>6. hits # {}
  BY <1>3
<1> HIDE DEF hits
<1>7. Get(row, k) = IF hits = {} THEN Absent ELSE row[CHOOSE i \in hits : TRUE].val
  BY DEF Get, hits
<1> QED BY <1>5, <1>6, <1>7

LEMMA GetMiss ==
  ASSUME NoPrefix, NEW row, NEW k \in Keys,
         \A j \in Slots : row[j] = Hole \/ row[j].key # k
  PROVE  Get(row, k) = Absent
<1>1. {i \in Stop(row, k) : row[i] # Hole} = {}
  BY DEF Stop, Matches, NoPrefix
<1> QED BY <1>1 DEF Get

(* Rows that hold the same of a key give the same answer.                  *)
LEMMA GetSame ==
  ASSUME NoPrefix, NEW F \in Row, NEW D \in Row, NEW r, Shaped(F, r), Shaped(D, r),
         NEW k \in Keys,
         \A j \in Slots : F[j] # D[j] => /\ F[j] = Hole \/ F[j].key # k
                                         /\ D[j] = Hole \/ D[j].key # k
  PROVE  Get(F, k) = Get(D, k)
<1>1. CASE \A j \in Slots : F[j] = Hole \/ F[j].key # k
  <2>1. \A j \in Slots : D[j] = Hole \/ D[j].key # k
    BY <1>1
  <2> QED BY <1>1, <2>1, GetMiss
<1>2. CASE \E j \in Slots : F[j] # Hole /\ F[j].key = k
  <2>1. PICK j \in Slots : F[j] # Hole /\ F[j].key = k
    BY <1>2
  <2>2. D[j] = F[j]
    BY <2>1
  <2>3. Get(F, k) = F[j].val
    BY <2>1, GetHit
  <2>4. Get(D, k) = D[j].val
    BY <2>1, <2>2, GetHit
  <2> QED BY <2>2, <2>3, <2>4
<1> QED BY <1>1, <1>2

(* hash_table_put changes one slot: the key's own, or the first empty one. *)
LEMMA PutDoes ==
  ASSUME NoPrefix, NEW row \in Row, NEW k \in Keys, NEW v \in Values,
         Shaped(row, hash_gen[k]), Stop(row, k) # {}
  PROVE  /\ Shaped(Put(row, k, v), hash_gen[k])
         /\ Near(Put(row, k, v), row)
         /\ Get(Put(row, k, v), k) = v
         /\ \A x \in Keys \ {k} : Get(Put(row, k, v), x) = Get(row, x)
<1> DEFINE P == Put(row, k, v)
           item == [key |-> k, val |-> v]
<1>1. PICK s \in Stop(row, k) : TRUE
  OBVIOUS
<1>2. /\ s \in Slots
      /\ row[s] # Hole => row[s].key = k
      /\ \A l \in 1 .. s - 1 : row[l] # Hole /\ row[l].key # k
  <2>1. /\ s \in Slots
        /\ row[s] = Hole \/ Matches(k, row[s])
        /\ \A l \in 1 .. s - 1 : row[l] # Hole /\ ~Matches(k, row[l])
    BY <1>1 DEF Stop
  <2>2. \A x : x \in PrefixOf[k] <=> x = k
    BY DEF NoPrefix
  <2>3. row[s] # Hole => row[s].key = k
    BY <2>1, <2>2 DEF Matches
  <2>4. \A l \in 1 .. s - 1 : row[l].key # k
    BY <2>1, <2>2 DEF Matches
  <2> QED BY <2>1, <2>3, <2>4
<1>3. \A j \in Slots : j \in Stop(row, k) <=> j = s
  BY StopsOnce
<1>4. item \in Item /\ item # Hole
  BY ConstantsAssumption DEF Item
<1>5. \A j \in Slots : P[j] = IF j = s THEN item ELSE row[j]
  <2> TAKE j \in Slots
  <2>1. P[j] = IF j \notin Stop(row, k) THEN row[j]
               ELSE IF row[j] = Hole THEN item ELSE [row[j] EXCEPT !.val = v]
    BY DEF Put
  <2>2. CASE j # s
    BY <1>3, <2>1, <2>2
  <2>3. CASE j = s /\ row[j] = Hole
    BY <1>3, <2>1, <2>3
  <2>4. CASE j = s /\ row[j] # Hole
    <3>1. row[j] \in Item /\ row[j].key = k
      BY <1>2, <2>4 DEF Row
    <3>2. [row[j] EXCEPT !.val = v] = item
      BY <3>1 DEF Item
    <3> QED BY <1>3, <2>1, <2>4, <3>2
  <2> QED BY <2>2, <2>3, <2>4
<1>6. P \in Row
  BY PutType
<1>7. item.key = k /\ item.val = v
  OBVIOUS
<1> HIDE DEF P, item
<1>8. Shaped(P, hash_gen[k])
  <2>1. ASSUME NEW j \in Slots, P[j] # Hole PROVE hash_gen[P[j].key] = hash_gen[k]
    BY <1>5, <1>7, <2>1 DEF Shaped
  <2>2. ASSUME NEW j \in Slots, NEW l \in 1 .. j - 1, P[j] # Hole
        PROVE  P[l] # Hole /\ P[l].key # P[j].key
    <3>1. l \in Slots /\ l < j
      BY ConstantsAssumption DEF Slots
    <3>2. CASE j = s
      BY <1>2, <1>5, <1>7, <3>1, <3>2
    <3>3. CASE l = s
      <4>1. row[j] # Hole
        BY <1>5, <2>2, <3>1, <3>3
      <4>2. row[s] # Hole /\ row[s].key # row[j].key
        BY <3>3, <4>1 DEF Shaped
      <4> QED BY <1>2, <1>4, <1>5, <1>7, <3>1, <3>3, <4>2
    <3>4. CASE j # s /\ l # s
      BY <1>5, <2>2, <3>1, <3>4 DEF Shaped
    <3> QED BY <3>2, <3>3, <3>4
  <2> QED BY <2>1, <2>2 DEF Shaped
<1>9. Near(P, row)
  BY <1>5 DEF Near
<1>10. Get(P, k) = v
  BY <1>2, <1>4, <1>5, <1>6, <1>7, <1>8, GetHit
<1>11. ASSUME NEW x \in Keys \ {k} PROVE Get(P, x) = Get(row, x)
  BY <1>2, <1>5, <1>6, <1>7, <1>8, <1>11, GetSame
<1> QED BY <1>8, <1>9, <1>10, <1>11 DEF P

(* hash_table_rm empties a row that its key has to itself.                 *)
LEMMA RmDoes ==
  ASSUME NoPrefix, NEW row \in Row, NEW k \in Keys, Shaped(row, hash_gen[k]),
         \A x \in Keys : hash_gen[x] = hash_gen[k] => x = k
  PROVE  Rm(row, k) = EmptyRow /\ Near(Rm(row, k), row)
<1>1. ASSUME NEW j \in Slots, row[j] # Hole PROVE j = 1 /\ Matches(k, row[j])
  <2>1. ASSUME NEW i \in Slots, row[i] # Hole PROVE row[i].key = k
    <3>1. row[i] \in Item
      BY <2>1 DEF Row
    <3> QED BY <2>1, <3>1 DEF Shaped, Item
  <2>2. j = 1
    <3> SUFFICES ASSUME j # 1 PROVE FALSE
      OBVIOUS
    <3>1. 1 \in 1 .. j - 1 /\ 1 \in Slots
      BY ConstantsAssumption DEF Slots
    <3>2. row[1] # Hole /\ row[1].key # row[j].key
      BY <1>1, <3>1 DEF Shaped
    <3> QED BY <1>1, <2>1, <3>1, <3>2
  <2> QED BY <1>1, <2>1, <2>2, ConstantsAssumption DEF Matches
<1>2. \A j \in Slots : Rm(row, k)[j] = Hole
  <2> TAKE j \in Slots
  <2>1. CASE row[j] = Hole
    BY <2>1 DEF Rm
  <2>2. CASE row[j] # Hole
    <3>1. j = 1 /\ Matches(k, row[j])
      BY <1>1, <2>2
    <3>2. \A l \in 1 .. j : row[l] # Hole
      BY <2>2, <3>1
    <3> QED BY <3>1, <3>2 DEF Rm
  <2> QED BY <2>1, <2>2
<1>3. Rm(row, k) = EmptyRow
  BY <1>2 DEF Rm, EmptyRow
<1>4. Near(Rm(row, k), row)
  BY <1>1, <1>2 DEF Near
<1> QED BY <1>3, <1>4

(* A mixture of two rows that differ in one slot is one of them.           *)
LEMMA MixOfNear ==
  ASSUME NEW F \in Row, NEW D \in Row, Near(F, D), NEW M \in Row,
         \A j \in Slots : M[j] \in {F[j], D[j]}
  PROVE  M \in {F, D}
<1>1. CASE \A j \in Slots : M[j] = D[j]
  BY <1>1 DEF Row
<1>2. CASE \E i \in Slots : M[i] # D[i]
  <2>1. PICK i \in Slots : M[i] # D[i]
    BY <1>2
  <2>2. \A j \in Slots : M[j] = F[j]
    BY <2>1 DEF Near
  <2> QED BY <2>2 DEF Row
<1> QED BY <1>1, <1>2

-----------------------------------------------------------------------------
(* The inductive invariant: file and disk agree but for what the thread    *)
(* inside the critical section has written and not synced, unless the file *)
(* has been emptied; and nothing is known of the keys whose calls are      *)
(* under way.                                                              *)

RowsShaped ==
  \A r \in Rows : Shaped(file.rows[r], r) /\ Shaped(disk.rows[r], r)

NoRowsUnlessFull ==
  /\ file.size # "full" => file.rows = EmptyRows
  /\ disk.size # "full" => disk.rows = EmptyRows

(* Only mapfile_kv_emp makes a file shorter, and forgets every key.        *)
ShorterByEmp == disk.size = "full" /\ file.size # "full" => emptied

EmptiedUnsure == emptied => \A k \in Keys : acked[k] = Unsure

PendingUnsure ==
  \A t \in Threads : \A k \in Affected(call[t]) : acked[k] = Unsure

(* Only a set or del that has written and not synced differs from what a   *)
(* power failure would leave.                                              *)
Unsaved(t) == pc[t] = "sync" /\ call[t].op # "emp"

SyncedRows == (\A t \in Threads : ~Unsaved(t)) => file.rows = Stored

(* The call's change is in the file.                                       *)
Done(t) ==
  IF call[t].op = "emp" THEN file.rows = EmptyRows
  ELSE Get(file.rows[RowOf(t)], call[t].key)
         = IF call[t].op = "set" THEN call[t].val ELSE Absent

(* The file and what would be left of it hold the same of every key but    *)
(* one.                                                                    *)
OtherKeysSame(k) ==
  \A x \in Keys \ {k} : Get(file.rows[hash_gen[x]], x) = Get(Stored[hash_gen[x]], x)

CallDone(t) ==
  /\ pc[t] = "write" /\ call[t].op = "set"
       => Stop(file.rows[RowOf(t)], call[t].key) # {}
  /\ pc[t] = "truncate" => file.rows = EmptyRows
  /\ pc[t] = "sync" =>
       /\ file.size = "full" /\ Done(t)
       /\ call[t].op # "emp" => /\ \A r \in Rows : Near(file.rows[r], Stored[r])
                                /\ OtherKeysSame(call[t].key)
  /\ pc[t] = "unlock" => ret[t] \notin {NoReply, Underway}
  /\ pc[t] = "unlock" /\ ret[t].ok /\ call[t].op # "get" =>
       Done(t) /\ file.size = "full" /\ disk.size = "full" /\ ~emptied

DiskInv ==
  /\ RowsShaped /\ NoRowsUnlessFull /\ ShorterByEmp /\ EmptiedUnsure
  /\ PendingUnsure /\ SyncedRows /\ Durable
  /\ \A t \in Threads : CallDone(t)

Hypotheses == OneHandle /\ NoPrefix /\ DeletesAlone

Inv == TypeInv /\ RowIsCurrent /\ DiskInv

LEMMA InitDisk == NoPrefix /\ Init => DiskInv
<1> SUFFICES ASSUME NoPrefix, Init PROVE DiskInv
  OBVIOUS
<1>1. \A r \in Rows : file.rows[r] = EmptyRow /\ disk.rows[r] = EmptyRow
  BY DEF Init, EmptyRows
<1>2. RowsShaped
  BY <1>1, EmptyRowShaped DEF RowsShaped
<1>3. NoRowsUnlessFull /\ ShorterByEmp /\ EmptiedUnsure /\ SyncedRows
  BY DEF Init, NoRowsUnlessFull, ShorterByEmp, EmptiedUnsure, SyncedRows, Stored
<1>4. PendingUnsure
  BY AffectedIs DEF Init, PendingUnsure, NoCall
<1>5. Durable
  BY DEF Init, Durable, Lookup
<1>6. \A t \in Threads : CallDone(t)
  BY DEF Init, CallDone
<1> QED BY <1>2, <1>3, <1>4, <1>5, <1>6 DEF DiskInv

(* Steps of a thread that touch neither file nor disk.                     *)
LEMMA QuietDisk ==
  ASSUME Inv, NEW t \in Threads, NEW l, pc' = [pc EXCEPT ![t] = l],
         UNCHANGED <<file, disk, emptied, acked, call>>,
         \A u \in Threads \ {t} : ret'[u] = ret[u],
         ~Unsaved(t), l # "sync", CallDone(t)'
  PROVE  DiskInv'
<1>1. pc'[t] = l /\ \A u \in Threads \ {t} : pc'[u] = pc[u]
  BY DEF Inv, TypeInv, TypeOK
<1>2. RowsShaped' /\ NoRowsUnlessFull' /\ PendingUnsure' /\ ShorterByEmp' /\ EmptiedUnsure'
  BY DEF Inv, DiskInv, RowsShaped, NoRowsUnlessFull, PendingUnsure, ShorterByEmp,
         EmptiedUnsure
<1>3. Stored' = Stored
  BY DEF Stored
<1>4. SyncedRows'
  <2>1. ASSUME NEW u \in Threads, Unsaved(u) PROVE Unsaved(u)'
    BY <1>1, <2>1 DEF Unsaved
  <2> QED BY <1>3, <2>1 DEF Inv, DiskInv, SyncedRows
<1>5. Durable'
  BY DEF Inv, DiskInv, Durable, Lookup
<1>6. ASSUME NEW u \in Threads \ {t} PROVE CallDone(u)'
  <2>1. CallDone(u)
    BY DEF Inv, DiskInv
  <2>2. pc'[u] = pc[u] /\ ret'[u] = ret[u] /\ RowOf(u)' = RowOf(u)
    BY <1>1 DEF RowOf
  <2>3. Done(u)' = Done(u) /\ \A k : OtherKeysSame(k)' = OtherKeysSame(k)
    BY <1>3, <2>2 DEF Done, OtherKeysSame
  <2> QED BY <1>3, <2>1, <2>2, <2>3 DEF CallDone
<1> QED BY <1>2, <1>4, <1>5, <1>6 DEF DiskInv

LEMMA RepliesAreAnswers ==
  /\ {Success, Failure, Error} \cap {NoReply, Underway} = {}
  /\ \A v : [ok |-> TRUE, val |-> v] \notin {NoReply, Underway}
BY ConstantsAssumption DEF Success, Failure, Error, NoReply, Underway

LEMMA LockDisk ==
  ASSUME Inv, NEW t \in Threads, Lock(t)
  PROVE  DiskInv'
<1> DEFINE l == IF call[t].op = "emp" THEN "fopen" ELSE "read"
<1>1. /\ pc[t] = "lock" /\ pc' = [pc EXCEPT ![t] = l]
      /\ UNCHANGED <<file, disk, emptied, acked, call, ret>>
  BY DEF Lock, Become
<1>2. l \in {"fopen", "read"}
  OBVIOUS
<1> HIDE DEF l
<1>3. pc'[t] = l
  BY <1>1 DEF Inv, TypeInv, TypeOK
<1>4. CallDone(t)'
  BY <1>2, <1>3 DEF CallDone
<1> QED BY <1>1, <1>2, <1>4, QuietDisk DEF Unsaved

(* A thread that gives up has changed nothing.                             *)
LEMMA GiveUp ==
  ASSUME Inv, NEW t \in Threads, NEW r \in {Failure, Error}, Reply(t, r), ~Unsaved(t),
         UNCHANGED <<file, disk, emptied, acked, call>>
  PROVE  DiskInv'
<1>1. pc' = [pc EXCEPT ![t] = "unlock"] /\ ret' = [ret EXCEPT ![t] = r]
  BY DEF Reply, Become
<1>2. /\ pc'[t] = "unlock" /\ ret'[t] = r
      /\ \A u \in Threads \ {t} : ret'[u] = ret[u]
  BY <1>1 DEF Inv, TypeInv, TypeOK
<1>3. ~r.ok
  BY DEF Failure, Error
<1>4. CallDone(t)'
  BY <1>2, <1>3, RepliesAreAnswers DEF CallDone
<1> QED BY <1>1, <1>2, <1>4, QuietDisk

LEMMA ReadDisk ==
  ASSUME Inv, NEW t \in Threads,
         \/ ReadError(t) \/ ReadFails(t) \/ ReadForGet(t) \/ ReadRowFull(t)
         \/ ReadForSet(t) \/ ReadForDel(t)
  PROVE  DiskInv'
<1>1. /\ pc[t] = "read" /\ ~Unsaved(t)
      /\ UNCHANGED <<file, disk, emptied, acked, call>>
  BY DEF ReadError, ReadFails, ReadForGet, ReadRowFull, ReadForSet, ReadForDel, Unsaved
<1>2. t \in DOMAIN pc /\ t \in DOMAIN ret
  BY DEF Inv, TypeInv, TypeOK
<1>3. CASE ReadError(t) \/ ReadFails(t) \/ ReadRowFull(t)
  <2>1. \E r \in {Failure, Error} : Reply(t, r)
    BY <1>3 DEF ReadError, ReadFails, ReadRowFull
  <2> QED BY <1>1, <2>1, GiveUp
<1>4. CASE ReadForGet(t)
  <2>1. /\ pc' = [pc EXCEPT ![t] = "unlock"] /\ call[t].op = "get"
        /\ \E v : ret' = [ret EXCEPT ![t] = IF v = Absent THEN Failure
                                             ELSE [ok |-> TRUE, val |-> v]]
    BY <1>4 DEF ReadForGet, Reply, Become
  <2>2. /\ pc'[t] = "unlock" /\ ret'[t] \notin {NoReply, Underway}
        /\ \A u \in Threads \ {t} : ret'[u] = ret[u]
    BY <1>2, <2>1, RepliesAreAnswers DEF Inv, TypeInv, TypeOK
  <2>3. CallDone(t)'
    BY <1>1, <2>1, <2>2 DEF CallDone
  <2> QED BY <1>1, <2>1, <2>2, <2>3, QuietDisk
<1>5. CASE ReadForSet(t) \/ ReadForDel(t)
  <2>1. /\ pc' = [pc EXCEPT ![t] = "write"] /\ UNCHANGED ret
        /\ call[t].op = "set" => Stop(file.rows[RowOf(t)], call[t].key) # {}
    BY <1>5 DEF ReadForSet, ReadForDel, Become
  <2>2. pc'[t] = "write" /\ RowOf(t)' = RowOf(t)
    BY <1>1, <1>2, <2>1 DEF RowOf
  <2>3. CallDone(t)'
    BY <1>1, <2>1, <2>2 DEF CallDone
  <2>4. \A u \in Threads \ {t} : ret'[u] = ret[u]
    BY <2>1
  <2>5. pc' = [pc EXCEPT ![t] = "write"]
    BY <2>1
  <2> QED BY <1>1, <2>3, <2>4, <2>5, QuietDisk
<1> QED BY <1>3, <1>4, <1>5

LEMMA CallDisk ==
  ASSUME Inv, NEW t \in Threads, NEW c \in CallsOf[t], Call(t, c)
  PROVE  DiskInv'
<1>1. /\ pc[t] = "idle" /\ pc' = [pc EXCEPT ![t] = "lock"]
      /\ call' = [call EXCEPT ![t] = c]
      /\ UNCHANGED <<file, disk, emptied, ret>> /\ Stored' = Stored
      /\ acked' = [k \in Keys |-> IF k \in Affected(c) THEN Unsure ELSE acked[k]]
  BY DEF Call, Become, Stored
<1>2. /\ pc'[t] = "lock" /\ call'[t] = c
      /\ \A u \in Threads \ {t} : pc'[u] = pc[u] /\ call'[u] = call[u]
  BY <1>1 DEF Inv, TypeInv, TypeOK
<1>3. c \in Requests
  BY ConstantsAssumption
<1>4. RowsShaped' /\ NoRowsUnlessFull' /\ ShorterByEmp'
  BY <1>1 DEF Inv, DiskInv, RowsShaped, NoRowsUnlessFull, ShorterByEmp
<1>5. EmptiedUnsure'
  BY <1>1 DEF Inv, DiskInv, EmptiedUnsure
<1>6. SyncedRows'
  <2>1. ASSUME NEW u \in Threads, Unsaved(u) PROVE Unsaved(u)'
    BY <1>1, <1>2, <2>1 DEF Unsaved
  <2> QED BY <1>1, <2>1 DEF Inv, DiskInv, SyncedRows
<1>7. PendingUnsure'
  <2> SUFFICES ASSUME NEW u \in Threads, NEW k \in Affected(call[u])'
               PROVE  acked'[k] = Unsure
    BY DEF PendingUnsure
  <2>1. k \in Affected(call'[u])
    OBVIOUS
  <2>2. CASE u = t
    <3>1. k \in Affected(c)
      BY <1>2, <2>1, <2>2
    <3>2. k \in Keys
      BY <1>3, <3>1, AffectedIs, RequestFields
    <3> QED BY <1>1, <3>1, <3>2
  <2>3. CASE u # t
    <3>1. k \in Affected(call[u])
      BY <1>2, <2>1, <2>3
    <3>2. call[u] \in Requests \cup {NoCall}
      BY DEF Inv, TypeInv, TypeOK
    <3>3. k \in Keys
      BY <3>1, <3>2, AffectedIs, RequestFields DEF NoCall
    <3>4. acked[k] = Unsure
      BY <3>1 DEF Inv, DiskInv, PendingUnsure
    <3> QED BY <1>1, <3>3, <3>4
  <2> QED BY <2>2, <2>3
<1>8. Durable'
  <2> SUFFICES ASSUME NEW k \in Keys, acked'[k] # Unsure
               PROVE  /\ Lookup(disk, k)' = acked'[k]
                      /\ file'.size = "full" => Lookup(file, k)' = acked'[k]
    BY DEF Durable
  <2>1. acked'[k] = acked[k]
    BY <1>1
  <2> QED BY <1>1, <2>1 DEF Inv, DiskInv, Durable, Lookup
<1>9. ASSUME NEW u \in Threads PROVE CallDone(u)'
  <2>1. CASE u = t
    BY <1>2, <2>1 DEF CallDone
  <2>2. CASE u # t
    <3>1. CallDone(u) /\ pc'[u] = pc[u] /\ call'[u] = call[u] /\ RowOf(u)' = RowOf(u)
      BY <1>2, <2>2 DEF Inv, DiskInv, RowOf
    <3>2. Done(u)' = Done(u) /\ \A k : OtherKeysSame(k)' = OtherKeysSame(k)
      BY <1>1, <3>1 DEF Done, OtherKeysSame
    <3> QED BY <1>1, <3>1, <3>2 DEF CallDone
  <2> QED BY <2>1, <2>2
<1> QED BY <1>4, <1>5, <1>6, <1>7, <1>8, <1>9 DEF DiskInv

-----------------------------------------------------------------------------
(* The accesses to the file.                                               *)

LEMMA OpeningDisk ==
  ASSUME Inv, NEW t \in Threads, Opening(t)
  PROVE  DiskInv'
<1>1. /\ UNCHANGED <<call, ret, acked>>
      /\ \A u \in Threads : pc[u] \in Inside \/ pc'[u] \in Inside => pc'[u] = pc[u]
      /\ file'.rows = file.rows
      /\ file'.size = file.size
           \/ (file.size # "full" /\ file'.size \in {"short", "full"})
      /\ \/ UNCHANGED <<disk, emptied>>
         \/ disk' = file /\ file' = file /\ ~emptied'
  <2>1. /\ UNCHANGED <<call, ret, acked>>
        /\ pc[t] \in {"idle", "create", "ftruncate", "fsync"}
        /\ \E l \in {"idle", "create", "ftruncate", "fsync"} :
             pc' = pc \/ pc' = [pc EXCEPT ![t] = l]
    BY DEF Opening, Open, Create, CreateExtend, CreateSync, OpenFails, Become
  <2>2. \A u \in Threads : pc[u] \in Inside \/ pc'[u] \in Inside => pc'[u] = pc[u]
    BY <2>1 DEF Inv, TypeInv, TypeOK, Inside
  <2>3. file \in File
    BY DEF Inv, TypeInv, TypeOK
  <2>4. /\ \/ UNCHANGED <<disk, emptied>>
           \/ disk' = file /\ file' = file /\ ~emptied'
        /\ \/ file' = file
           \/ file.size = "none" /\ file' = [file EXCEPT !.size = "short"]
           \/ file' = [file EXCEPT !.size = "full"]
    BY DEF Opening, Open, Create, CreateExtend, CreateSync, OpenFails
  <2> QED BY <2>1, <2>2, <2>3, <2>4 DEF File
<1>2. RowsShaped' /\ NoRowsUnlessFull' /\ ShorterByEmp' /\ EmptiedUnsure'
  BY <1>1 DEF Inv, DiskInv, RowsShaped, NoRowsUnlessFull, ShorterByEmp, EmptiedUnsure
<1>3. Stored' = Stored \/ Stored' = file'.rows
  BY <1>1 DEF Stored
<1>4. SyncedRows'
  <2>1. ASSUME NEW u \in Threads, Unsaved(u) PROVE Unsaved(u)'
    BY <1>1, <2>1 DEF Unsaved, Inside
  <2> QED BY <1>1, <1>3, <2>1 DEF Inv, DiskInv, SyncedRows
<1>5. PendingUnsure'
  BY <1>1 DEF Inv, DiskInv, PendingUnsure
<1>6. Durable'
  <2> SUFFICES ASSUME NEW k \in Keys, acked[k] # Unsure
               PROVE  /\ Lookup(disk, k)' = acked[k]
                      /\ file'.size = "full" => Lookup(file, k)' = acked[k]
    BY <1>1 DEF Durable
  <2>1. /\ Lookup(disk, k) = acked[k]
        /\ file.size = "full" => Lookup(file, k) = acked[k]
    BY DEF Inv, DiskInv, Durable
  <2>2. ASSUME file.size # "full" PROVE disk.size # "full"
    BY <2>2 DEF Inv, DiskInv, ShorterByEmp, EmptiedUnsure
  <2>3. ASSUME file.size # "full" PROVE acked[k] = Absent /\ Get(file.rows[hash_gen[k]], k) = Absent
    <3>1. acked[k] = Absent
      BY <2>1, <2>2, <2>3 DEF Lookup
    <3>2. disk.size # "full" /\ file.rows = EmptyRows
      BY <2>2, <2>3 DEF Inv, DiskInv, NoRowsUnlessFull
    <3>3. file.rows[hash_gen[k]] = EmptyRow
      BY <3>2 DEF EmptyRows, Rows
    <3>4. {j \in Stop(EmptyRow, k) : EmptyRow[j] # Hole} = {}
      BY DEF Stop, EmptyRow
    <3> QED BY <3>1, <3>3, <3>4 DEF Get
  <2>4. CASE disk' = disk
    <3>1. Lookup(disk, k)' = acked[k]
      BY <2>1, <2>4 DEF Lookup
    <3>2. file'.size = "full" => Get(file.rows[hash_gen[k]], k) = acked[k]
      BY <1>1, <2>1, <2>3 DEF Lookup
    <3> QED BY <1>1, <3>1, <3>2 DEF Lookup
  <2>5. CASE disk' = file /\ file' = file
    <3>1. Lookup(file, k) = acked[k]
      BY <2>1, <2>3 DEF Lookup
    <3> QED BY <2>5, <3>1 DEF Lookup
  <2> QED BY <1>1, <2>4, <2>5
<1>7. ASSUME NEW u \in Threads PROVE CallDone(u)'
  <2>1. CASE pc'[u] \notin Inside
    BY <2>1 DEF CallDone, Inside
  <2>2. CASE pc'[u] \in Inside
    <3>1. CallDone(u) /\ pc'[u] = pc[u] /\ RowOf(u)' = RowOf(u) /\ Done(u)' = Done(u)
      BY <1>1, <2>2 DEF Inv, DiskInv, RowOf, Done
    <3>2. file.size = "full" => file'.size = "full"
      BY <1>1
    <3>3. /\ file.size = "full" /\ disk.size = "full" => disk'.size = "full"
          /\ ~emptied => ~emptied'
      BY <1>1
    <3>4. ASSUME \A r \in Rows : Near(file.rows[r], Stored[r])
          PROVE  \A r \in Rows : Near(file'.rows[r], Stored'[r])
      BY <1>1, <1>3, <3>4 DEF Near
    <3>5. ASSUME NEW k, OtherKeysSame(k) PROVE OtherKeysSame(k)'
      BY <1>1, <1>3, <3>5 DEF OtherKeysSame
    <3> QED BY <1>1, <3>1, <3>2, <3>3, <3>4, <3>5 DEF CallDone
  <2> QED BY <2>1, <2>2
<1> QED BY <1>2, <1>4, <1>5, <1>6, <1>7 DEF DiskInv

(* While mapfile_kv_emp is under way nothing is known of any key.          *)
LEMMA EmpUnsure ==
  ASSUME Inv, NEW t \in Threads, pc[t] \in Inside, call[t].op = "emp"
  PROVE  \A k \in Keys : acked[k] = Unsure
<1>1. call[t] \in Requests
  BY InCall DEF Inv
<1>2. Affected(call[t]) = Keys
  BY <1>1, AffectedIs
<1> QED BY <1>2 DEF Inv, DiskInv, PendingUnsure

(* A step of the thread inside disturbs no other thread's call.            *)
LEMMA AloneDone ==
  ASSUME Inv, OneHandle, NEW t \in Threads, pc[t] \in Inside,
         \A u \in Threads \ {t} : pc'[u] = pc[u]
  PROVE  \A u \in Threads \ {t} : CallDone(u)' /\ pc'[u] \notin Inside
<1> TAKE u \in Threads \ {t}
<1>1. pc[u] \notin Inside
  BY Exclusion DEF Inv
<1> QED BY <1>1 DEF CallDone, Inside

LEMMA WriteDisk ==
  ASSUME Hypotheses, Inv, NEW t \in Threads, Write(t)
  PROVE  DiskInv'
<1>1. /\ pc[t] = "write" /\ ~Unsaved(t) /\ t \in DOMAIN pc
      /\ UNCHANGED <<disk, emptied, call, acked>> /\ Stored' = Stored
  BY DEF Write, Inv, TypeInv, TypeOK, Stored, Unsaved
<1>2. /\ call[t] \in Requests /\ call[t].op \in {"set", "del"}
      /\ call[t].key \in Keys /\ RowOf(t) \in Rows
      /\ call[t].op = "set" => call[t].val \in Values
      /\ call[t] \in CallsOf[t]
  BY <1>1, InCall DEF Inv, TypeInv, CallKnown, Inside
<1>3. CASE file.size # "full"
  <2>1. file' = file /\ Reply(t, Failure)
    BY <1>3 DEF Write
  <2> QED BY <1>1, <2>1, GiveUp
<1>4. CASE file.size = "full"
  <2> DEFINE r == RowOf(t)
             k == call[t].key
             row == file.rows[r]
  <2>1. /\ file' = [file EXCEPT !.rows[r] = kv[t]]
        /\ pc' = [pc EXCEPT ![t] = "sync"] /\ UNCHANGED ret
    BY <1>4 DEF Write, Become
  <2>2. pc'[t] = "sync" /\ \A u \in Threads \ {t} : pc'[u] = pc[u]
    BY <1>1, <2>1 DEF Inv, TypeInv, TypeOK
  <2>3. \A u \in Threads \ {t} : CallDone(u)' /\ pc'[u] \notin Inside
    BY <1>1, <2>2, AloneDone DEF Hypotheses, Inside
  <2>4. \A u \in Threads : ~Unsaved(u)
    BY <1>1, <2>2, <2>3 DEF Unsaved, Inside
  <2>5. file.rows = Stored
    BY <2>4 DEF Inv, DiskInv, SyncedRows
  <2>6. file \in File /\ r \in Rows /\ row \in Row /\ r = hash_gen[k] /\ Shaped(row, r)
    BY <1>2 DEF Inv, TypeInv, TypeOK, File, DiskInv, RowsShaped, RowOf
  <2>7. /\ file'.size = "full" /\ file'.rows[r] = kv[t]
        /\ \A q \in Rows \ {r} : file'.rows[q] = file.rows[q]
    BY <1>4, <2>1, <2>6 DEF File
  <2>8. /\ Shaped(kv[t], r) /\ Near(kv[t], row)
        /\ Get(kv[t], k) = IF call[t].op = "set" THEN call[t].val ELSE Absent
        /\ \A x \in Keys \ {k} : hash_gen[x] = r => Get(kv[t], x) = Get(row, x)
    <3>1. CASE call[t].op = "set"
      <4>1. kv[t] = Put(row, k, call[t].val)
        BY <1>1, <3>1 DEF Inv, RowIsCurrent
      <4>2. Stop(row, k) # {}
        BY <1>1, <3>1 DEF Inv, DiskInv, CallDone
      <4> QED BY <1>2, <2>6, <3>1, <4>1, <4>2, PutDoes DEF Hypotheses
    <3>2. CASE call[t].op = "del"
      <4>1. kv[t] = Rm(row, k)
        BY <1>1, <3>2 DEF Inv, RowIsCurrent
      <4>2. \A x \in Keys : hash_gen[x] = hash_gen[k] => x = k
        BY <1>2, <3>2 DEF Hypotheses, DeletesAlone
      <4>3. kv[t] = EmptyRow /\ Near(kv[t], row)
        BY <1>2, <2>6, <4>1, <4>2, RmDoes DEF Hypotheses
      <4>4. Get(EmptyRow, k) = Absent
        BY <1>2, GetMiss DEF Hypotheses, EmptyRow
      <4> QED BY <2>6, <3>2, <4>2, <4>3, <4>4, EmptyRowShaped
    <3> QED BY <1>2, <3>1, <3>2
  <2> HIDE DEF r, row, k
  <2>9. RowsShaped' /\ NoRowsUnlessFull'
    BY <1>1, <2>7, <2>8 DEF Inv, DiskInv, RowsShaped, NoRowsUnlessFull
  <2>10. ShorterByEmp' /\ EmptiedUnsure' /\ SyncedRows'
    <3>1. Unsaved(t)'
      BY <1>1, <1>2, <2>2 DEF Unsaved
    <3> QED BY <1>1, <2>7, <3>1 DEF Inv, DiskInv, ShorterByEmp, EmptiedUnsure, SyncedRows
  <2>11. PendingUnsure'
    BY <1>1 DEF Inv, DiskInv, PendingUnsure
  <2>12. Durable'
    <3> SUFFICES ASSUME NEW x \in Keys, acked[x] # Unsure
                 PROVE  Lookup(disk, x)' = acked[x] /\ Lookup(file, x)' = acked[x]
      BY <1>1 DEF Durable
    <3>1. Lookup(disk, x) = acked[x] /\ Get(file.rows[hash_gen[x]], x) = acked[x]
      BY <1>4 DEF Inv, DiskInv, Durable, Lookup
    <3>2. k \in Affected(call[t])
      BY <1>2, AffectedIs DEF k
    <3>3. x # k
      BY <3>2 DEF Inv, DiskInv, PendingUnsure
    <3>4. Get(file'.rows[hash_gen[x]], x) = Get(file.rows[hash_gen[x]], x)
      <4>1. CASE hash_gen[x] = r
        BY <2>7, <2>8, <3>3, <4>1 DEF row
      <4>2. CASE hash_gen[x] # r
        <5>1. hash_gen[x] \in Rows
          BY DEF Rows
        <5> QED BY <2>7, <4>2, <5>1
      <4> QED BY <4>1, <4>2
    <3> QED BY <1>1, <2>7, <3>1, <3>4 DEF Lookup
  <2>13. CallDone(t)'
    <3>1. RowOf(t)' = r
      BY <1>1 DEF RowOf, r
    <3>2. Done(t)'
      BY <1>1, <1>2, <2>7, <2>8, <3>1 DEF Done, k
    <3>3. \A q \in Rows : Near(file'.rows[q], Stored'[q])
      <4> TAKE q \in Rows
      <4>1. CASE q = r
        BY <1>1, <2>5, <2>7, <2>8, <4>1 DEF row
      <4>2. CASE q # r
        BY <1>1, <2>5, <2>7, <4>2 DEF Near
      <4> QED BY <4>1, <4>2
    <3>4. OtherKeysSame(k)'
      <4> SUFFICES ASSUME NEW x \in Keys \ {k}
                   PROVE  Get(file'.rows[hash_gen[x]], x) = Get(Stored[hash_gen[x]], x)
        BY <1>1 DEF OtherKeysSame, k
      <4>1. CASE hash_gen[x] = r
        BY <2>5, <2>7, <2>8, <4>1 DEF row
      <4>2. CASE hash_gen[x] # r
        <5>1. hash_gen[x] \in Rows
          BY DEF Rows
        <5> QED BY <2>5, <2>7, <4>2, <5>1
      <4> QED BY <4>1, <4>2
    <3> QED BY <1>1, <2>2, <2>7, <3>2, <3>3, <3>4 DEF CallDone, k
  <2> QED BY <2>3, <2>9, <2>10, <2>11, <2>12, <2>13 DEF DiskInv
<1> QED BY <1>3, <1>4

LEMMA SyncDisk ==
  ASSUME Hypotheses, Inv, NEW t \in Threads, Sync(t)
  PROVE  DiskInv'
<1>1. /\ pc[t] = "sync" /\ disk' = file /\ ~emptied' /\ UNCHANGED <<file, call, acked>>
      /\ pc' = [pc EXCEPT ![t] = "unlock"]
  BY DEF Sync, Reply, Become
<1>2. pc'[t] = "unlock" /\ \A u \in Threads \ {t} : pc'[u] = pc[u]
  BY <1>1 DEF Inv, TypeInv, TypeOK
<1>3. \A u \in Threads \ {t} : CallDone(u)' /\ pc'[u] \notin Inside
  BY <1>1, <1>2, AloneDone DEF Hypotheses, Inside
<1>4. file.size = "full" /\ Done(t)
  BY <1>1 DEF Inv, DiskInv, CallDone
<1>5. RowsShaped' /\ NoRowsUnlessFull' /\ PendingUnsure'
  BY <1>1 DEF Inv, DiskInv, RowsShaped, NoRowsUnlessFull, PendingUnsure
<1>6. ShorterByEmp' /\ EmptiedUnsure' /\ SyncedRows'
  BY <1>1, <1>4 DEF ShorterByEmp, EmptiedUnsure, SyncedRows, Stored
<1>7. Durable'
  BY <1>1, <1>4 DEF Inv, DiskInv, Durable, Lookup
<1>8. CallDone(t)'
  <2>1. RowOf(t)' = RowOf(t)
    BY <1>1 DEF RowOf
  <2>2. Done(t)'
    BY <1>1, <1>4, <2>1 DEF Done
  <2>3. ret'[t] \notin {NoReply, Underway}
    BY RepliesAreAnswers DEF Sync, Reply, Inv, TypeInv, TypeOK
  <2> QED BY <1>1, <1>2, <1>4, <2>2, <2>3 DEF CallDone
<1> QED BY <1>3, <1>5, <1>6, <1>7, <1>8 DEF DiskInv

LEMMA EmpDisk ==
  ASSUME Hypotheses, Inv, NEW t \in Threads, EmpClear(t) \/ EmpExtend(t)
  PROVE  DiskInv'
<1>1. /\ pc[t] \in {"fopen", "truncate"} /\ UNCHANGED <<disk, call, acked>>
      /\ \/ /\ file'.size = "short" /\ pc' = [pc EXCEPT ![t] = "truncate"] /\ emptied'
         \/ /\ file'.size = "full" /\ pc' = [pc EXCEPT ![t] = "sync"]
            /\ UNCHANGED emptied /\ file.rows = EmptyRows
      /\ file'.rows = EmptyRows
  BY DEF EmpClear, EmpExtend, Become, Inv, TypeInv, TypeOK, File, DiskInv, CallDone
<1>2. /\ pc'[t] \in {"truncate", "sync"}
      /\ pc'[t] = "sync" <=> file'.size = "full"
      /\ \A u \in Threads \ {t} : pc'[u] = pc[u]
  BY <1>1 DEF Inv, TypeInv, TypeOK
<1>3. \A u \in Threads \ {t} : CallDone(u)' /\ pc'[u] \notin Inside
  BY <1>1, <1>2, AloneDone DEF Hypotheses, Inside
<1>4. call[t].op = "emp" /\ pc[t] \in Inside
  BY <1>1 DEF Inv, TypeInv, CallKnown, Inside
<1>5. RowsShaped'
  BY <1>1, EmptyRowShaped DEF Inv, DiskInv, RowsShaped, EmptyRows
<1>6. NoRowsUnlessFull' /\ PendingUnsure'
  BY <1>1 DEF Inv, DiskInv, NoRowsUnlessFull, PendingUnsure
<1>7. ShorterByEmp' /\ EmptiedUnsure'
  BY <1>1, <1>4, EmpUnsure DEF Inv, DiskInv, ShorterByEmp, EmptiedUnsure
<1>8. SyncedRows'
  <2>1. CASE emptied'
    BY <1>1, <2>1 DEF SyncedRows, Stored
  <2>2. CASE ~emptied'
    <3>1. \A u \in Threads : ~Unsaved(u)
      BY <1>2, <1>3, <1>4 DEF Unsaved, Inside
    <3>2. UNCHANGED emptied /\ Stored' = Stored /\ file'.rows = file.rows
      BY <1>1, <2>2 DEF Stored
    <3> QED BY <3>1, <3>2 DEF Inv, DiskInv, SyncedRows
  <2> QED BY <2>1, <2>2
<1>9. Durable'
  BY <1>1, <1>4, EmpUnsure DEF Durable
<1>10. CallDone(t)'
  BY <1>1, <1>2, <1>4 DEF CallDone, Done
<1> QED BY <1>3, <1>5, <1>6, <1>7, <1>8, <1>9, <1>10 DEF DiskInv

LEMMA ErrorDisk ==
  ASSUME Inv, NEW t \in Threads, WriteError(t) \/ EmpError(t)
  PROVE  DiskInv'
<1>1. /\ Reply(t, Error) /\ ~Unsaved(t)
      /\ UNCHANGED <<file, disk, emptied, acked, call>>
  BY DEF WriteError, EmpError, Unsaved
<1> QED BY <1>1, GiveUp

LEMMA ReturnDisk ==
  ASSUME Hypotheses, Inv, NEW t \in Threads, Return(t)
  PROVE  DiskInv'
<1> DEFINE settled == {k \in Affected(call[t]) : \A u \in Threads \ {t} :
                                                   k \notin Affected(call[u])}
<1>1. /\ pc[t] = "unlock" /\ pc' = [pc EXCEPT ![t] = "idle"]
      /\ call' = [call EXCEPT ![t] = NoCall]
      /\ UNCHANGED <<file, disk, emptied>> /\ Stored' = Stored
      /\ acked' = [k \in Keys |->
                     IF k \notin settled \/ ~ret[t].ok THEN acked[k]
                     ELSE IF call[t].op = "set" THEN call[t].val ELSE Absent]
  BY DEF Return, Become, Stored
<1>2. /\ pc'[t] = "idle" /\ call'[t] = NoCall
      /\ \A u \in Threads \ {t} : pc'[u] = pc[u] /\ call'[u] = call[u]
  BY <1>1 DEF Inv, TypeInv, TypeOK
<1>3. \A u \in Threads \ {t} : CallDone(u)' /\ pc'[u] \notin Inside
  BY <1>1, <1>2, AloneDone DEF Hypotheses, Inside
<1>4. call[t] \in Requests /\ pc[t] \in Inside
  BY <1>1, InCall DEF Inv, Inside
<1>5. \A u \in Threads : ~Unsaved(u)
  BY <1>1, <1>2, <1>3 DEF Unsaved, Inside
<1>6. file.rows = Stored
  BY <1>5 DEF Inv, DiskInv, SyncedRows
<1>7. RowsShaped' /\ NoRowsUnlessFull' /\ ShorterByEmp' /\ SyncedRows'
  BY <1>1, <1>6 DEF Inv, DiskInv, RowsShaped, NoRowsUnlessFull, ShorterByEmp, SyncedRows
<1>8. EmptiedUnsure'
  <2> SUFFICES ASSUME emptied, NEW k \in Keys PROVE acked'[k] = Unsure
    BY <1>1 DEF EmptiedUnsure
  <2>1. acked[k] = Unsure
    BY DEF Inv, DiskInv, EmptiedUnsure
  <2>2. ret[t].ok => call[t].op = "get"
    BY <1>1 DEF Inv, DiskInv, CallDone
  <2>3. call[t].op = "get" => settled = {}
    BY <1>4, AffectedIs
  <2> HIDE DEF settled
  <2> QED BY <1>1, <2>1, <2>2, <2>3
<1>9. PendingUnsure'
  <2> SUFFICES ASSUME NEW u \in Threads, NEW k \in Affected(call'[u])
               PROVE  acked'[k] = Unsure
    BY DEF PendingUnsure
  <2>1. u # t
    BY <1>2, AffectedIs DEF NoCall
  <2>2. k \in Affected(call[u]) /\ call[u] \in Requests \cup {NoCall}
    BY <1>2, <2>1 DEF Inv, TypeInv, TypeOK
  <2>3. k \in Keys
    BY <2>2, AffectedIs, RequestFields DEF NoCall
  <2>4. k \notin settled
    BY <2>1, <2>2
  <2>5. acked[k] = Unsure
    BY <2>2 DEF Inv, DiskInv, PendingUnsure
  <2> HIDE DEF settled
  <2> QED BY <1>1, <2>3, <2>4, <2>5
<1>10. Durable'
  <2> SUFFICES ASSUME NEW k \in Keys, acked'[k] # Unsure
               PROVE  /\ Lookup(disk, k) = acked'[k]
                      /\ file.size = "full" => Lookup(file, k) = acked'[k]
    BY <1>1 DEF Durable, Lookup
  <2>1. CASE k \notin settled \/ ~ret[t].ok
    <3>1. acked'[k] = acked[k]
      BY <1>1, <2>1
    <3> QED BY <3>1 DEF Inv, DiskInv, Durable
  <2>2. CASE k \in settled /\ ret[t].ok
    <3>1. acked'[k] = IF call[t].op = "set" THEN call[t].val ELSE Absent
      BY <1>1, <2>2
    <3>2. k \in Affected(call[t])
      BY <2>2
    <3>3. call[t].op # "get" /\ (call[t].op # "emp" => k = call[t].key)
      BY <1>4, <3>2, AffectedIs, RequestFields
    <3>4. Done(t) /\ file.size = "full" /\ disk.size = "full" /\ ~emptied
      BY <1>1, <2>2, <3>3 DEF Inv, DiskInv, CallDone
    <3>5. Get(file.rows[hash_gen[k]], k) = acked'[k]
      <4>1. CASE call[t].op = "emp"
        <5>1. file.rows[hash_gen[k]] = EmptyRow
          BY <3>4, <4>1 DEF Done, EmptyRows, Rows
        <5>2. Get(EmptyRow, k) = Absent
          BY GetMiss DEF Hypotheses, EmptyRow
        <5> QED BY <3>1, <4>1, <5>1, <5>2
      <4>2. CASE call[t].op # "emp"
        BY <3>1, <3>3, <3>4, <4>2 DEF Done, RowOf
      <4> QED BY <4>1, <4>2
    <3> QED BY <1>6, <3>4, <3>5 DEF Lookup, Stored
  <2> QED BY <2>1, <2>2
<1>11. CallDone(t)'
  BY <1>2 DEF CallDone
<1> QED BY <1>3, <1>7, <1>8, <1>9, <1>10, <1>11 DEF DiskInv

(* A power failure leaves what was on the disk, or of each row what the    *)
(* file held or what would be left of it.                                  *)
LEMMA CrashRows ==
  ASSUME Inv, PowerFailure
  PROVE  /\ file \in File /\ disk \in File /\ file' \in File
         /\ disk' = file' /\ ~emptied'
         /\ \/ file' = disk
            \/ /\ file'.size \in {file.size, IF emptied THEN "short" ELSE disk.size}
               /\ file'.size # "full" => file'.rows = EmptyRows
               /\ file'.size = "full" =>
                    \A r \in Rows : file'.rows[r] \in {file.rows[r], Stored[r]}
<1>1. file \in File /\ disk \in File /\ file' \in File /\ disk' = file' /\ ~emptied'
  BY CrashTypes DEF Inv, TypeInv, TypeOK, PowerFailure
<1>2. CASE file' = disk
  BY <1>1, <1>2
<1>3. CASE file' # disk
  <2>1. PICK size \in {file.size, IF emptied THEN "short" ELSE disk.size},
             cached \in SUBSET Unsynced :
          file' = [size |-> size,
                   rows |-> [r \in Rows |-> [j \in Slots |->
                      IF size # "full" THEN Hole
                      ELSE IF <<r, j>> \in cached THEN file.rows[r][j]
                      ELSE Stored[r][j]]]]
    BY <1>3 DEF PowerFailure
  <2>2. file'.size = size /\ (size # "full" => file'.rows = EmptyRows)
    BY <2>1 DEF EmptyRows, EmptyRow
  <2>3. ASSUME NEW r \in Rows, size = "full"
        PROVE  file'.rows[r] \in {file.rows[r], Stored[r]}
    <3> DEFINE F == file.rows[r]
               D == Stored[r]
               M == file'.rows[r]
    <3>1. F \in Row /\ D \in Row /\ M \in Row
      BY <1>1, StoredType DEF File, Inv
    <3>2. \A j \in Slots : M[j] \in {F[j], D[j]}
      BY <2>1, <2>3
    <3>3. Near(F, D)
      <4>1. CASE \E t \in Threads : Unsaved(t)
        BY <4>1 DEF Unsaved, Inv, DiskInv, CallDone
      <4>2. CASE \A t \in Threads : ~Unsaved(t)
        BY <4>2 DEF Inv, DiskInv, SyncedRows, Near
      <4> QED BY <4>1, <4>2
    <3> HIDE DEF F, D, M
    <3>4. M \in {F, D}
      BY <3>1, <3>2, <3>3, MixOfNear
    <3> QED BY <3>4 DEF F, D, M
  <2> QED BY <1>1, <2>1, <2>2, <2>3
<1> QED BY <1>2, <1>3

(* Where nothing has been emptied, file and disk answer for every known    *)
(* key, and so does each mixture of them.                                  *)
LEMMA CrashDisk ==
  ASSUME Hypotheses, Inv, PowerFailure
  PROVE  DiskInv'
<1>1. /\ disk' = file' /\ ~emptied' /\ UNCHANGED acked
      /\ pc' = [t \in Threads |-> "idle"]
      /\ call' = [t \in Threads |-> NoCall]
  BY DEF PowerFailure
<1>2. \/ file' = disk
      \/ /\ file'.size \in {file.size, IF emptied THEN "short" ELSE disk.size}
         /\ file'.size # "full" => file'.rows = EmptyRows
         /\ file'.size = "full" =>
              \A r \in Rows : file'.rows[r] \in {file.rows[r], Stored[r]}
  BY CrashRows
<1>3. \A r \in Rows : Shaped(Stored[r], r)
  BY EmptyRowShaped DEF Inv, DiskInv, RowsShaped, Stored, EmptyRows
<1>4. RowsShaped' /\ NoRowsUnlessFull'
  <2>1. CASE file' = disk
    BY <1>1, <2>1 DEF Inv, DiskInv, RowsShaped, NoRowsUnlessFull
  <2>2. CASE file'.size # "full" /\ file'.rows = EmptyRows
    BY <1>1, <2>2, EmptyRowShaped DEF RowsShaped, NoRowsUnlessFull, EmptyRows
  <2>3. CASE /\ file'.size = "full"
             /\ \A r \in Rows : file'.rows[r] \in {file.rows[r], Stored[r]}
    BY <1>1, <1>3, <2>3 DEF Inv, DiskInv, RowsShaped, NoRowsUnlessFull
  <2> QED BY <1>2, <2>1, <2>2, <2>3
<1>5. ShorterByEmp' /\ EmptiedUnsure' /\ SyncedRows'
  BY <1>1 DEF ShorterByEmp, EmptiedUnsure, SyncedRows, Stored
<1>6. PendingUnsure'
  BY <1>1, AffectedIs DEF PendingUnsure, NoCall
<1>7. Durable'
  <2> SUFFICES ASSUME NEW k \in Keys, acked[k] # Unsure
               PROVE  Lookup(file', k) = acked[k]
    BY <1>1 DEF Durable, Lookup
  <2> DEFINE r == hash_gen[k]
  <2>1. ~emptied /\ r \in Rows /\ Stored = disk.rows
    BY DEF Inv, DiskInv, EmptiedUnsure, Rows, Stored
  <2>2. /\ Lookup(disk, k) = acked[k]
        /\ file.size = "full" => Lookup(file, k) = acked[k]
    BY DEF Inv, DiskInv, Durable
  <2>3. disk.size = "full" => file.size = "full"
    BY <2>1 DEF Inv, DiskInv, ShorterByEmp
  <2>4. CASE file' = disk
    BY <2>2, <2>4
  <2>5. CASE file' # disk /\ file'.size # "full"
    <3>1. disk.size # "full"
      BY <1>2, <2>1, <2>3, <2>5
    <3> QED BY <2>2, <2>5, <3>1 DEF Lookup
  <2>6. CASE file' # disk /\ file'.size = "full"
    <3>1. file.size = "full"
      BY <1>2, <2>1, <2>3, <2>6
    <3>2. Get(file.rows[r], k) = acked[k]
      BY <2>2, <3>1 DEF Lookup
    <3>3. Get(disk.rows[r], k) = acked[k]
      <4>1. CASE disk.size = "full"
        BY <2>2, <4>1 DEF Lookup
      <4>2. CASE disk.size # "full"
        <5>1. acked[k] = Absent
          BY <2>2, <4>2 DEF Lookup
        <5>2. disk.rows[r] = EmptyRow
          BY <2>1, <4>2 DEF Inv, DiskInv, NoRowsUnlessFull, EmptyRows
        <5>3. Get(EmptyRow, k) = Absent
          BY GetMiss DEF Hypotheses, EmptyRow
        <5> QED BY <5>1, <5>2, <5>3
      <4> QED BY <4>1, <4>2
    <3>4. file'.rows[r] \in {file.rows[r], disk.rows[r]}
      BY <1>2, <2>1, <2>6
    <3> QED BY <2>6, <3>2, <3>3, <3>4 DEF Lookup
  <2> QED BY <2>4, <2>5, <2>6
<1>8. \A t \in Threads : CallDone(t)'
  BY <1>1 DEF CallDone
<1> QED BY <1>4, <1>5, <1>6, <1>7, <1>8 DEF DiskInv

LEMMA StutterDisk ==
  ASSUME DiskInv, UNCHANGED vars
  PROVE  DiskInv'
<1>1. UNCHANGED <<file, disk, emptied, pc, call, ret, acked>> /\ Stored' = Stored
  BY DEF vars, Stored
<1>2. ASSUME NEW t \in Threads PROVE CallDone(t)' /\ Unsaved(t)' = Unsaved(t)
  <2>1. RowOf(t)' = RowOf(t)
    BY <1>1 DEF RowOf
  <2>2. Done(t)' = Done(t) /\ \A k : OtherKeysSame(k)' = OtherKeysSame(k)
    BY <1>1, <2>1 DEF Done, OtherKeysSame
  <2> QED BY <1>1, <2>1, <2>2 DEF DiskInv, CallDone, Unsaved
<1> QED BY <1>1, <1>2 DEF DiskInv, RowsShaped, NoRowsUnlessFull, ShorterByEmp,
                          EmptiedUnsure, PendingUnsure, SyncedRows, Durable, Lookup

LEMMA NextDisk == Hypotheses /\ Inv /\ [Next]_vars => DiskInv'
<1> SUFFICES ASSUME Hypotheses, Inv, [Next]_vars PROVE DiskInv'
  OBVIOUS
<1>1. ASSUME NEW t \in Threads, Opening(t) PROVE DiskInv'
  BY <1>1, OpeningDisk
<1>2. ASSUME NEW t \in Threads, Lock(t) PROVE DiskInv'
  BY <1>2, LockDisk
<1>3. ASSUME NEW t \in Threads, Locked(t) PROVE DiskInv'
  BY <1>3, ReadDisk, WriteDisk, SyncDisk, EmpDisk, ErrorDisk, ReturnDisk DEF Locked
<1>4. ASSUME NEW t \in Threads, NEW c \in CallsOf[t], Call(t, c) PROVE DiskInv'
  BY <1>4, CallDisk
<1>5. CASE PowerFailure
  BY <1>5, CrashDisk
<1>6. CASE UNCHANGED vars
  BY <1>6, StutterDisk DEF Inv
<1> QED BY <1>1, <1>2, <1>3, <1>4, <1>5, <1>6 DEF Next

(* The inductive invariant of the key-value file.                          *)
THEOREM FileInvariant == Hypotheses => (Spec => []Inv)
<1> SUFFICES ASSUME Hypotheses PROVE Spec => []Inv
  OBVIOUS
<1>1. Init => Inv
  BY InitTypes, InitDisk DEF Inv, Init, RowIsCurrent, Hypotheses
<1>2. Inv /\ [Next]_vars => Inv'
  BY NextTypes, NextCurrent, NextDisk DEF Inv, Hypotheses
<1> QED BY <1>1, <1>2, PTL DEF Spec

(* What has been acknowledged survives any power failure, when the threads *)
(* that make calls share a handle, no key is a prefix of another and       *)
(* deleted keys have their rows to themselves.                             *)
THEOREM AcknowledgedIsDurable == Hypotheses => (Spec => []Durable)
<1>1. Inv => Durable
  BY DEF Inv, DiskInv
<1> QED BY <1>1, FileInvariant, PTL
=============================================================================
