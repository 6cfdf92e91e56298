------------------------------ MODULE Mapfile ------------------------------
(***************************************************************************)
(* mapfile.c: a hash table of key-value pairs kept in a file.  A row of    *)
(* the file holds TABLE_ROW_SIZE slots; set and del read the row of a key, *)
(* change it in memory and write it back, under the mutex of the handle    *)
(* the caller opened.  Each access to the file is an action.               *)
(*                                                                         *)
(* A key is a model value: hash_gen gives its row and PrefixOf tells which *)
(* keys it is a prefix of, for memcmp(..., strlen(key)) compares no more.  *)
(* A slot is written whole; values longer than ITEM_MAX_VAL_LEN, buffers   *)
(* shorter than the value and arguments that are NULL are left out.        *)
(*                                                                         *)
(* malloc, open, fstat, lseek, read, ftruncate, fopen, truncate and fsync  *)
(* may fail, wherever the code looks at their results.  It returns -1 then *)
(* as it does for a key that is not there; the model tells Error from      *)
(* Failure, to hold every other -1 to its reason.                          *)
(***************************************************************************)
EXTENDS Naturals

CONSTANTS
  Threads, Handles,
  HandleOf,        \* the kv_file_t each thread uses
  Keys, Values,
  Absent,          \* what is found for a key that is not stored
  Hole,            \* a slot with value_len 0
  hash_gen,        \* the row of a key
  PrefixOf,        \* PrefixOf[k]: the keys that begin with k, k among them
  TABLE_ROW_SIZE,  \* slots of a row
  CallsOf,         \* bound: the calls that each thread makes
  MaxCrashes       \* bound: power failures

NoThread == "none"

(* The arguments of the calls.                                             *)
Requests == [op : {"set"}, key : Keys, val : Values]
              \cup [op : {"get", "del"}, key : Keys] \cup [op : {"emp"}]

ASSUME ConstantsAssumption ==
  /\ HandleOf \in [Threads -> Handles]
  /\ PrefixOf \in [Keys -> SUBSET Keys]
  /\ \A k \in Keys : k \in PrefixOf[k]
  /\ TABLE_ROW_SIZE \in Nat \ {0}
  /\ MaxCrashes \in Nat
  /\ NoThread \notin Threads
  /\ Absent \notin Values \cup {"pending", "underway", "error"}
  /\ Hole \notin [key : Keys, val : Values]
  /\ CallsOf \in [Threads -> SUBSET Requests]

Rows  == {hash_gen[k] : k \in Keys}
Slots == 1 .. TABLE_ROW_SIZE
Item  == [key : Keys, val : Values]
Row   == [Slots -> Item \cup {Hole}]
File  == [size : {"none", "short", "full"}, rows : [Rows -> Row]]

EmptyRow  == [j \in Slots |-> Hole]
EmptyRows == [r \in Rows |-> EmptyRow]

NoCall  == [op |-> "none"]
NoReply  == [ok |-> FALSE, val |-> "pending"]
Underway == [ok |-> FALSE, val |-> "underway"]
Success == [ok |-> TRUE, val |-> Absent]
Failure == [ok |-> FALSE, val |-> Absent]
Error   == [ok |-> FALSE, val |-> "error"]

VARIABLES
  file,     \* the file as processes see it: its size and rows
  disk,     \* what of it would survive a power failure
  emptied,  \* the file's blocks have been given up, and that is not on disk
  opened,   \* handles that mapfile_kv_open has returned
  lock,     \* the mutex of each handle
  pc,       \* where a thread is in a call
  call,     \* its arguments
  kv,       \* the row it has read, or is about to write
  ret,      \* what it is about to return
  crashes,  \* power failures so far
  acked     \* history: what each key was last set to and acknowledged as,
            \* or Unsure while a call that could change it is under way

Unsure == "unsure"

vars == <<file, disk, emptied, opened, lock, pc, call, kv, ret, crashes, acked>>

Init ==
  /\ file = [size |-> "none", rows |-> EmptyRows]
  /\ disk = file
  /\ emptied = FALSE
  /\ opened = {}
  /\ lock = [h \in Handles |-> NoThread]
  /\ pc = [t \in Threads |-> "idle"]
  /\ call = [t \in Threads |-> NoCall]
  /\ kv = [t \in Threads |-> EmptyRow]
  /\ ret = [t \in Threads |-> NoReply]
  /\ crashes = 0
  /\ acked = [k \in Keys |-> Absent]

-----------------------------------------------------------------------------
(* The loops over a row.  They end at the first empty slot, and compare no *)
(* more of a stored key than the length of the key they look for.          *)

Matches(k, slot) == slot # Hole /\ slot.key \in PrefixOf[k]

(* The slot where put and get stop: empty or matching; none if all are     *)
(* taken by other keys.                                                    *)
Stop(row, k) == {j \in Slots :
                   /\ row[j] = Hole \/ Matches(k, row[j])
                   /\ \A l \in 1 .. j - 1 : row[l] # Hole /\ ~Matches(k, row[l])}

(* Mutant of Put: the row is written with a slot too many.                 *)
PutPastEnd(row, k, v) ==
  [j \in 1 .. TABLE_ROW_SIZE + 1 |->
     IF j \in Slots /\ (j \notin Stop(row, k)) THEN row[j] ELSE [key |-> k, val |-> v]]

(* hash_table_put: a matching slot keeps its key and gets the value.       *)
Put(row, k, v) ==
  [j \in Slots |-> IF j \notin Stop(row, k) THEN row[j]
                   ELSE IF row[j] = Hole THEN [key |-> k, val |-> v]
                   ELSE [row[j] EXCEPT !.val = v]]

(* hash_table_get                                                          *)
Get(row, k) ==
  LET hits == {j \in Stop(row, k) : row[j] # Hole}
  IN IF hits = {} THEN Absent ELSE row[CHOOSE j \in hits : TRUE].val

(* hash_table_rm: every match before the first empty slot is cleared.      *)
Rm(row, k) ==
  [j \in Slots |-> IF /\ \A l \in 1 .. j : row[l] # Hole
                      /\ Matches(k, row[j])
                   THEN Hole ELSE row[j]]

-----------------------------------------------------------------------------
(* mapfile_kv_open                                                         *)

Become(t, label) == pc' = [pc EXCEPT ![t] = label]

(* One thread opens a handle for all those that share it.  The file is     *)
(* there, of whatever size (a wrong one is only logged), or is created   *)
(* empty: access, then open with O_CREAT.                                  *)
Open(t) ==
  LET h == HandleOf[t] IN
  /\ pc[t] = "idle" /\ h \notin opened
  /\ \A u \in Threads : HandleOf[u] = h => pc[u] = "idle"
  /\ IF file.size = "none"
     THEN Become(t, "create") /\ UNCHANGED opened
     ELSE opened' = opened \cup {h} /\ UNCHANGED pc
  /\ UNCHANGED <<file, disk, emptied, lock, call, kv, ret, crashes, acked>>

(* Mutant of Create: a file that another process has made meanwhile is     *)
(* truncated.                                                              *)
CreateTruncate(t) ==
  /\ pc[t] = "create"
  /\ file' = [size |-> "short", rows |-> EmptyRows]
  /\ emptied' = TRUE
  /\ Become(t, "ftruncate")
  /\ UNCHANGED <<disk, opened, lock, call, kv, ret, crashes, acked>>

Create(t) ==
  /\ pc[t] = "create"
  /\ file' = IF file.size = "none" THEN [file EXCEPT !.size = "short"] ELSE file
  /\ Become(t, "ftruncate")
  /\ UNCHANGED <<disk, emptied, opened, lock, call, kv, ret, crashes, acked>>

(* ftruncate extends a short file with empty rows.                         *)
CreateExtend(t) ==
  /\ pc[t] = "ftruncate"
  /\ file' = [file EXCEPT !.size = "full"]
  /\ Become(t, "fsync")
  /\ UNCHANGED <<disk, emptied, opened, lock, call, kv, ret, crashes, acked>>

CreateSync(t) ==
  /\ pc[t] = "fsync"
  /\ disk' = file /\ emptied' = FALSE
  /\ opened' = opened \cup {HandleOf[t]}
  /\ Become(t, "idle")
  /\ UNCHANGED <<file, lock, call, kv, ret, crashes, acked>>

(* open, ftruncate or fsync fails: no handle, and the file stays as it is. *)
OpenFails(t) ==
  /\ pc[t] \in {"create", "ftruncate", "fsync"}
  /\ Become(t, "idle")
  /\ UNCHANGED <<file, disk, emptied, opened, lock, call, kv, ret, crashes, acked>>

-----------------------------------------------------------------------------
(* mapfile_kv_set, mapfile_kv_get, mapfile_kv_del, mapfile_kv_emp          *)

RowOf(t) == hash_gen[call[t].key]

(* The keys a call may change.                                             *)
Affected(c) == CASE c.op \in {"set", "del"} -> {c.key}
                 [] c.op = "emp" -> Keys
                 [] OTHER -> {}

Call(t, c) ==
  /\ pc[t] = "idle" /\ HandleOf[t] \in opened
  /\ call' = [call EXCEPT ![t] = c]
  /\ Become(t, "lock")
  /\ acked' = [k \in Keys |-> IF k \in Affected(c) THEN Unsure ELSE acked[k]]
  /\ UNCHANGED <<file, disk, emptied, opened, lock, kv, ret, crashes>>

(* Mutant of Lock: the mutex is not waited for.                            *)
LockAnyway(t) ==
  /\ pc[t] = "lock"
  /\ lock' = [lock EXCEPT ![HandleOf[t]] = t]
  /\ Become(t, IF call[t].op = "emp" THEN "fopen" ELSE "read")
  /\ UNCHANGED <<file, disk, emptied, opened, call, kv, ret, crashes, acked>>

Lock(t) ==
  /\ pc[t] = "lock"
  /\ lock[HandleOf[t]] = NoThread
  /\ lock' = [lock EXCEPT ![HandleOf[t]] = t]
  /\ Become(t, IF call[t].op = "emp" THEN "fopen" ELSE "read")
  /\ UNCHANGED <<file, disk, emptied, opened, call, kv, ret, crashes, acked>>

(* Give up or finish: the unlock and the return are still to come.         *)
Reply(t, r) == ret' = [ret EXCEPT ![t] = r] /\ Become(t, "unlock")

(* malloc, or open, fstat, lseek or read in read_kv_item, fails.           *)
ReadError(t) ==
  /\ pc[t] = "read"
  /\ Reply(t, Error)
  /\ UNCHANGED <<file, disk, emptied, opened, lock, call, kv, crashes, acked>>

(* read_kv_item, then the search of the row.  The file may be too short.   *)
ReadFails(t) ==
  /\ pc[t] = "read" /\ file.size # "full"
  /\ Reply(t, Failure)
  /\ UNCHANGED <<file, disk, emptied, opened, lock, call, kv, crashes, acked>>

ReadForGet(t) ==
  LET v == Get(file.rows[RowOf(t)], call[t].key) IN
  /\ pc[t] = "read" /\ file.size = "full" /\ call[t].op = "get"
  /\ Reply(t, IF v = Absent THEN Failure ELSE [ok |-> TRUE, val |-> v])
  /\ UNCHANGED <<file, disk, emptied, opened, lock, call, kv, crashes, acked>>

(* Every slot holds another key: "hash row full".                          *)
ReadRowFull(t) ==
  /\ pc[t] = "read" /\ file.size = "full" /\ call[t].op = "set"
  /\ Stop(file.rows[RowOf(t)], call[t].key) = {}
  /\ Reply(t, Failure)
  /\ UNCHANGED <<file, disk, emptied, opened, lock, call, kv, crashes, acked>>

ReadForSet(t) ==
  LET row == file.rows[RowOf(t)] IN
  /\ pc[t] = "read" /\ file.size = "full" /\ call[t].op = "set"
  /\ Stop(row, call[t].key) # {}
  /\ kv' = [kv EXCEPT ![t] = Put(row, call[t].key, call[t].val)]
  /\ Become(t, "write")
  /\ UNCHANGED <<file, disk, emptied, opened, lock, call, ret, crashes, acked>>

ReadForDel(t) ==
  /\ pc[t] = "read" /\ file.size = "full" /\ call[t].op = "del"
  /\ kv' = [kv EXCEPT ![t] = Rm(file.rows[RowOf(t)], call[t].key)]
  /\ Become(t, "write")
  /\ UNCHANGED <<file, disk, emptied, opened, lock, call, ret, crashes, acked>>

(* write_kv_item writes the whole row.                                     *)
Write(t) ==
  /\ pc[t] = "write"
  /\ IF file.size = "full"
     THEN /\ file' = [file EXCEPT !.rows[RowOf(t)] = kv[t]]
          /\ Become(t, "sync")
          /\ UNCHANGED ret
     ELSE Reply(t, Failure) /\ UNCHANGED file
  /\ UNCHANGED <<disk, emptied, opened, lock, call, kv, crashes, acked>>

(* open, fstat, lseek or write in write_kv_item fails, with nothing        *)
(* written.                                                                *)
WriteError(t) ==
  /\ pc[t] = "write"
  /\ Reply(t, Error)
  /\ UNCHANGED <<file, disk, emptied, opened, lock, call, kv, crashes, acked>>

(* Mutant of Sync: the row stays in the page cache.                        *)
SyncNothing(t) ==
  /\ pc[t] = "sync"
  /\ Reply(t, Success)
  /\ UNCHANGED <<file, disk, emptied, opened, lock, call, kv, crashes, acked>>

Sync(t) ==
  /\ pc[t] = "sync"
  /\ disk' = file /\ emptied' = FALSE
  /\ Reply(t, Success)
  /\ UNCHANGED <<file, opened, lock, call, kv, crashes, acked>>

(* mapfile_kv_emp: fopen with "w" empties the file, truncate extends it.   *)
EmpClear(t) ==
  /\ pc[t] = "fopen"
  /\ file' = [size |-> "short", rows |-> EmptyRows]
  /\ emptied' = TRUE
  /\ Become(t, "truncate")
  /\ UNCHANGED <<disk, opened, lock, call, kv, ret, crashes, acked>>

EmpExtend(t) ==
  /\ pc[t] = "truncate"
  /\ file' = [file EXCEPT !.size = "full"]
  /\ Become(t, "sync")
  /\ UNCHANGED <<disk, emptied, opened, lock, call, kv, ret, crashes, acked>>

(* fopen, truncate or fsync fails, and the file stays as it is: after      *)
(* truncate too short to be used, after fsync empty but not on the disk.   *)
EmpError(t) ==
  /\ pc[t] \in {"fopen", "truncate", "sync"} /\ call[t].op = "emp"
  /\ Reply(t, Error)
  /\ UNCHANGED <<file, disk, emptied, opened, lock, call, kv, crashes, acked>>

(* Unlock and return.  What was done is known unless another call that     *)
(* could change the same key is under way.                                 *)
Return(t) ==
  LET c == call[t]
      settled == {k \in Affected(c) : \A u \in Threads \ {t} :
                                        k \notin Affected(call[u])}
  IN /\ pc[t] = "unlock"
     /\ lock' = [lock EXCEPT ![HandleOf[t]] = NoThread]
     /\ acked' = [k \in Keys |->
                   IF k \notin settled \/ ~ret[t].ok THEN acked[k]
                   ELSE IF c.op = "set" THEN c.val ELSE Absent]
     /\ call' = [call EXCEPT ![t] = NoCall]
     /\ ret' = [ret EXCEPT ![t] = NoReply]
     /\ kv' = [kv EXCEPT ![t] = EmptyRow]
     /\ Become(t, "idle")
     /\ UNCHANGED <<file, disk, emptied, opened, crashes>>

-----------------------------------------------------------------------------
(* The environment: a power failure.  What was not synced may or may not   *)
(* have reached the disk, size and slots one by one; but a file that has   *)
(* been emptied keeps all its old blocks or none.                          *)
Stored == IF emptied THEN EmptyRows ELSE disk.rows

Unsynced == {s \in Rows \X Slots : file.rows[s[1]][s[2]] # Stored[s[1]][s[2]]}

PowerFailure ==
  /\ crashes < MaxCrashes
  /\ crashes' = crashes + 1
  /\ \/ file' = disk
     \/ \E size \in {file.size, IF emptied THEN "short" ELSE disk.size} :
        \E cached \in SUBSET Unsynced :
          file' = [size |-> size,
                   rows |-> [r \in Rows |-> [j \in Slots |->
                      IF size # "full" THEN Hole
                      ELSE IF <<r, j>> \in cached THEN file.rows[r][j]
                      ELSE Stored[r][j]]]]
  /\ disk' = file' /\ emptied' = FALSE
  /\ opened' = {}
  /\ lock' = [h \in Handles |-> NoThread]
  /\ pc' = [t \in Threads |-> "idle"]
  /\ call' = [t \in Threads |-> NoCall]
  /\ ret' = [t \in Threads |-> NoReply]
  /\ kv' = [t \in Threads |-> EmptyRow]
  /\ UNCHANGED acked

-----------------------------------------------------------------------------
Opening(t) ==
  Open(t) \/ Create(t) \/ CreateExtend(t) \/ CreateSync(t) \/ OpenFails(t)

(* What a thread does between taking the mutex and releasing it.           *)
Locked(t) ==
  \/ ReadError(t) \/ ReadFails(t) \/ ReadForGet(t) \/ ReadRowFull(t)
  \/ ReadForSet(t) \/ ReadForDel(t) \/ WriteError(t) \/ Write(t) \/ Sync(t)
  \/ EmpClear(t) \/ EmpExtend(t) \/ EmpError(t) \/ Return(t)

Next == \/ \E t \in Threads : \/ Opening(t) \/ Lock(t) \/ Locked(t)
                              \/ \E c \in CallsOf[t] : Call(t, c)
        \/ PowerFailure

Spec == Init /\ [][Next]_vars

-----------------------------------------------------------------------------
(* Properties.                                                             *)

(* What a get of k would find in a file now.                               *)
Lookup(f, k) == IF f.size = "full" THEN Get(f.rows[hash_gen[k]], k) ELSE Absent

(* Type invariant of mapfile.c's state.                                    *)
TypeOK ==
  /\ file \in File /\ disk \in File /\ emptied \in BOOLEAN
  /\ opened \subseteq Handles
  /\ lock \in [Handles -> Threads \cup {NoThread}]
  /\ pc \in [Threads -> {"idle", "create", "ftruncate", "fsync", "lock", "read",
                         "write", "sync", "fopen", "truncate", "unlock"}]
  /\ call \in [Threads -> Requests \cup {NoCall}]
  /\ kv \in [Threads -> Row]
  /\ ret \in [Threads -> {NoReply, Success, Failure, Error}
                         \cup [ok : {TRUE}, val : Values]]
  /\ crashes \in 0 .. MaxCrashes
  /\ acked \in [Keys -> Values \cup {Absent, Unsure}]

(* Threads that share a handle see one map, each call happening at one     *)
(* moment; unless an I/O error is to blame, a set fails only when its row  *)
(* is full of other keys, and other calls do not fail; a call that fails   *)
(* has changed nothing, but for an emp, which may leave it open whether    *)
(* the map is empty; and a power failure undoes or completes the calls it  *)
(* interrupts, key by key, and nothing else: what mapfile_kv_set, _get,    *)
(* _del and _emp promise (mapfile.h).  The map is what has reached the     *)
(* disk: a call happens when its change is synced.                         *)
Settled == ~emptied /\ \A k \in Keys : Lookup(disk, k) = Lookup(file, k)

Emptying(t) == pc[t] \in {"truncate", "sync"} /\ call[t].op = "emp"

Answered(t) ==
  CASE pc[t] = "unlock" -> ret[t]
    [] pc[t] # "unlock" /\ Emptying(t) -> Underway
    [] pc[t] = "sync" /\ ~Emptying(t) /\ Settled -> Success
    [] OTHER -> NoReply

Map == INSTANCE KVMap WITH kv      <- [k \in Keys |-> Lookup(disk, k)],
                           emptied <- emptied,
                           usable  <- (file.size = "full"),
                           req     <- call,
                           ans     <- [t \in Threads |-> Answered(t)]
ImplementsMap == Map!Spec

(* A value whose set has returned 0 survives a power failure at any later  *)
(* moment, even in the middle of a write to another key of its row         *)
(* (write_kv_item calls fsync before it returns).                          *)
Durable ==
  \A k \in Keys : acked[k] # Unsure => /\ Lookup(disk, k) = acked[k]
                                       /\ file.size = "full" => Lookup(file, k) = acked[k]

(* A row that is about to be written holds what the file holds now, but    *)
(* for the caller's own change: between the read and the write of a row    *)
(* nobody else has changed it (__kv_set, __kv_del under the mutex, for     *)
(* callers that share a handle).                                           *)
RowIsCurrent ==
  \A t \in Threads : pc[t] = "write" =>
     LET row == file.rows[RowOf(t)] IN
     kv[t] = IF call[t].op = "set" THEN Put(row, call[t].key, call[t].val)
             ELSE Rm(row, call[t].key)

(* "remove a value indexed by key": a delete changes what is found for its *)
(* own key and for no other (hash_table_rm).                               *)
DelKeepsOthers ==
  [][\A t \in Threads, k \in Keys :
       pc[t] = "write" /\ call[t].op = "del" /\ k # call[t].key /\ pc'[t] = "sync"
       => Lookup(file', k) = Lookup(file, k)]_vars
=============================================================================
