----------------------------- MODULE SubdevHash -----------------------------
(***************************************************************************)
(* subdev_address_hash.c: the gateway's table of sub-devices, a uthash     *)
(* list whose entries are allocated and freed, behind a read-write lock.   *)
(*                                                                         *)
(* Device threads add and delete sub-devices.  A cloud thread compares the *)
(* table with the cloud's list: subdev_address_hash_find_ex marks each     *)
(* device of the list, then subdev_address_hash_iterator reports those     *)
(* left unmarked and takes the marks away; or it asks with _get_keys for   *)
(* the devices of one type.                                                *)
(*                                                                         *)
(* add and delete search the table before they take the lock.  A section   *)
(* under the write lock is one action, enabled when no reader is inside;   *)
(* so is a read section, but the two that walk the table, whose steps are  *)
(* actions.  subdev_address_hash_find only reads and has no action.  An    *)
(* address is as long as the table holds, ADDRESS_MAX_LEN - 1 characters.  *)
(*                                                                         *)
(* A call whose pthread_rwlock_ call fails returns at once.  Where that    *)
(* leaves something behind it is an action (AddNoLock, DeleteNoLock,       *)
(* FindExNoLock, IterNoLock); delete_all (152-156) and get_keys (243-248)  *)
(* leave nothing, and failing they are stuttering steps.                   *)
(***************************************************************************)
EXTENDS Naturals, Sequences, FiniteSets, SequencesExt

CONSTANTS
  DeviceThreads, CloudThreads,
  Addresses,
  Types,                  \* the type values devices are added with
  Entries,                \* bound: the memory for table entries
  Rows,                   \* bound: the lengths of the array for get_keys
  LocksMayFail,           \* whether pthread_rwlock_ calls may fail
  Null                    \* the null pointer

ASSUME ConstantsAssumption ==
  /\ DeviceThreads \cap CloudThreads = {}
  /\ Null \notin Entries
  /\ Rows \subseteq Nat \ {0}
  /\ LocksMayFail \in BOOLEAN

Threads == DeviceThreads \cup CloudThreads

HashEntry == [address : Addresses, type : Types, flag : BOOLEAN]

VARIABLES
  p_device_hash,  \* the entries of the table in the order they were added
  entry,          \* what each piece of allocated memory holds
  allocated,      \* the pieces that malloc has given out and free not taken
  lost,           \* history: the memory a failing add forgot to free
  reading,        \* the threads that hold the lock for reading across steps
  pc,             \* where a thread is in a call
  p_entry,        \* its pointer to an entry
  address, type,  \* the arguments of its call
  cursor, tmp,    \* HASH_ITER: the entry visited and the next one
  cloud,          \* the list a cloud thread compares with
  asked,          \* the addresses of it already looked up
  reported,       \* the addresses passed to topo_leave_device_cb
  left,           \* history: the addresses asked in comparisons cut short
  list, rows      \* the array that get_keys fills, and its length

table == <<p_device_hash, entry, allocated, lost>>
calls == <<pc, p_entry, address, type>>
topo  == <<cursor, tmp, cloud, asked, reported, left>>
keys  == <<list, rows>>
vars  == <<table, reading, calls, topo, keys>>

Init ==
  /\ p_device_hash = <<>>
  /\ entry = [e \in Entries |-> Null]
  /\ allocated = {}
  /\ lost = {}
  /\ reading = {}
  /\ pc = [t \in Threads |-> "idle"]
  /\ p_entry = [t \in Threads |-> Null]
  /\ address = [t \in Threads |-> Null]
  /\ type = [t \in Threads |-> Null]
  /\ cursor = [t \in CloudThreads |-> Null]
  /\ tmp = [t \in CloudThreads |-> Null]
  /\ cloud = [t \in CloudThreads |-> {}]
  /\ asked = [t \in CloudThreads |-> {}]
  /\ reported = [t \in CloudThreads |-> {}]
  /\ left = [t \in CloudThreads |-> {}]
  /\ list = [t \in CloudThreads |-> <<>>]
  /\ rows = [t \in CloudThreads |-> 0]

-----------------------------------------------------------------------------
(* uthash, as UTHash shows it to its callers.                              *)

(* HASH_FIND_STR.  Had two entries one address, the latest added would be  *)
(* found, until the buckets are redistributed.                             *)
Find(a) ==
  LET hits == {k \in DOMAIN p_device_hash : entry[p_device_hash[k]].address = a}
  IN IF hits = {} THEN Null
     ELSE p_device_hash[CHOOSE k \in hits : \A l \in hits : l <= k]

Linked(e) == e \in Range(p_device_hash)

PlaceOf(e) == CHOOSE k \in DOMAIN p_device_hash : p_device_hash[k] = e

(* The hh.next of an entry of the list.                                    *)
NextOf(e) == IF PlaceOf(e) < Len(p_device_hash)
             THEN p_device_hash[PlaceOf(e) + 1] ELSE Null

HeadOf == IF p_device_hash = <<>> THEN Null ELSE Head(p_device_hash)

(* The list without an entry.                                              *)
HASH_DEL(e) == IF Linked(e) THEN RemoveAt(p_device_hash, PlaceOf(e)) ELSE p_device_hash

-----------------------------------------------------------------------------
Goto(t, label) == pc' = [pc EXCEPT ![t] = label]

(* subdev_address_hash_add: the search, without the lock, ...              *)
AddFind(t, a, v) ==
  /\ pc[t] = "idle"
  /\ address' = [address EXCEPT ![t] = a] /\ type' = [type EXCEPT ![t] = v]
  /\ p_entry' = [p_entry EXCEPT ![t] = Find(a)]
  /\ Goto(t, IF Find(a) = Null THEN "malloc" ELSE "update")
  /\ UNCHANGED <<table, reading, topo, keys>>

(* Mutant of AddAllocate: the entry's memory is not cleared.               *)
AddAllocateRaw(t) ==
  /\ pc[t] = "malloc"
  /\ \E e \in Entries \ allocated :
       /\ allocated' = allocated \cup {e}
       /\ entry' = [entry EXCEPT ![e] = [address |-> address[t], type |-> type[t]]]
       /\ p_entry' = [p_entry EXCEPT ![t] = e]
  /\ Goto(t, "insert")
  /\ UNCHANGED <<p_device_hash, lost, reading, address, type, topo, keys>>

(* ... a new entry, not in the table yet, ...                              *)
AddAllocate(t) ==
  /\ pc[t] = "malloc"
  /\ \E e \in Entries \ allocated :
       /\ allocated' = allocated \cup {e}
       /\ entry' = [entry EXCEPT ![e] =
                      [address |-> address[t], type |-> type[t], flag |-> FALSE]]
       /\ p_entry' = [p_entry EXCEPT ![t] = e]
  /\ Goto(t, "insert")
  /\ UNCHANGED <<p_device_hash, lost, reading, address, type, topo, keys>>

(* The call is over: its local variables are gone.                         *)
Leave(t) == /\ Goto(t, "idle")
            /\ p_entry' = [p_entry EXCEPT ![t] = Null]
            /\ address' = [address EXCEPT ![t] = Null]
            /\ type' = [type EXCEPT ![t] = Null]

(* ... HASH_ADD_STR under the write lock, ...                              *)
AddInsert(t) ==
  /\ pc[t] = "insert" /\ reading = {}
  /\ p_device_hash' = Append(p_device_hash, p_entry[t])
  /\ Leave(t)
  /\ UNCHANGED <<entry, allocated, lost, reading, topo, keys>>

(* ... or, if the address was there, its new type.                         *)
AddUpdate(t) ==
  /\ pc[t] = "update" /\ reading = {}
  /\ entry' = IF p_entry[t] \in allocated
              THEN [entry EXCEPT ![p_entry[t]].type = type[t]] ELSE entry
  /\ Leave(t)
  /\ UNCHANGED <<p_device_hash, allocated, lost, reading, topo, keys>>

(* malloc fails ...                                                        *)
AddNoMemory(t) ==
  /\ pc[t] = "malloc"
  /\ Leave(t)
  /\ UNCHANGED <<table, reading, topo, keys>>

(* ... or the write lock does: the new entry, if there is one, is forgotten *)
(* and not freed.                                                          *)
AddNoLock(t) ==
  /\ LocksMayFail /\ pc[t] \in {"insert", "update"}
  /\ lost' = IF pc[t] = "insert" THEN lost \cup {p_entry[t]} ELSE lost
  /\ Leave(t)
  /\ UNCHANGED <<p_device_hash, entry, allocated, reading, topo, keys>>

(* subdev_address_hash_delete: the search, without the lock, ...           *)
DeleteFind(t, a) ==
  /\ pc[t] = "idle" /\ Find(a) # Null
  /\ p_entry' = [p_entry EXCEPT ![t] = Find(a)]
  /\ Goto(t, "remove")
  /\ UNCHANGED <<table, reading, address, type, topo, keys>>

(* Mutant of DeleteRemove: the lock is not taken.                          *)
DeleteRemoveUnlocked(t) ==
  /\ pc[t] = "remove"
  /\ p_device_hash' = HASH_DEL(p_entry[t])
  /\ Goto(t, "free")
  /\ UNCHANGED <<entry, allocated, lost, reading, p_entry, address, type, topo, keys>>

(* ... HASH_DEL under the write lock, ...                                  *)
DeleteRemove(t) ==
  /\ pc[t] = "remove" /\ reading = {}
  /\ p_device_hash' = HASH_DEL(p_entry[t])
  /\ Goto(t, "free")
  /\ UNCHANGED <<entry, allocated, lost, reading, p_entry, address, type, topo, keys>>

(* ... if the lock can be had, ...                                         *)
DeleteNoLock(t) ==
  /\ LocksMayFail /\ pc[t] = "remove"
  /\ Leave(t)
  /\ UNCHANGED <<table, reading, topo, keys>>

(* Mutant of DeleteFree: the memory is kept.                               *)
DeleteKeep(t) ==
  /\ pc[t] = "free"
  /\ Leave(t)
  /\ UNCHANGED <<table, reading, topo, keys>>

(* ... and free after the lock is released.                                *)
DeleteFree(t) ==
  /\ pc[t] = "free"
  /\ allocated' = allocated \ {p_entry[t]}
  /\ entry' = [entry EXCEPT ![p_entry[t]] = Null]
  /\ Leave(t)
  /\ UNCHANGED <<p_device_hash, lost, reading, topo, keys>>

(* subdev_address_hash_delete_all                                          *)
DeleteAll(t) ==
  /\ pc[t] = "idle" /\ reading = {}
  /\ p_device_hash' = <<>>
  /\ allocated' = allocated \ Range(p_device_hash)
  /\ entry' = [e \in Entries |-> IF Linked(e) THEN Null ELSE entry[e]]
  /\ UNCHANGED <<lost, reading, calls, topo, keys>>

-----------------------------------------------------------------------------
(* The topology comparison of a cloud thread.                              *)

(* The list arrives from the cloud.                                        *)
Compare(t, devices) ==
  /\ pc[t] = "idle"
  /\ cloud' = [cloud EXCEPT ![t] = devices]
  /\ Goto(t, "compare")
  /\ UNCHANGED <<table, reading, p_entry, address, type, cursor, tmp, asked, reported,
                 left, keys>>

(* subdev_address_hash_find_ex marks the device if it is there.            *)
FindEx(t, a) ==
  /\ pc[t] = "compare" /\ a \in cloud[t] \ asked[t]
  /\ asked' = [asked EXCEPT ![t] = @ \cup {a}]
  /\ entry' = IF Find(a) = Null THEN entry
              ELSE [entry EXCEPT ![Find(a)].flag = TRUE]
  /\ UNCHANGED <<p_device_hash, allocated, lost, reading, calls, cursor, tmp, cloud,
                 reported, left, keys>>

(* The read lock fails: the device counts as looked up, and is not marked. *)
FindExNoLock(t, a) ==
  /\ LocksMayFail /\ pc[t] = "compare" /\ a \in cloud[t] \ asked[t]
  /\ asked' = [asked EXCEPT ![t] = @ \cup {a}]
  /\ UNCHANGED <<table, reading, calls, cursor, tmp, cloud, reported, left, keys>>

(* The comparison is over.                                                 *)
EndCompare(t) == /\ Goto(t, "idle")
                 /\ cloud' = [cloud EXCEPT ![t] = {}]
                 /\ asked' = [asked EXCEPT ![t] = {}]
                 /\ reported' = [reported EXCEPT ![t] = {}]

(* subdev_address_hash_iterator returns without the lock: the comparison   *)
(* is cut short, and its marks stay in the table.                          *)
IterNoLock(t) ==
  /\ LocksMayFail /\ pc[t] = "compare" /\ asked[t] = cloud[t]
  /\ left' = [left EXCEPT ![t] = @ \cup asked[t]]
  /\ EndCompare(t)
  /\ UNCHANGED <<table, reading, p_entry, address, type, cursor, tmp, keys>>

(* subdev_address_hash_iterator: rdlock and the first entry, ...           *)
IterBegin(t) ==
  /\ pc[t] = "compare" /\ asked[t] = cloud[t]
  /\ reading' = reading \cup {t}
  /\ cursor' = [cursor EXCEPT ![t] = HeadOf]
  /\ tmp' = [tmp EXCEPT ![t] = IF HeadOf = Null THEN Null ELSE NextOf(HeadOf)]
  /\ Goto(t, "iterate")
  /\ UNCHANGED <<table, p_entry, address, type, cloud, asked, reported, left, keys>>

(* Mutant of IterVisit: the mark stays for the next comparison.            *)
IterVisitKeep(t) ==
  LET e == cursor[t] IN
  /\ pc[t] = "iterate" /\ e # Null
  /\ e \in allocated
  /\ IF entry[e].flag
     THEN UNCHANGED reported
     ELSE reported' = [reported EXCEPT ![t] = @ \cup {entry[e].address}]
  /\ cursor' = [cursor EXCEPT ![t] = tmp[t]]
  /\ tmp' = [tmp EXCEPT ![t] = IF Linked(tmp[t]) THEN NextOf(tmp[t]) ELSE Null]
  /\ UNCHANGED <<table, reading, calls, cloud, asked, left, keys>>

(* Mutant of IterVisit: the loop ends at the first device reported.        *)
IterVisitFirst(t) ==
  LET e == cursor[t] IN
  /\ pc[t] = "iterate" /\ e # Null
  /\ e \in allocated
  /\ IF entry[e].flag
     THEN /\ entry' = [entry EXCEPT ![e].flag = FALSE]
          /\ cursor' = [cursor EXCEPT ![t] = tmp[t]]
          /\ UNCHANGED reported
     ELSE /\ reported' = [reported EXCEPT ![t] = @ \cup {entry[e].address}]
          /\ cursor' = [cursor EXCEPT ![t] = Null]
          /\ UNCHANGED entry
  /\ tmp' = [tmp EXCEPT ![t] = IF Linked(tmp[t]) THEN NextOf(tmp[t]) ELSE Null]
  /\ UNCHANGED <<p_device_hash, allocated, lost, reading, calls, cloud, asked, left, keys>>

(* ... unmark a marked entry, report another, step to the one saved in tmp *)
IterVisit(t) ==
  LET e == cursor[t] IN
  /\ pc[t] = "iterate" /\ e # Null
  /\ e \in allocated
  /\ IF entry[e].flag
     THEN /\ entry' = [entry EXCEPT ![e].flag = FALSE]
          /\ UNCHANGED reported
     ELSE /\ reported' = [reported EXCEPT ![t] = @ \cup {entry[e].address}]
          /\ UNCHANGED entry
  /\ cursor' = [cursor EXCEPT ![t] = tmp[t]]
  /\ tmp' = [tmp EXCEPT ![t] = IF Linked(tmp[t]) THEN NextOf(tmp[t]) ELSE Null]
  /\ UNCHANGED <<p_device_hash, allocated, lost, reading, calls, cloud, asked, left, keys>>

(* ... and the unlock: no mark is left of this or an earlier comparison.   *)
IterEnd(t) ==
  /\ pc[t] = "iterate" /\ cursor[t] = Null
  /\ reading' = reading \ {t}
  /\ left' = [left EXCEPT ![t] = {}]
  /\ EndCompare(t)
  /\ UNCHANGED <<table, p_entry, address, type, cursor, tmp, keys>>

(* Mutant of KeysVisit: the array is found full one entry too late.        *)
KeysVisitLate(t) ==
  LET e == cursor[t]
      hit == entry[e].type = type[t]
      full == hit /\ Len(list[t]) = rows[t]
  IN /\ pc[t] = "keys" /\ e # Null
     /\ e \in allocated
     /\ list' = IF hit THEN [list EXCEPT ![t] = Append(@, entry[e].address)] ELSE list
     /\ cursor' = [cursor EXCEPT ![t] = IF full THEN Null ELSE tmp[t]]
     /\ tmp' = [tmp EXCEPT ![t] = IF ~full /\ Linked(tmp[t]) THEN NextOf(tmp[t])
                                  ELSE Null]
     /\ UNCHANGED <<table, reading, calls, cloud, asked, reported, left, rows>>

(* subdev_address_hash_get_keys: rdlock and the first entry, ...           *)
KeysBegin(t, v, n) ==
  /\ pc[t] = "idle"
  /\ type' = [type EXCEPT ![t] = v] /\ rows' = [rows EXCEPT ![t] = n]
  /\ reading' = reading \cup {t}
  /\ cursor' = [cursor EXCEPT ![t] = HeadOf]
  /\ tmp' = [tmp EXCEPT ![t] = IF HeadOf = Null THEN Null ELSE NextOf(HeadOf)]
  /\ Goto(t, "keys")
  /\ UNCHANGED <<table, p_entry, address, cloud, asked, reported, left, list>>

(* ... its address if it has the type, until the array is full, ...        *)
KeysVisit(t) ==
  LET e == cursor[t]
      hit == entry[e].type = type[t]
      full == hit /\ Len(list[t]) + 1 = rows[t]
  IN /\ pc[t] = "keys" /\ e # Null
     /\ e \in allocated
     /\ list' = IF hit THEN [list EXCEPT ![t] = Append(@, entry[e].address)] ELSE list
     /\ cursor' = [cursor EXCEPT ![t] = IF full THEN Null ELSE tmp[t]]
     /\ tmp' = [tmp EXCEPT ![t] = IF ~full /\ Linked(tmp[t]) THEN NextOf(tmp[t])
                                  ELSE Null]
     /\ UNCHANGED <<table, reading, calls, cloud, asked, reported, left, rows>>

(* ... and the unlock.                                                     *)
KeysEnd(t) ==
  /\ pc[t] = "keys" /\ cursor[t] = Null
  /\ reading' = reading \ {t}
  /\ list' = [list EXCEPT ![t] = <<>>] /\ rows' = [rows EXCEPT ![t] = 0]
  /\ Leave(t)
  /\ UNCHANGED <<table, topo>>

-----------------------------------------------------------------------------
Device(t) ==
  \/ \E a \in Addresses, v \in Types : AddFind(t, a, v)
  \/ AddAllocate(t) \/ AddInsert(t) \/ AddUpdate(t)
  \/ AddNoMemory(t) \/ AddNoLock(t)
  \/ \E a \in Addresses : DeleteFind(t, a)
  \/ DeleteRemove(t) \/ DeleteNoLock(t) \/ DeleteFree(t) \/ DeleteAll(t)

Cloud(t) ==
  \/ \E devices \in SUBSET Addresses : Compare(t, devices)
  \/ \E a \in Addresses : FindEx(t, a) \/ FindExNoLock(t, a)
  \/ IterNoLock(t) \/ IterBegin(t) \/ IterVisit(t) \/ IterEnd(t)
  \/ \E v \in Types, n \in Rows : KeysBegin(t, v, n)
  \/ KeysVisit(t) \/ KeysEnd(t)

Next == \/ \E t \in DeviceThreads : Device(t)
        \/ \E t \in CloudThreads : Cloud(t)

Spec == Init /\ [][Next]_vars

-----------------------------------------------------------------------------
(* Properties.                                                             *)

(* Type invariant of the table and of the calls on it.                     *)
TypeOK ==
  /\ p_device_hash \in Seq(Entries)
  /\ entry \in [Entries -> HashEntry \cup {Null}]
  /\ allocated \subseteq Entries /\ lost \subseteq Entries
  /\ reading \subseteq CloudThreads
  /\ pc \in [Threads -> {"idle", "malloc", "insert", "update", "remove", "free",
                         "compare", "iterate", "keys"}]
  /\ p_entry \in [Threads -> Entries \cup {Null}]
  /\ address \in [Threads -> Addresses \cup {Null}]
  /\ type \in [Threads -> Types \cup {Null}]
  /\ cursor \in [CloudThreads -> Entries \cup {Null}]
  /\ tmp \in [CloudThreads -> Entries \cup {Null}]
  /\ cloud \in [CloudThreads -> SUBSET Addresses]
  /\ asked \in [CloudThreads -> SUBSET Addresses]
  /\ reported \in [CloudThreads -> SUBSET Addresses]
  /\ left \in [CloudThreads -> SUBSET Addresses]
  /\ list \in [CloudThreads -> Seq(Addresses)]
  /\ rows \in [CloudThreads -> Rows \cup {0}]

(* No thread holds a pointer to memory that has been freed, nor does the   *)
(* table: the iterator's cursor and saved next entry, and the entry that   *)
(* add or delete found before it took the lock.                            *)
NoDanglingPointer ==
  /\ Range(p_device_hash) \subseteq allocated
  /\ \A t \in Threads : p_entry[t] \in allocated \cup {Null}
  /\ \A t \in CloudThreads : {cursor[t], tmp[t]} \subseteq allocated \cup {Null}

(* An address has one entry, an entry is linked once, and memory does not  *)
(* leak but where add finds the write lock failing: what is allocated is   *)
(* in the table, on its way in or out, or was lost there                   *)
(* (subdev_address_hash_add, _delete, _delete_all).                        *)
OneEntryPerAddress ==
  /\ \A k, l \in DOMAIN p_device_hash :
       entry[p_device_hash[k]].address = entry[p_device_hash[l]].address => k = l
  /\ allocated \subseteq Range(p_device_hash) \cup {p_entry[t] : t \in Threads} \cup lost

(* The place in the list that a walk has come to.                          *)
Place(t) == IF cursor[t] = Null THEN Len(p_device_hash) + 1 ELSE PlaceOf(cursor[t])

(* Marks do not outlive their comparison, unless it is cut short: a marked *)
(* device was looked up in this comparison or in one that could not lock   *)
(* the table since the last that could, and the iterator has not passed it *)
(* (subdev_address_hash_find_ex, _iterator).                               *)
MarksCurrent ==
  \A t \in CloudThreads, k \in DOMAIN p_device_hash :
     entry[p_device_hash[k]].flag =>
       /\ entry[p_device_hash[k]].address \in asked[t] \cup left[t]
       /\ pc[t] = "iterate" => k >= Place(t)

(* When a comparison ends, every device of the table that the cloud does   *)
(* not know has been reported, but those whose marks were left by a        *)
(* comparison cut short before it: they wait for the next one              *)
(* (topo_leave_device_cb).                                                 *)
StrangersReported ==
  [][\A t \in CloudThreads : IterEnd(t) =>
       \A k \in DOMAIN p_device_hash :
         entry[p_device_hash[k]].address \in cloud[t] \cup reported[t] \cup left[t]]_vars

(* The places of the devices of the type asked for, up to a place.         *)
Hits(t) == {k \in DOMAIN p_device_hash : entry[p_device_hash[k]].type = type[t]}
HitsUpTo(t, k) == {j \in Hits(t) : j <= k}

(* "the count of keys": get_keys returns the first devices of the type, as *)
(* many as the array has rows for, each once and in their order, while     *)
(* others wait to change the table (subdev_address_hash_get_keys).         *)
KeysOfType ==
  [][\A t \in CloudThreads : KeysEnd(t) =>
       LET count == Cardinality(Hits(t))
           Row(k) == Cardinality(HitsUpTo(t, k))
       IN /\ Len(list[t]) = IF count < rows[t] THEN count ELSE rows[t]
          /\ \A k \in Hits(t) : Row(k) <= rows[t] =>
               list[t][Row(k)] = entry[p_device_hash[k]].address]_vars

(* "flag 0: the cloud does not have the sub-device": a device that is in   *)
(* the cloud's list is not reported as gone (subdev_address_hash.c).       *)
OnlyStrangersReported ==
  \A t \in CloudThreads : reported[t] \cap cloud[t] = {}
=============================================================================
