-------------------------- MODULE SubdevHashProofs --------------------------
(***************************************************************************)
(* With one device thread, as the comment on the lock demands, and any     *)
(* number of cloud threads, addresses and entries, no thread of            *)
(* subdev_address_hash.c holds a pointer to freed memory, an address has   *)
(* one entry, memory is lost only by an add that cannot lock the table,    *)
(* and get_keys returns the first devices of a type.  With one cloud       *)
(* thread, marks are left only by a comparison that cannot lock the table, *)
(* and one that can reports every device the cloud does not know, except   *)
(* those so marked.                                                        *)
(***************************************************************************)
EXTENDS SubdevHash, SequenceLemmas, FiniteSetTheorems, TLAPS

OneDevice == \A t, u \in DeviceThreads : t = u

(* The table: entries are linked once, are whole, and differ in their      *)
(* addresses; what is allocated and not linked is in a thread's hands, or  *)
(* was lost by an add that could not lock the table.                       *)
TableShape ==
  /\ \A k, l \in 1 .. Len(p_device_hash) :
       p_device_hash[k] = p_device_hash[l] => k = l
  /\ \A e \in Entries : Linked(e) => e \in allocated /\ entry[e] \in HashEntry
  /\ \A d, e \in Entries :
       Linked(d) /\ Linked(e) /\ entry[d].address = entry[e].address => d = e
  /\ \A e \in allocated : Linked(e) \/ e \in lost \/ \E t \in Threads : p_entry[t] = e

(* What a device thread knows at each point of add and delete.             *)
DeviceKnows(t) ==
  /\ pc[t] \in {"idle", "malloc", "insert", "update", "remove", "free"}
  /\ pc[t] \in {"idle", "malloc"} => p_entry[t] = Null
  /\ pc[t] \in {"malloc", "insert", "update"} => address[t] \in Addresses /\ type[t] \in Types
  /\ pc[t] \in {"malloc", "insert"}
       => \A e \in Entries : Linked(e) => entry[e].address # address[t]
  /\ pc[t] \in {"insert", "free"} => p_entry[t] \in allocated /\ ~Linked(p_entry[t])
  /\ pc[t] = "insert" => /\ entry[p_entry[t]] \in HashEntry
                         /\ entry[p_entry[t]].address = address[t]
  /\ pc[t] \in {"update", "remove"} => p_entry[t] \in Entries /\ Linked(p_entry[t])

(* A cloud thread walks the table only while it holds the lock.            *)
CloudKnows(t) ==
  /\ pc[t] \in {"idle", "compare", "iterate", "keys"}
  /\ p_entry[t] = Null
  /\ pc[t] \in {"iterate", "keys"} <=> t \in reading
  /\ t \notin reading => cursor[t] = Null
  /\ cursor[t] = Null => tmp[t] = Null
  /\ cursor[t] # Null => cursor[t] \in Entries /\ Linked(cursor[t])
  /\ tmp[t] # Null => tmp[t] \in Entries /\ Linked(tmp[t])
  /\ pc[t] = "keys" => type[t] \in Types

TableInv == /\ TypeOK /\ TableShape
            /\ \A t \in DeviceThreads : DeviceKnows(t)
            /\ \A t \in CloudThreads : CloudKnows(t)

-----------------------------------------------------------------------------
(* The list.                                                               *)

LEMMA ListFacts ==
  ASSUME TypeOK
  PROVE  /\ p_device_hash \in Seq(Entries)
         /\ DOMAIN p_device_hash = 1 .. Len(p_device_hash)
         /\ Len(p_device_hash) \in Nat
         /\ \A k \in 1 .. Len(p_device_hash) : p_device_hash[k] \in Entries
         /\ \A e : Linked(e) => e \in Entries
         /\ Null \notin Entries /\ ~Linked(Null)
<1>1. /\ p_device_hash \in Seq(Entries)
      /\ DOMAIN p_device_hash = 1 .. Len(p_device_hash)
      /\ Len(p_device_hash) \in Nat
      /\ \A k \in 1 .. Len(p_device_hash) : p_device_hash[k] \in Entries
  BY DEF TypeOK
<1>2. Null \notin Entries
  BY ConstantsAssumption
<1> QED BY <1>1, <1>2 DEF Linked, Range

LEMMA NextIsLinked ==
  ASSUME TypeOK, TableShape, NEW e, Linked(e)
  PROVE  NextOf(e) = Null \/ (NextOf(e) \in Entries /\ Linked(NextOf(e)))
<1>1. PlaceOf(e) \in 1 .. Len(p_device_hash)
  BY ListFacts DEF Linked, PlaceOf, Range
<1> QED BY <1>1, ListFacts DEF NextOf, Linked, Range

LEMMA HeadIsLinked ==
  ASSUME TypeOK
  PROVE  HeadOf = Null \/ (HeadOf \in Entries /\ Linked(HeadOf))
BY ListFacts DEF HeadOf, Linked, Range

(* The search finds the entry with an address, of which there is one.      *)
LEMMA FindFinds ==
  ASSUME TypeOK, TableShape, NEW a \in Addresses
  PROVE  \/ /\ Find(a) = Null
            /\ \A e \in Entries : Linked(e) => entry[e].address # a
         \/ /\ Find(a) \in Entries /\ Linked(Find(a))
            /\ entry[Find(a)].address = a
<1> DEFINE hits == {k \in DOMAIN p_device_hash : entry[p_device_hash[k]].address = a}
<1>1. CASE hits = {}
  BY <1>1 DEF Find, Linked, Range
<1>2. CASE hits # {}
  <2>1. PICK k \in hits : TRUE
    BY <1>2
  <2>2. \A l \in hits : l = k
    <3> SUFFICES ASSUME NEW l \in hits PROVE l = k
      OBVIOUS
    <3>1. Linked(p_device_hash[l]) /\ Linked(p_device_hash[k])
      BY <2>1 DEF Linked, Range
    <3>2. entry[p_device_hash[l]].address = entry[p_device_hash[k]].address
      BY <2>1
    <3>3. l \in 1 .. Len(p_device_hash) /\ k \in 1 .. Len(p_device_hash)
      BY <2>1, ListFacts
    <3>4. p_device_hash[l] = p_device_hash[k]
      BY <3>1, <3>2, <3>3, ListFacts DEF TableShape
    <3> QED BY <3>3, <3>4 DEF TableShape
  <2>3. k \in Nat /\ \A l \in hits : l <= k
    BY <2>1, <2>2, ListFacts
  <2>4. Find(a) = p_device_hash[CHOOSE j \in hits : \A l \in hits : l <= j]
    BY <1>2 DEF Find
  <2> HIDE DEF hits
  <2>5. (CHOOSE j \in hits : \A l \in hits : l <= j) \in hits
    BY <2>1, <2>3
  <2> USE DEF hits
  <2> QED BY <2>4, <2>5, ListFacts DEF Linked, Range
<1> QED BY <1>1, <1>2

(* HASH_DEL takes a linked entry out and no other.                         *)
LEMMA HashDelIs ==
  ASSUME TypeOK, TableShape, NEW e \in Entries, Linked(e),
         p_device_hash' = HASH_DEL(e)
  PROVE  /\ p_device_hash' \in Seq(Entries)
         /\ \A k, l \in 1 .. Len(p_device_hash') :
              p_device_hash'[k] = p_device_hash'[l] => k = l
         /\ \A x : Linked(x)' <=> Linked(x) /\ x # e
<1> DEFINE i == PlaceOf(e)
<1>1. i \in 1 .. Len(p_device_hash) /\ p_device_hash[i] = e
  BY ListFacts DEF Linked, PlaceOf, Range
<1>2. p_device_hash' = RemoveAt(p_device_hash, i)
  BY DEF HASH_DEL
<1> HIDE DEF i
<1>3. /\ p_device_hash \in Seq(Entries)
      /\ \A k, l \in 1 .. Len(p_device_hash) :
           p_device_hash[k] = p_device_hash[l] => k = l
  BY ListFacts DEF TableShape
<1>4. p_device_hash' \in Seq(Entries) /\ Len(p_device_hash') = Len(p_device_hash) - 1
  BY <1>1, <1>2, <1>3, RemoveAtIs
<1>5. PICK h \in Seq(Entries) : h = p_device_hash
  BY <1>3
<1>6. PICK j \in 1 .. Len(h) : j = i
  BY <1>1, <1>5
<1>7. \A k, l \in 1 .. Len(h) : h[k] = h[l] => k = l
  BY <1>3, <1>5
<1>8. \A k, l \in 1 .. Len(h) - 1 : RemoveAt(h, j)[k] = RemoveAt(h, j)[l] => k = l
  BY <1>7, RemoveAtRemoves
<1>9. Range(RemoveAt(h, j)) = Range(h) \ {h[j]}
  BY <1>7, RemoveAtRemoves
<1>10. p_device_hash' = RemoveAt(h, j) /\ h[j] = e
  BY <1>1, <1>2, <1>5, <1>6
<1>11. \A k, l \in 1 .. Len(p_device_hash') :
         p_device_hash'[k] = p_device_hash'[l] => k = l
  BY <1>4, <1>5, <1>8, <1>10
<1>12. \A x : Linked(x)' <=> Linked(x) /\ x # e
  BY <1>5, <1>9, <1>10 DEF Linked
<1> QED BY <1>4, <1>11, <1>12

-----------------------------------------------------------------------------
(* What a step of one side leaves the other.                               *)

(* A device thread's step keeps what cloud threads know: it removes        *)
(* entries only when no cloud thread is inside.                            *)
LEMMA CloudFrame ==
  ASSUME TableInv,
         \A t \in CloudThreads : /\ pc'[t] = pc[t] /\ p_entry'[t] = p_entry[t]
                                 /\ type'[t] = type[t],
         UNCHANGED <<cursor, tmp, reading>>,
         reading = {} \/ p_device_hash' = p_device_hash
  PROVE  \A t \in CloudThreads : CloudKnows(t)'
BY DEF TableInv, CloudKnows, Linked

(* A cloud thread's step keeps the table and what device threads know.     *)
LEMMA DeviceFrame ==
  ASSUME TableInv,
         \A t \in DeviceThreads : /\ pc'[t] = pc[t] /\ p_entry'[t] = p_entry[t]
                                  /\ address'[t] = address[t] /\ type'[t] = type[t],
         \A t \in CloudThreads : p_entry'[t] = p_entry[t],
         UNCHANGED <<p_device_hash, allocated, lost>>,
         \A e \in Entries : entry[e] \in HashEntry =>
            entry'[e] \in HashEntry /\ entry'[e].address = entry[e].address
  PROVE  TableShape' /\ \A t \in DeviceThreads : DeviceKnows(t)'
<1>1. \A e : Linked(e)' <=> Linked(e)
  BY DEF Linked
<1>2. \A e \in Entries : Linked(e) =>
         entry[e] \in HashEntry /\ entry'[e].address = entry[e].address
  BY DEF TableInv, TableShape
<1>3. TableShape'
  BY <1>1, <1>2 DEF TableInv, TableShape, Threads
<1>4. ASSUME NEW t \in DeviceThreads PROVE DeviceKnows(t)'
  <2>1. DeviceKnows(t) /\ allocated \subseteq Entries
    BY DEF TableInv, TypeOK
  <2>2. pc'[t] = pc[t] /\ p_entry'[t] = p_entry[t] /\ allocated' = allocated
    OBVIOUS
  <2>3. Linked(p_entry[t])' <=> Linked(p_entry[t])
    BY <2>2 DEF Linked
  <2> QED BY <1>1, <1>2, <2>1, <2>2, <2>3 DEF DeviceKnows, Linked
<1> QED BY <1>3, <1>4

(* New marks and types leave an entry its address.                         *)
LEMMA EntryUpdates ==
  ASSUME NEW h \in HashEntry
  PROVE  /\ \A v \in Types : /\ [h EXCEPT !.type = v] \in HashEntry
                             /\ [h EXCEPT !.type = v].address = h.address
         /\ \A b \in BOOLEAN : /\ [h EXCEPT !.flag = b] \in HashEntry
                               /\ [h EXCEPT !.flag = b].address = h.address
BY DEF HashEntry

(* Where a device thread is, no other device thread is, and the shape of   *)
(* the table is what remains to be shown of its step.                      *)
LEMMA OneWriter ==
  ASSUME OneDevice, TableInv, NEW t \in DeviceThreads
  PROVE  /\ t \in Threads /\ t \notin CloudThreads
         /\ \A u \in Threads : u # t => u \in CloudThreads /\ p_entry[u] = Null
         /\ Null \notin Entries /\ ~Linked(Null)
         /\ DeviceKnows(t)
         /\ p_entry[t] = Null => \A e \in allocated : Linked(e) \/ e \in lost
<1>1. t \in Threads /\ t \notin CloudThreads
  BY ConstantsAssumption DEF Threads
<1>2. \A u \in Threads : u # t => u \in CloudThreads /\ p_entry[u] = Null
  BY DEF OneDevice, Threads, TableInv, CloudKnows
<1>3. Null \notin Entries /\ ~Linked(Null) /\ DeviceKnows(t)
  BY ListFacts DEF TableInv
<1>4. ASSUME p_entry[t] = Null PROVE \A e \in allocated : Linked(e) \/ e \in lost
  <2>1. \A u \in Threads : p_entry[u] = Null
    BY <1>2, <1>4
  <2>2. allocated \subseteq Entries
    BY DEF TableInv, TypeOK
  <2>3. \A e \in allocated : Linked(e) \/ e \in lost \/ \E u \in Threads : p_entry[u] = e
    BY DEF TableInv, TableShape
  <2> QED BY <1>3, <2>1, <2>2, <2>3
<1> QED BY <1>1, <1>2, <1>3, <1>4

LEMMA AddFindKeeps ==
  ASSUME OneDevice, TableInv, NEW t \in DeviceThreads,
         NEW a \in Addresses, NEW v \in Types, AddFind(t, a, v)
  PROVE  TableInv'
<1>1. t \in Threads /\ t \notin CloudThreads
  BY OneWriter
<1>2. TypeOK'
  BY <1>1, FindFinds DEF AddFind, Goto, TypeOK, TableInv, table, topo, keys
<1>3. TableShape'
  BY <1>1, OneWriter DEF AddFind, TableInv, TableShape, TypeOK, Linked, table,
     DeviceKnows
<1>4. DeviceKnows(t)'
  BY <1>1, FindFinds, OneWriter DEF AddFind, Goto, DeviceKnows, TableInv, TypeOK,
     Linked, table
<1>5. \A u \in CloudThreads : CloudKnows(u)'
  BY <1>1, CloudFrame DEF AddFind, Goto, TableInv, TypeOK, table, topo, Threads
<1> QED BY <1>2, <1>3, <1>4, <1>5 DEF TableInv, OneDevice

LEMMA AddAllocateKeeps ==
  ASSUME OneDevice, TableInv, NEW t \in DeviceThreads, AddAllocate(t)
  PROVE  TableInv'
<1>1. t \in Threads /\ t \notin CloudThreads
  BY OneWriter
<1>2. PICK e \in Entries \ allocated :
        /\ allocated' = allocated \cup {e}
        /\ entry' = [entry EXCEPT ![e] =
                       [address |-> address[t], type |-> type[t], flag |-> FALSE]]
        /\ p_entry' = [p_entry EXCEPT ![t] = e]
  BY DEF AddAllocate
<1>3. /\ pc[t] = "malloc" /\ pc' = [pc EXCEPT ![t] = "insert"]
      /\ UNCHANGED <<p_device_hash, lost, reading, address, type, topo, keys>>
  BY DEF AddAllocate, Goto
<1>4. /\ address[t] \in Addresses /\ type[t] \in Types /\ ~Linked(e)
      /\ \A d \in Entries : Linked(d) => d \in allocated /\ entry[d].address # address[t]
      /\ \A d \in allocated : Linked(d) \/ d \in lost
  BY <1>2, <1>3, OneWriter DEF DeviceKnows, TableInv, TableShape
<1>5. \A d \in Entries : d # e => entry'[d] = entry[d]
  BY <1>2 DEF TableInv, TypeOK
<1>6. /\ entry'[e] \in HashEntry /\ entry'[e].address = address[t]
      /\ p_entry'[t] = e
  <2>1. entry'[e] = [address |-> address[t], type |-> type[t], flag |-> FALSE]
    BY <1>2 DEF TableInv, TypeOK
  <2>2. p_entry'[t] = e
    BY <1>1, <1>2 DEF TableInv, TypeOK
  <2> QED BY <1>4, <2>1, <2>2 DEF HashEntry
<1>7. TypeOK'
  BY <1>1, <1>2, <1>3, <1>4 DEF TypeOK, TableInv, topo, keys, HashEntry
<1>8. \A d : Linked(d)' <=> Linked(d)
  BY <1>3 DEF Linked
<1>9. TableShape'
  <2>1. \A d \in allocated' : Linked(d)' \/ d \in lost' \/ \E u \in Threads : p_entry'[u] = d
    BY <1>1, <1>2, <1>3, <1>4, <1>6, <1>8
  <2> QED BY <1>2, <1>3, <1>4, <1>5, <1>8, <2>1 DEF TableInv, TableShape
<1>10. DeviceKnows(t)'
  <2>1. /\ pc'[t] = "insert" /\ p_entry'[t] = e /\ e \in allocated'
        /\ address'[t] = address[t] /\ type'[t] = type[t]
    BY <1>1, <1>2, <1>3, <1>6 DEF TableInv, TypeOK
  <2>2. ~Linked(p_entry[t])'
    BY <1>4, <1>8, <2>1 DEF Linked
  <2>3. \A d \in Entries : Linked(d)' => entry'[d].address # address'[t]
    BY <1>3, <1>4, <1>5, <1>8
  <2> QED BY <1>4, <1>6, <2>1, <2>2, <2>3 DEF DeviceKnows
<1>11. \A u \in CloudThreads : CloudKnows(u)'
  BY <1>1, <1>2, <1>3, CloudFrame DEF TableInv, TypeOK, topo, Threads
<1> QED BY <1>7, <1>9, <1>10, <1>11 DEF TableInv, OneDevice

LEMMA AddInsertKeeps ==
  ASSUME OneDevice, TableInv, NEW t \in DeviceThreads, AddInsert(t)
  PROVE  TableInv'
<1>1. t \in Threads /\ t \notin CloudThreads
  BY OneWriter
<1>e. PICK e : e = p_entry[t]
  OBVIOUS
<1>2. /\ pc[t] = "insert" /\ reading = {}
      /\ p_device_hash' = Append(p_device_hash, e)
      /\ pc' = [pc EXCEPT ![t] = "idle"] /\ p_entry' = [p_entry EXCEPT ![t] = Null]
      /\ address' = [address EXCEPT ![t] = Null] /\ type' = [type EXCEPT ![t] = Null]
      /\ UNCHANGED <<entry, allocated, lost, reading, topo, keys>>
  BY <1>e DEF AddInsert, Leave, Goto
<1>3. /\ e \in allocated /\ e \in Entries /\ ~Linked(e)
      /\ entry[e] \in HashEntry /\ entry[e].address = address[t]
      /\ \A d \in Entries : Linked(d) => entry[d].address # entry[e].address
  BY <1>e, <1>2, OneWriter DEF DeviceKnows, TableInv, TypeOK
<1>4. TypeOK'
  BY <1>1, <1>2, <1>3 DEF TypeOK, TableInv, topo, keys
<1>5. /\ p_device_hash \in Seq(Entries) /\ Len(p_device_hash) \in Nat
      /\ DOMAIN p_device_hash = 1 .. Len(p_device_hash)
      /\ Len(p_device_hash') = Len(p_device_hash) + 1
      /\ p_device_hash'[Len(p_device_hash) + 1] = e
      /\ \A k \in 1 .. Len(p_device_hash) : p_device_hash'[k] = p_device_hash[k]
      /\ DOMAIN p_device_hash' = 1 .. Len(p_device_hash) + 1
  BY <1>2, <1>3 DEF TableInv, TypeOK
<1>6. \A d : Linked(d)' <=> Linked(d) \/ d = e
  <2>1. ASSUME NEW d, Linked(d)' PROVE Linked(d) \/ d = e
    BY <1>5, <2>1 DEF Linked, Range
  <2>2. ASSUME NEW d, Linked(d) PROVE Linked(d)'
    BY <1>5, <2>2 DEF Linked, Range
  <2>3. Linked(e)'
    BY <1>5 DEF Linked, Range
  <2> QED BY <2>1, <2>2, <2>3
<1>7. TableShape'
  <2>1. \A k, l \in 1 .. Len(p_device_hash') : p_device_hash'[k] = p_device_hash'[l] => k = l
    <3>1. \A k \in 1 .. Len(p_device_hash) : p_device_hash[k] # e
      BY <1>3, <1>5 DEF Linked, Range
    <3>2. \A k, l \in 1 .. Len(p_device_hash) : p_device_hash[k] = p_device_hash[l] => k = l
      BY DEF TableInv, TableShape
    <3> QED BY <1>5, <3>1, <3>2
  <2>2. \A d \in Entries : Linked(d)' => d \in allocated' /\ entry'[d] \in HashEntry
    BY <1>2, <1>3, <1>6 DEF TableInv, TableShape
  <2>3. \A c, d \in Entries :
          Linked(c)' /\ Linked(d)' /\ entry'[c].address = entry'[d].address => c = d
    BY <1>2, <1>3, <1>6 DEF TableInv, TableShape
  <2>4. \A d \in allocated' : Linked(d)' \/ d \in lost'
    <3>1. \A d \in allocated : Linked(d) \/ d \in lost \/ \E u \in Threads : p_entry[u] = d
      BY DEF TableInv, TableShape
    <3>2. \A u \in Threads : u # t => p_entry[u] = Null
      BY OneWriter
    <3>3. Null \notin allocated
      BY OneWriter DEF TableInv, TypeOK
    <3> QED BY <1>e, <1>2, <1>6, <3>1, <3>2, <3>3
  <2> QED BY <2>1, <2>2, <2>3, <2>4 DEF TableShape
<1>8. DeviceKnows(t)'
  BY <1>1, <1>2 DEF TableInv, TypeOK, DeviceKnows
<1>9. \A u \in CloudThreads : CloudKnows(u)'
  BY <1>1, <1>2, CloudFrame DEF TableInv, TypeOK, topo, Threads
<1> QED BY <1>4, <1>7, <1>8, <1>9 DEF TableInv, OneDevice

LEMMA AddUpdateKeeps ==
  ASSUME OneDevice, TableInv, NEW t \in DeviceThreads, AddUpdate(t)
  PROVE  TableInv'
<1>1. t \in Threads /\ t \notin CloudThreads
  BY OneWriter
<1>2. /\ pc[t] = "update" /\ p_entry[t] \in Entries /\ Linked(p_entry[t])
      /\ pc' = [pc EXCEPT ![t] = "idle"] /\ p_entry' = [p_entry EXCEPT ![t] = Null]
      /\ address' = [address EXCEPT ![t] = Null] /\ type' = [type EXCEPT ![t] = Null]
      /\ UNCHANGED <<p_device_hash, allocated, lost, reading, topo, keys>>
      /\ type[t] \in Types
  BY OneWriter DEF AddUpdate, Leave, Goto, DeviceKnows
<1>3. PICK e \in Entries : e = p_entry[t] /\ entry[e] \in HashEntry /\ Linked(e)
  BY <1>2 DEF TableInv, TableShape
<1>4. /\ entry' \in [Entries -> HashEntry \cup {Null}]
      /\ \A d \in Entries : entry[d] \in HashEntry =>
           entry'[d] \in HashEntry /\ entry'[d].address = entry[d].address
  <2>1. CASE entry' = entry
    BY <2>1 DEF TableInv, TypeOK
  <2>2. CASE entry' = [entry EXCEPT ![e] = [entry[e] EXCEPT !.type = type[t]]]
    <3> DEFINE h == [entry[e] EXCEPT !.type = type[t]]
    <3>1. h \in HashEntry /\ h.address = entry[e].address
      BY <1>2, <1>3, EntryUpdates
    <3>2. entry \in [Entries -> HashEntry \cup {Null}] /\ entry' = [entry EXCEPT ![e] = h]
      BY <2>2 DEF TableInv, TypeOK
    <3> HIDE DEF h
    <3> QED BY <1>3, <3>1, <3>2
  <2>3. entry' = IF p_entry[t] \in allocated
                 THEN [entry EXCEPT ![p_entry[t]] = [entry[p_entry[t]] EXCEPT !.type = type[t]]]
                 ELSE entry
    BY DEF AddUpdate
  <2>4. e = p_entry[t]
    BY <1>3
  <2> QED BY <2>1, <2>2, <2>3, <2>4
<1>5. TypeOK'
  BY <1>1, <1>2, <1>4 DEF TypeOK, TableInv, topo, keys
<1>6. \A d : Linked(d)' <=> Linked(d)
  BY <1>2 DEF Linked
<1>7. \A d \in allocated' : Linked(d)' \/ d \in lost'
  <2>1. \A d \in allocated : Linked(d) \/ d \in lost \/ \E u \in Threads : p_entry[u] = d
    BY DEF TableInv, TableShape
  <2>2. \A u \in Threads : u # t => p_entry[u] = Null
    BY OneWriter
  <2>3. Null \notin allocated
    BY OneWriter DEF TableInv, TypeOK
  <2> QED BY <1>2, <1>3, <1>6, <2>1, <2>2, <2>3
<1>8. TableShape'
  BY <1>2, <1>4, <1>6, <1>7 DEF TableInv, TableShape
<1>9. DeviceKnows(t)'
  BY <1>1, <1>2 DEF TableInv, TypeOK, DeviceKnows
<1>10. \A u \in CloudThreads : CloudKnows(u)'
  BY <1>1, <1>2, CloudFrame DEF TableInv, TypeOK, topo, Threads
<1> QED BY <1>5, <1>8, <1>9, <1>10 DEF TableInv, OneDevice

LEMMA DeleteFindKeeps ==
  ASSUME OneDevice, TableInv, NEW t \in DeviceThreads, NEW a \in Addresses,
         DeleteFind(t, a)
  PROVE  TableInv'
<1>1. t \in Threads /\ t \notin CloudThreads
  BY OneWriter
<1>2. Find(a) \in Entries /\ Linked(Find(a))
  BY FindFinds DEF DeleteFind, TableInv
<1>3. PICK e \in Entries : e = Find(a) /\ Linked(e)
  BY <1>2
<1>4. /\ pc[t] = "idle" /\ pc' = [pc EXCEPT ![t] = "remove"]
      /\ p_entry' = [p_entry EXCEPT ![t] = e]
      /\ UNCHANGED <<p_device_hash, entry, allocated, lost, reading, address, type, topo, keys>>
  BY <1>3 DEF DeleteFind, Goto, table
<1>5. TypeOK'
  BY <1>1, <1>4 DEF TypeOK, TableInv, topo, keys
<1>6. \A d : Linked(d)' <=> Linked(d)
  BY <1>4 DEF Linked
<1>7. TableShape'
  <2>1. \A d \in allocated : Linked(d) \/ d \in lost
    BY <1>4, OneWriter DEF DeviceKnows
  <2> QED BY <1>4, <1>6, <2>1 DEF TableInv, TableShape
<1>8. DeviceKnows(t)'
  <2>1. pc'[t] = "remove" /\ p_entry'[t] = e
    BY <1>1, <1>4 DEF TableInv, TypeOK
  <2>2. Linked(p_entry[t])'
    BY <1>3, <1>4, <2>1 DEF Linked
  <2> QED BY <2>1, <2>2 DEF DeviceKnows
<1>9. \A u \in CloudThreads : CloudKnows(u)'
  BY <1>1, <1>4, CloudFrame DEF TableInv, TypeOK, topo, Threads
<1> QED BY <1>5, <1>7, <1>8, <1>9 DEF TableInv, OneDevice

LEMMA DeleteRemoveKeeps ==
  ASSUME OneDevice, TableInv, NEW t \in DeviceThreads, DeleteRemove(t)
  PROVE  TableInv'
<1>1. t \in Threads /\ t \notin CloudThreads
  BY OneWriter
<1>2. /\ pc[t] = "remove" /\ reading = {} /\ p_device_hash' = HASH_DEL(p_entry[t])
      /\ pc' = [pc EXCEPT ![t] = "free"]
      /\ UNCHANGED <<entry, allocated, lost, reading, p_entry, address, type, topo, keys>>
  BY DEF DeleteRemove, Goto
<1>3. PICK e \in Entries : e = p_entry[t] /\ Linked(e) /\ e \in allocated
  BY <1>2, OneWriter DEF DeviceKnows, TableInv, TableShape
<1>4. /\ p_device_hash' \in Seq(Entries)
      /\ \A k, l \in 1 .. Len(p_device_hash') :
           p_device_hash'[k] = p_device_hash'[l] => k = l
      /\ \A x : Linked(x)' <=> Linked(x) /\ x # e
  BY <1>2, <1>3, HashDelIs DEF TableInv
<1>5. TypeOK'
  BY <1>1, <1>2, <1>4 DEF TypeOK, TableInv, topo, keys
<1>6. TableShape'
  <2>1. \A d \in allocated' : Linked(d)' \/ d \in lost' \/ \E u \in Threads : p_entry'[u] = d
    BY <1>1, <1>2, <1>3, <1>4 DEF TableInv, TableShape
  <2> QED BY <1>2, <1>4, <2>1 DEF TableInv, TableShape
<1>7. DeviceKnows(t)'
  <2>1. pc'[t] = "free" /\ p_entry'[t] = e
    BY <1>1, <1>2, <1>3 DEF TableInv, TypeOK
  <2>2. ~Linked(e)'
    BY <1>4
  <2>3. ~Linked(p_entry[t])'
    BY <2>1, <2>2 DEF Linked
  <2> QED BY <1>2, <1>3, <2>1, <2>3 DEF DeviceKnows
<1>8. \A u \in CloudThreads : CloudKnows(u)'
  BY <1>1, <1>2, CloudFrame DEF TableInv, TypeOK, topo, Threads
<1> QED BY <1>5, <1>6, <1>7, <1>8 DEF TableInv, OneDevice

LEMMA DeleteFreeKeeps ==
  ASSUME OneDevice, TableInv, NEW t \in DeviceThreads, DeleteFree(t)
  PROVE  TableInv'
<1>1. t \in Threads /\ t \notin CloudThreads
  BY OneWriter
<1>2. PICK e : e = p_entry[t]
  OBVIOUS
<1>3. /\ pc[t] = "free" /\ allocated' = allocated \ {e}
      /\ entry' = [entry EXCEPT ![e] = Null]
      /\ pc' = [pc EXCEPT ![t] = "idle"] /\ p_entry' = [p_entry EXCEPT ![t] = Null]
      /\ address' = [address EXCEPT ![t] = Null] /\ type' = [type EXCEPT ![t] = Null]
      /\ UNCHANGED <<p_device_hash, lost, reading, topo, keys>>
  BY <1>2 DEF DeleteFree, Leave, Goto
<1>4. e \in Entries /\ ~Linked(e)
  BY <1>2, <1>3, OneWriter DEF DeviceKnows, TableInv, TypeOK
<1>5. TypeOK'
  BY <1>1, <1>3 DEF TypeOK, TableInv, topo, keys
<1>6. \A d : Linked(d)' <=> Linked(d)
  BY <1>3 DEF Linked
<1>7. \A d \in Entries : d # e => entry'[d] = entry[d]
  BY <1>3 DEF TableInv, TypeOK
<1>8. \A d \in allocated' : Linked(d)' \/ d \in lost'
  <2>1. \A d \in allocated : Linked(d) \/ d \in lost \/ \E u \in Threads : p_entry[u] = d
    BY DEF TableInv, TableShape
  <2>2. \A u \in Threads : u # t => p_entry[u] = Null
    BY OneWriter
  <2>3. Null \notin allocated
    BY OneWriter DEF TableInv, TypeOK
  <2> QED BY <1>2, <1>3, <1>6, <2>1, <2>2, <2>3
<1>9. TableShape'
  <2>1. \A d \in Entries : Linked(d) => d # e
    BY <1>4
  <2> QED BY <1>3, <1>6, <1>7, <1>8, <2>1 DEF TableInv, TableShape
<1>10. DeviceKnows(t)'
  BY <1>1, <1>3 DEF TableInv, TypeOK, DeviceKnows
<1>11. \A u \in CloudThreads : CloudKnows(u)'
  BY <1>1, <1>3, CloudFrame DEF TableInv, TypeOK, topo, Threads
<1> QED BY <1>5, <1>9, <1>10, <1>11 DEF TableInv, OneDevice

LEMMA DeleteAllKeeps ==
  ASSUME OneDevice, TableInv, NEW t \in DeviceThreads, DeleteAll(t)
  PROVE  TableInv'
<1>1. t \in Threads /\ t \notin CloudThreads
  BY OneWriter
<1>2. /\ pc[t] = "idle" /\ reading = {} /\ p_device_hash' = <<>>
      /\ allocated' = allocated \ Range(p_device_hash)
      /\ entry' = [e \in Entries |-> IF Linked(e) THEN Null ELSE entry[e]]
      /\ UNCHANGED <<lost, reading, pc, p_entry, address, type, topo, keys>>
  BY DEF DeleteAll, calls
<1>3. \A d : ~Linked(d)'
  BY <1>2 DEF Linked, Range
<1>4. allocated' \subseteq lost
  BY <1>2, OneWriter DEF DeviceKnows, Linked
<1>5. TypeOK'
  BY <1>2, <1>4 DEF TypeOK, TableInv, topo, keys
<1>6. TableShape'
  BY <1>2, <1>3, <1>4 DEF TableShape
<1>7. DeviceKnows(t)'
  BY <1>2, <1>3, OneWriter DEF DeviceKnows
<1>8. \A u \in CloudThreads : CloudKnows(u)'
  BY <1>1, <1>2, CloudFrame DEF TableInv, TypeOK, topo, Threads
<1> QED BY <1>5, <1>6, <1>7, <1>8 DEF TableInv, OneDevice

(* A call that fails drops its entry: one not linked yet is lost.          *)
LEMMA FailureKeeps ==
  ASSUME OneDevice, TableInv, NEW t \in DeviceThreads,
         AddNoMemory(t) \/ AddNoLock(t) \/ DeleteNoLock(t)
  PROVE  TableInv'
<1>1. t \in Threads /\ t \notin CloudThreads
  BY OneWriter
<1>2. /\ pc[t] \in {"malloc", "insert", "update", "remove"}
      /\ pc' = [pc EXCEPT ![t] = "idle"] /\ p_entry' = [p_entry EXCEPT ![t] = Null]
      /\ address' = [address EXCEPT ![t] = Null] /\ type' = [type EXCEPT ![t] = Null]
      /\ UNCHANGED <<p_device_hash, entry, allocated, reading, topo, keys>>
      /\ lost' = IF pc[t] = "insert" THEN lost \cup {p_entry[t]} ELSE lost
  BY DEF AddNoMemory, AddNoLock, DeleteNoLock, Leave, Goto, table
<1>3. pc[t] = "insert" => p_entry[t] \in Entries
  BY OneWriter DEF DeviceKnows, TableInv, TypeOK
<1>4. TypeOK'
  BY <1>1, <1>2, <1>3 DEF TypeOK, TableInv, topo, keys
<1>5. \A d : Linked(d)' <=> Linked(d)
  BY <1>2 DEF Linked
<1>6. \A d \in allocated' : Linked(d)' \/ d \in lost'
  <2>1. \A d \in allocated : Linked(d) \/ d \in lost \/ d = p_entry[t]
    <3>1. \A u \in Threads : u # t => p_entry[u] = Null
      BY OneWriter
    <3>2. Null \notin allocated
      BY OneWriter DEF TableInv, TypeOK
    <3> QED BY <3>1, <3>2 DEF TableInv, TableShape
  <2>2. pc[t] = "malloc" => p_entry[t] \notin allocated
    BY OneWriter DEF DeviceKnows, TableInv, TypeOK
  <2>3. pc[t] \in {"update", "remove"} => Linked(p_entry[t])
    BY OneWriter DEF DeviceKnows
  <2> QED BY <1>2, <1>5, <2>1, <2>2, <2>3
<1>7. TableShape'
  BY <1>2, <1>5, <1>6 DEF TableInv, TableShape
<1>8. DeviceKnows(t)'
  BY <1>1, <1>2 DEF TableInv, TypeOK, DeviceKnows
<1>9. \A u \in CloudThreads : CloudKnows(u)'
  BY <1>1, <1>2, CloudFrame DEF TableInv, TypeOK, topo, Threads
<1> QED BY <1>4, <1>7, <1>8, <1>9 DEF TableInv, OneDevice

-----------------------------------------------------------------------------
(* The steps of a cloud thread.                                            *)

LEMMA CompareKeeps ==
  ASSUME TableInv, NEW t \in CloudThreads, NEW devices \in SUBSET Addresses, Compare(t, devices)
  PROVE  TableInv'
<1>1. t \in Threads /\ t \notin DeviceThreads
  BY ConstantsAssumption DEF Threads
<1>2. /\ pc[t] = "idle" /\ pc' = [pc EXCEPT ![t] = "compare"]
      /\ cloud' = [cloud EXCEPT ![t] = devices]
      /\ UNCHANGED <<p_device_hash, entry, allocated, lost, reading, p_entry, address, type,
                     cursor, tmp, asked, reported, left, list, rows>>
  BY DEF Compare, Goto, table, keys
<1>3. TypeOK'
  BY <1>1, <1>2 DEF TypeOK, TableInv, CloudKnows
<1>4. TableShape' /\ \A u \in DeviceThreads : DeviceKnows(u)'
  BY <1>1, <1>2, DeviceFrame DEF TableInv, TypeOK, Threads
<1>5. \A u \in CloudThreads : CloudKnows(u)'
  <2> SUFFICES ASSUME NEW u \in CloudThreads PROVE CloudKnows(u)'
    OBVIOUS
  <2> QED BY <1>1, <1>2 DEF TableInv, TypeOK, CloudKnows, Linked, Threads
<1> QED BY <1>3, <1>4, <1>5 DEF TableInv

LEMMA IterBeginKeeps ==
  ASSUME TableInv, NEW t \in CloudThreads, IterBegin(t)
  PROVE  TableInv'
<1>1. t \in Threads /\ t \notin DeviceThreads
  BY ConstantsAssumption DEF Threads
<1>2. /\ pc[t] = "compare" /\ pc' = [pc EXCEPT ![t] = "iterate"]
      /\ reading' = reading \cup {t} /\ cursor' = [cursor EXCEPT ![t] = HeadOf]
      /\ tmp' = [tmp EXCEPT ![t] = IF HeadOf = Null THEN Null ELSE NextOf(HeadOf)]
      /\ UNCHANGED <<p_device_hash, entry, allocated, lost, p_entry, address, type,
                     cloud, asked, reported, left, list, rows>>
  BY DEF IterBegin, Goto, table, keys
<1>3. TypeOK'
  BY <1>1, <1>2, HeadIsLinked, NextIsLinked DEF TypeOK, TableInv, CloudKnows
<1>4. TableShape' /\ \A u \in DeviceThreads : DeviceKnows(u)'
  BY <1>1, <1>2, DeviceFrame DEF TableInv, TypeOK, Threads
<1>5. \A u \in CloudThreads : CloudKnows(u)'
  <2> SUFFICES ASSUME NEW u \in CloudThreads PROVE CloudKnows(u)'
    OBVIOUS
  <2>1. /\ HeadOf = Null \/ (HeadOf \in Entries /\ Linked(HeadOf))
        /\ HeadOf # Null => NextOf(HeadOf) = Null
                            \/ (NextOf(HeadOf) \in Entries /\ Linked(NextOf(HeadOf)))
    BY HeadIsLinked, NextIsLinked DEF TableInv
  <2> QED BY <1>1, <1>2, <2>1 DEF TableInv, TypeOK, CloudKnows, Linked, Threads
<1> QED BY <1>3, <1>4, <1>5 DEF TableInv

LEMMA KeysBeginKeeps ==
  ASSUME TableInv, NEW t \in CloudThreads, NEW v \in Types, NEW n \in Rows, KeysBegin(t, v, n)
  PROVE  TableInv'
<1>1. t \in Threads /\ t \notin DeviceThreads
  BY ConstantsAssumption DEF Threads
<1>2. /\ pc[t] = "idle" /\ pc' = [pc EXCEPT ![t] = "keys"]
      /\ type' = [type EXCEPT ![t] = v] /\ rows' = [rows EXCEPT ![t] = n]
      /\ reading' = reading \cup {t} /\ cursor' = [cursor EXCEPT ![t] = HeadOf]
      /\ tmp' = [tmp EXCEPT ![t] = IF HeadOf = Null THEN Null ELSE NextOf(HeadOf)]
      /\ UNCHANGED <<p_device_hash, entry, allocated, lost, p_entry, address,
                     cloud, asked, reported, left, list>>
  BY DEF KeysBegin, Goto, table
<1>3. TypeOK'
  BY <1>1, <1>2, HeadIsLinked, NextIsLinked DEF TypeOK, TableInv, CloudKnows
<1>4. TableShape' /\ \A u \in DeviceThreads : DeviceKnows(u)'
  BY <1>1, <1>2, DeviceFrame DEF TableInv, TypeOK, Threads
<1>5. \A u \in CloudThreads : CloudKnows(u)'
  <2> SUFFICES ASSUME NEW u \in CloudThreads PROVE CloudKnows(u)'
    OBVIOUS
  <2>1. /\ HeadOf = Null \/ (HeadOf \in Entries /\ Linked(HeadOf))
        /\ HeadOf # Null => NextOf(HeadOf) = Null
                            \/ (NextOf(HeadOf) \in Entries /\ Linked(NextOf(HeadOf)))
    BY HeadIsLinked, NextIsLinked DEF TableInv
  <2> QED BY <1>1, <1>2, <2>1 DEF TableInv, TypeOK, CloudKnows, Linked, Threads
<1> QED BY <1>3, <1>4, <1>5 DEF TableInv

LEMMA IterEndKeeps ==
  ASSUME TableInv, NEW t \in CloudThreads, IterEnd(t) \/ IterNoLock(t)
  PROVE  TableInv'
<1>1. t \in Threads /\ t \notin DeviceThreads
  BY ConstantsAssumption DEF Threads
<1>2. /\ pc[t] \in {"compare", "iterate"} /\ cursor[t] = Null
      /\ pc' = [pc EXCEPT ![t] = "idle"] /\ reading' = reading \ {t}
      /\ cloud' = [cloud EXCEPT ![t] = {}] /\ asked' = [asked EXCEPT ![t] = {}]
      /\ reported' = [reported EXCEPT ![t] = {}]
      /\ left' = [left EXCEPT ![t] = {}] \/ left' = [left EXCEPT ![t] = left[t] \cup asked[t]]
      /\ UNCHANGED <<p_device_hash, entry, allocated, lost, p_entry, address, type,
                     cursor, tmp, list, rows>>
  BY DEF IterEnd, IterNoLock, EndCompare, Goto, table, keys, TableInv, CloudKnows
<1>3. TypeOK'
  BY <1>1, <1>2 DEF TypeOK, TableInv, CloudKnows
<1>4. TableShape' /\ \A u \in DeviceThreads : DeviceKnows(u)'
  BY <1>1, <1>2, DeviceFrame DEF TableInv, TypeOK, Threads
<1>5. \A u \in CloudThreads : CloudKnows(u)'
  <2> SUFFICES ASSUME NEW u \in CloudThreads PROVE CloudKnows(u)'
    OBVIOUS
  <2> QED BY <1>1, <1>2 DEF TableInv, TypeOK, CloudKnows, Linked, Threads
<1> QED BY <1>3, <1>4, <1>5 DEF TableInv

LEMMA KeysEndKeeps ==
  ASSUME TableInv, NEW t \in CloudThreads, KeysEnd(t)
  PROVE  TableInv'
<1>1. t \in Threads /\ t \notin DeviceThreads
  BY ConstantsAssumption DEF Threads
<1>2. /\ pc[t] = "keys" /\ cursor[t] = Null /\ pc' = [pc EXCEPT ![t] = "idle"]
      /\ reading' = reading \ {t}
      /\ list' = [list EXCEPT ![t] = <<>>] /\ rows' = [rows EXCEPT ![t] = 0]
      /\ p_entry' = [p_entry EXCEPT ![t] = Null]
      /\ address' = [address EXCEPT ![t] = Null] /\ type' = [type EXCEPT ![t] = Null]
      /\ UNCHANGED <<p_device_hash, entry, allocated, lost, cursor, tmp, cloud, asked,
                     reported, left>>
  BY DEF KeysEnd, Leave, Goto, table, topo
<1>3. TypeOK'
  BY <1>1, <1>2 DEF TypeOK, TableInv, CloudKnows
<1>4. TableShape' /\ \A u \in DeviceThreads : DeviceKnows(u)'
  BY <1>1, <1>2, DeviceFrame DEF TableInv, TypeOK, Threads, CloudKnows
<1>5. \A u \in CloudThreads : CloudKnows(u)'
  <2> SUFFICES ASSUME NEW u \in CloudThreads PROVE CloudKnows(u)'
    OBVIOUS
  <2> QED BY <1>1, <1>2 DEF TableInv, TypeOK, CloudKnows, Linked, Threads
<1> QED BY <1>3, <1>4, <1>5 DEF TableInv

(* Three steps that mark an entry, unmark it, or copy its address.         *)
LEMMA FindExKeeps ==
  ASSUME TableInv, NEW t \in CloudThreads, NEW a \in Addresses,
         FindEx(t, a) \/ FindExNoLock(t, a)
  PROVE  TableInv'
<1>1. /\ a \in cloud[t] /\ asked' = [asked EXCEPT ![t] = @ \cup {a}]
      /\ UNCHANGED <<p_device_hash, allocated, lost, reading, pc, p_entry, address, type,
                     cursor, tmp, cloud, reported, left, list, rows>>
      /\ FindEx(t, a) \/ entry' = entry
  BY DEF FindEx, FindExNoLock, calls, keys, table
<1>2. /\ entry' \in [Entries -> HashEntry \cup {Null}]
      /\ \A d \in Entries : entry[d] \in HashEntry =>
           entry'[d] \in HashEntry /\ entry'[d].address = entry[d].address
  <2>1. CASE Find(a) = Null \/ entry' = entry
    BY <1>1, <2>1 DEF FindEx, TableInv, TypeOK
  <2>2. CASE Find(a) # Null /\ FindEx(t, a)
    <3>1. PICK e \in Entries : e = Find(a) /\ entry[e] \in HashEntry
      BY <2>2, FindFinds DEF TableInv, TableShape
    <3>2. entry' = [entry EXCEPT ![e] = [entry[e] EXCEPT !.flag = TRUE]]
      BY <2>2, <3>1 DEF FindEx
    <3> QED BY <3>1, <3>2, EntryUpdates DEF TableInv, TypeOK
  <2> QED BY <1>1, <2>1, <2>2
<1>3. TypeOK'
  BY <1>1, <1>2 DEF TypeOK, TableInv
<1>4. TableShape' /\ \A u \in DeviceThreads : DeviceKnows(u)'
  BY <1>1, <1>2, DeviceFrame
<1>5. \A u \in CloudThreads : CloudKnows(u)'
  BY <1>1 DEF TableInv, CloudKnows, Linked
<1> QED BY <1>3, <1>4, <1>5 DEF TableInv

(* A walk goes on to the entry saved in tmp, or stops.                     *)
LEMMA WalkKeeps ==
  ASSUME TableInv, NEW t \in CloudThreads, t \in reading,
         UNCHANGED <<p_device_hash, reading, pc, p_entry, type>>,
         NEW next, cursor' = [cursor EXCEPT ![t] = next], next = tmp[t] \/ next = Null,
         NEW saved, tmp' = [tmp EXCEPT ![t] = saved],
         saved = Null \/ (Linked(tmp[t]) /\ next = tmp[t] /\ saved = NextOf(tmp[t]))
  PROVE  /\ cursor' \in [CloudThreads -> Entries \cup {Null}]
         /\ tmp' \in [CloudThreads -> Entries \cup {Null}]
         /\ \A u \in CloudThreads : CloudKnows(u)'
<1>1. /\ next # Null => next \in Entries /\ Linked(next)
      /\ saved # Null => saved \in Entries /\ Linked(saved) /\ next # Null
  BY NextIsLinked, ListFacts DEF TableInv, CloudKnows
<1>2. /\ cursor' \in [CloudThreads -> Entries \cup {Null}]
      /\ tmp' \in [CloudThreads -> Entries \cup {Null}]
      /\ cursor'[t] = next /\ tmp'[t] = saved
      /\ \A u \in CloudThreads : u # t => cursor'[u] = cursor[u] /\ tmp'[u] = tmp[u]
  BY <1>1 DEF TableInv, TypeOK
<1>3. \A e : Linked(e)' <=> Linked(e)
  BY DEF Linked
<1>4. ASSUME NEW u \in CloudThreads PROVE CloudKnows(u)'
  <2>1. CloudKnows(u)
    BY DEF TableInv
  <2>2. CASE u = t
    BY <1>1, <1>2, <2>1, <2>2 DEF CloudKnows, Linked
  <2>3. CASE u # t
    BY <1>2, <2>1, <2>3 DEF CloudKnows, Linked
  <2> QED BY <2>2, <2>3
<1> QED BY <1>2, <1>4

LEMMA IterVisitKeeps ==
  ASSUME TableInv, NEW t \in CloudThreads, IterVisit(t)
  PROVE  TableInv'
<1>1. PICK e \in Entries : e = cursor[t] /\ Linked(e) /\ entry[e] \in HashEntry
  BY DEF IterVisit, TableInv, TableShape, CloudKnows
<1>2. /\ pc[t] = "iterate" /\ t \in reading
      /\ UNCHANGED <<p_device_hash, allocated, lost, reading, pc, p_entry, address, type,
                     cloud, asked, left, list, rows>>
      /\ cursor' = [cursor EXCEPT ![t] = tmp[t]]
      /\ tmp' = [tmp EXCEPT ![t] = IF Linked(tmp[t]) THEN NextOf(tmp[t]) ELSE Null]
  BY DEF IterVisit, calls, keys, TableInv, CloudKnows
<1>3. /\ entry' \in [Entries -> HashEntry \cup {Null}]
      /\ \A d \in Entries : entry[d] \in HashEntry =>
           entry'[d] \in HashEntry /\ entry'[d].address = entry[d].address
      /\ reported' \in [CloudThreads -> SUBSET Addresses]
  <2>1. CASE entry[e].flag
    <3>1. entry' = [entry EXCEPT ![e] = [entry[e] EXCEPT !.flag = FALSE]] /\ reported' = reported
      BY <1>1, <2>1 DEF IterVisit
    <3> QED BY <1>1, <3>1, EntryUpdates DEF TableInv, TypeOK
  <2>2. CASE ~entry[e].flag
    <3>1. /\ entry' = entry
          /\ reported' = [reported EXCEPT ![t] = @ \cup {entry[e].address}]
      BY <1>1, <2>2 DEF IterVisit
    <3>2. entry[e].address \in Addresses
      BY <1>1 DEF HashEntry
    <3> QED BY <3>1, <3>2 DEF TableInv, TypeOK
  <2> QED BY <2>1, <2>2
<1>4. /\ cursor' \in [CloudThreads -> Entries \cup {Null}]
      /\ tmp' \in [CloudThreads -> Entries \cup {Null}]
      /\ \A u \in CloudThreads : CloudKnows(u)'
  BY <1>2, WalkKeeps
<1>5. TypeOK'
  BY <1>2, <1>3, <1>4 DEF TypeOK, TableInv
<1>6. TableShape' /\ \A u \in DeviceThreads : DeviceKnows(u)'
  BY <1>2, <1>3, DeviceFrame
<1> QED BY <1>4, <1>5, <1>6 DEF TableInv

LEMMA KeysVisitKeeps ==
  ASSUME TableInv, NEW t \in CloudThreads, KeysVisit(t)
  PROVE  TableInv'
<1> DEFINE full == entry[cursor[t]].type = type[t] /\ Len(list[t]) + 1 = rows[t]
<1>1. PICK e \in Entries : e = cursor[t] /\ Linked(e) /\ entry[e] \in HashEntry
  BY DEF KeysVisit, TableInv, TableShape, CloudKnows
<1>2. /\ pc[t] = "keys" /\ t \in reading
      /\ UNCHANGED <<p_device_hash, entry, allocated, lost, reading, pc, p_entry, address,
                     type, cloud, asked, reported, left, rows>>
      /\ cursor' = [cursor EXCEPT ![t] = IF full THEN Null ELSE tmp[t]]
      /\ tmp' = [tmp EXCEPT ![t] = IF ~full /\ Linked(tmp[t]) THEN NextOf(tmp[t])
                                   ELSE Null]
  BY DEF KeysVisit, calls, table, TableInv, CloudKnows
<1>3. list' \in [CloudThreads -> Seq(Addresses)]
  <2>1. entry[e].address \in Addresses
    BY <1>1 DEF HashEntry
  <2>2. list' = list \/ list' = [list EXCEPT ![t] = Append(list[t], entry[e].address)]
    BY <1>1 DEF KeysVisit
  <2>3. list[t] \in Seq(Addresses)
    BY DEF TableInv, TypeOK
  <2>4. Append(list[t], entry[e].address) \in Seq(Addresses)
    BY <2>1, <2>3
  <2> QED BY <2>2, <2>4 DEF TableInv, TypeOK
<1>4. /\ cursor' \in [CloudThreads -> Entries \cup {Null}]
      /\ tmp' \in [CloudThreads -> Entries \cup {Null}]
      /\ \A u \in CloudThreads : CloudKnows(u)'
  <2>1. CASE full
    BY <1>2, <2>1, WalkKeeps
  <2>2. CASE ~full
    BY <1>2, <2>2, WalkKeeps
  <2> QED BY <2>1, <2>2
<1>5. TypeOK'
  BY <1>2, <1>3, <1>4 DEF TypeOK, TableInv
<1>6. TableShape' /\ \A u \in DeviceThreads : DeviceKnows(u)'
  BY <1>2, DeviceFrame
<1> QED BY <1>4, <1>5, <1>6 DEF TableInv

-----------------------------------------------------------------------------
LEMMA InitTable == Init => TableInv
<1> SUFFICES ASSUME Init PROVE TableInv
  OBVIOUS
<1>1. Null \notin Entries /\ DeviceThreads \cap CloudThreads = {}
  BY ConstantsAssumption
<1>2. \A e : ~Linked(e)
  BY DEF Init, Linked, Range
<1>3. TypeOK
  BY DEF Init, TypeOK
<1>4. TableShape
  BY <1>2 DEF Init, TableShape
<1>5. \A t \in DeviceThreads : DeviceKnows(t)
  BY DEF Init, DeviceKnows, Threads
<1>6. \A t \in CloudThreads : CloudKnows(t)
  BY DEF Init, CloudKnows, Threads
<1> QED BY <1>3, <1>4, <1>5, <1>6 DEF TableInv

LEMMA NextKeepsTable == OneDevice /\ TableInv /\ [Next]_vars => TableInv'
<1> SUFFICES ASSUME OneDevice, TableInv, [Next]_vars PROVE TableInv'
  OBVIOUS
<1>1. ASSUME NEW t \in DeviceThreads, Device(t) PROVE TableInv'
  BY <1>1, AddFindKeeps, AddAllocateKeeps, AddInsertKeeps, AddUpdateKeeps,
     DeleteFindKeeps, DeleteRemoveKeeps, DeleteFreeKeeps, DeleteAllKeeps,
     FailureKeeps DEF Device
<1>2. ASSUME NEW t \in CloudThreads, Cloud(t) PROVE TableInv'
  BY <1>2, CompareKeeps, FindExKeeps, IterBeginKeeps, IterVisitKeeps, IterEndKeeps,
     KeysBeginKeeps, KeysVisitKeeps, KeysEndKeeps DEF Cloud
<1>3. CASE UNCHANGED vars
  BY <1>3 DEF vars, table, calls, topo, keys, TableInv, TypeOK, TableShape,
     DeviceKnows, CloudKnows, Linked
<1> QED BY <1>1, <1>2, <1>3 DEF Next

(* The inductive invariant: what threads know of the table at each point   *)
(* of their calls (subdev_address_hash.c), when one thread writes.         *)
THEOREM TableInvariant ==
  ASSUME OneDevice PROVE Spec => []TableInv
<1>1. OneDevice
  OBVIOUS
<1>2. TableInv /\ [Next]_vars => TableInv'
  BY <1>1, NextKeepsTable
<1> QED BY <1>2, InitTable, PTL DEF Spec

(* The table and the calls on it keep their types.                         *)
THEOREM TypeCorrect ==
  ASSUME OneDevice PROVE Spec => []TypeOK
BY TableInvariant, PTL DEF TableInv

(* With one writer no pointer dangles, however many cloud threads walk the *)
(* table (subdev_address_hash_delete frees after its write section).       *)
THEOREM NothingDangles ==
  ASSUME OneDevice PROVE Spec => []NoDanglingPointer
<1>1. TableInv => NoDanglingPointer
  <2> SUFFICES ASSUME TableInv PROVE NoDanglingPointer
    OBVIOUS
  <2>1. Range(p_device_hash) \subseteq allocated
    BY ListFacts DEF TableInv, TableShape, Linked
  <2>2. ASSUME NEW t \in Threads PROVE p_entry[t] \in allocated \cup {Null}
    <3>1. CASE t \in DeviceThreads
      BY <3>1 DEF TableInv, DeviceKnows, TableShape
    <3>2. CASE t \in CloudThreads
      BY <3>2 DEF TableInv, CloudKnows
    <3> QED BY <3>1, <3>2 DEF Threads
  <2>3. ASSUME NEW t \in CloudThreads
        PROVE  {cursor[t], tmp[t]} \subseteq allocated \cup {Null}
    BY DEF TableInv, CloudKnows, TableShape
  <2> QED BY <2>1, <2>2, <2>3 DEF NoDanglingPointer
<1> QED BY <1>1, TableInvariant, PTL

(* An address is entered once, and memory is in the table, in a thread's   *)
(* hands or lost by an add without the lock (subdev_address_hash_add).     *)
THEOREM AddressesEnteredOnce ==
  ASSUME OneDevice PROVE Spec => []OneEntryPerAddress
<1>1. TableInv => OneEntryPerAddress
  <2> SUFFICES ASSUME TableInv PROVE OneEntryPerAddress
    OBVIOUS
  <2>1. ASSUME NEW k \in DOMAIN p_device_hash, NEW l \in DOMAIN p_device_hash,
               entry[p_device_hash[k]].address = entry[p_device_hash[l]].address
        PROVE  k = l
    <3>1. k \in 1 .. Len(p_device_hash) /\ l \in 1 .. Len(p_device_hash)
      BY ListFacts DEF TableInv
    <3>2. Linked(p_device_hash[k]) /\ Linked(p_device_hash[l])
      BY <2>1 DEF Linked, Range
    <3>3. p_device_hash[k] = p_device_hash[l]
      BY <2>1, <3>1, <3>2, ListFacts DEF TableInv, TableShape
    <3> QED BY <3>1, <3>3 DEF TableInv, TableShape
  <2>2. allocated \subseteq Range(p_device_hash) \cup {p_entry[t] : t \in Threads} \cup lost
    BY DEF TableInv, TableShape, Linked
  <2> QED BY <2>1, <2>2 DEF OneEntryPerAddress
<1> QED BY <1>1, TableInvariant, PTL

-----------------------------------------------------------------------------
(* The marks of a comparison.                                              *)

(* One thread compares the table with the cloud's list.                    *)
OneCloud == \A t, u \in CloudThreads : t = u

(* An entry that the iterator has passed: unmarked, and its device is the  *)
(* cloud's, was reported, or had a mark of a comparison cut short.         *)
Passed(t, e) == /\ ~entry[e].flag
                /\ entry[e].address \in cloud[t] \cup reported[t] \cup left[t]

(* A walk knows the next entry; a new entry is unmarked; marks are those   *)
(* of the addresses asked for, now or in comparisons cut short, and only   *)
(* ahead of the iterator; nothing is asked outside a comparison.           *)
MarkInv ==
  /\ \A t \in CloudThreads : cursor[t] # Null => tmp[t] = NextOf(cursor[t])
  /\ \A t \in DeviceThreads : pc[t] = "insert" => ~entry[p_entry[t]].flag
  /\ \A t \in CloudThreads, e \in Entries : Linked(e) /\ entry[e].flag =>
       entry[e].address \in asked[t] \cup left[t]
  /\ \A t \in CloudThreads : asked[t] \subseteq cloud[t]
  /\ \A t \in CloudThreads : pc[t] \notin {"compare", "iterate"} => asked[t] = {}
  /\ \A t \in CloudThreads : pc[t] = "iterate" =>
       \A k \in 1 .. Len(p_device_hash) : k < Place(t) => Passed(t, p_device_hash[k])

(* Places and entries of the list belong to each other.                    *)
LEMMA Places ==
  ASSUME TypeOK, TableShape
  PROVE  /\ \A e : Linked(e) => /\ PlaceOf(e) \in 1 .. Len(p_device_hash)
                                /\ p_device_hash[PlaceOf(e)] = e
         /\ \A k \in 1 .. Len(p_device_hash) :
              Linked(p_device_hash[k]) /\ PlaceOf(p_device_hash[k]) = k
<1>1. ASSUME NEW e, Linked(e)
      PROVE  PlaceOf(e) \in 1 .. Len(p_device_hash) /\ p_device_hash[PlaceOf(e)] = e
  BY <1>1, ListFacts DEF Linked, PlaceOf, Range
<1>2. ASSUME NEW k \in 1 .. Len(p_device_hash)
      PROVE  Linked(p_device_hash[k]) /\ PlaceOf(p_device_hash[k]) = k
  <2>1. Linked(p_device_hash[k])
    BY ListFacts DEF Linked, Range
  <2> QED BY <1>1, <2>1 DEF TableShape
<1> QED BY <1>1, <1>2

(* The next entry has the next place.                                      *)
LEMMA NextPlace ==
  ASSUME TypeOK, TableShape, NEW e, Linked(e)
  PROVE  IF NextOf(e) = Null THEN PlaceOf(e) = Len(p_device_hash)
         ELSE Linked(NextOf(e)) /\ PlaceOf(NextOf(e)) = PlaceOf(e) + 1
<1> DEFINE i == PlaceOf(e)
           n == Len(p_device_hash)
<1>1. i \in 1 .. n /\ n \in Nat
  BY Places, ListFacts
<1>2. NextOf(e) = IF i < n THEN p_device_hash[i + 1] ELSE Null
  BY DEF NextOf
<1>3. \A k \in 1 .. n : p_device_hash[k] # Null
  BY ListFacts
<1> HIDE DEF i, n
<1>4. CASE i < n
  <2>1. i + 1 \in 1 .. n
    BY <1>1, <1>4
  <2> QED BY <1>2, <1>3, <1>4, <2>1, Places DEF i, n
<1>5. CASE ~(i < n)
  BY <1>1, <1>2, <1>5 DEF i, n
<1> QED BY <1>4, <1>5

(* The first entry has the first place, and a walk of an empty list is at  *)
(* its end.                                                                *)
LEMMA HeadPlace ==
  ASSUME TypeOK, TableShape
  PROVE  IF HeadOf = Null THEN Len(p_device_hash) = 0
         ELSE Linked(HeadOf) /\ PlaceOf(HeadOf) = 1
<1>1. CASE p_device_hash = <<>>
  BY <1>1 DEF HeadOf
<1>2. CASE p_device_hash # <<>>
  <2>1. 1 \in 1 .. Len(p_device_hash) /\ HeadOf = p_device_hash[1]
    BY <1>2, ListFacts DEF HeadOf
  <2>2. HeadOf # Null
    BY <2>1, ListFacts
  <2> QED BY <2>1, <2>2, Places
<1> QED BY <1>1, <1>2

(* A device thread's step disturbs no walk and sets no mark.               *)
LEMMA DeviceMarks ==
  ASSUME TableInv, MarkInv,
         \A t \in CloudThreads : pc'[t] = pc[t],
         UNCHANGED <<reading, topo>>,
         \/ reading = {}
         \/ /\ p_device_hash' = p_device_hash
            /\ \A e \in Entries : Linked(e) => entry'[e] = entry[e],
         \A e \in Entries : Linked(e)' /\ entry'[e].flag =>
            /\ Linked(e) /\ entry[e].flag
            /\ entry'[e].address = entry[e].address,
         \A t \in DeviceThreads : pc'[t] = "insert" => ~entry'[p_entry'[t]].flag
  PROVE  MarkInv'
<1>1. UNCHANGED <<cursor, tmp, cloud, asked, reported, left>>
  BY DEF topo
<1>2. \A t \in CloudThreads :
        /\ cursor[t] # Null => t \in reading
        /\ pc[t] = "iterate" => t \in reading
  BY DEF TableInv, CloudKnows
<1>3. ASSUME NEW t \in CloudThreads, cursor'[t] # Null
      PROVE  tmp'[t] = NextOf(cursor[t])'
  <2>1. p_device_hash' = p_device_hash /\ cursor'[t] = cursor[t] /\ tmp'[t] = tmp[t]
    BY <1>1, <1>2, <1>3
  <2>2. NextOf(cursor[t])' = NextOf(cursor[t])
    BY <1>1, <2>1 DEF NextOf, PlaceOf
  <2> QED BY <1>3, <2>1, <2>2 DEF MarkInv
<1>4. ASSUME NEW t \in CloudThreads, NEW e \in Entries, Linked(e)', entry'[e].flag
      PROVE  entry'[e].address \in asked'[t] \cup left'[t]
  BY <1>1, <1>4 DEF MarkInv
<1>5. ASSUME NEW t \in CloudThreads, pc'[t] = "iterate",
             NEW k \in 1 .. Len(p_device_hash'), k < Place(t)'
      PROVE  Passed(t, p_device_hash[k])'
  <2>1. p_device_hash' = p_device_hash /\ \A e \in Entries : Linked(e) => entry'[e] = entry[e]
    BY <1>2, <1>5
  <2>2. Place(t)' = Place(t)
    BY <1>1, <2>1 DEF Place, PlaceOf
  <2>3. Linked(p_device_hash[k]) /\ p_device_hash[k] \in Entries
    BY <2>1, Places, ListFacts DEF TableInv
  <2>4. Passed(t, p_device_hash[k])
    BY <1>5, <2>1, <2>2 DEF MarkInv
  <2> QED BY <1>1, <2>1, <2>3, <2>4 DEF Passed
<1>6. \A t \in CloudThreads : asked'[t] \subseteq cloud'[t]
  BY <1>1 DEF MarkInv
<1>7. \A t \in CloudThreads, e \in Entries : Linked(e)' /\ entry'[e].flag =>
        entry'[e].address \in asked'[t] \cup left'[t]
  BY <1>4
<1>8. \A t \in CloudThreads : pc'[t] \notin {"compare", "iterate"} => asked'[t] = {}
  BY <1>1 DEF MarkInv
<1> QED BY <1>3, <1>5, <1>6, <1>7, <1>8 DEF MarkInv

LEMMA DeviceKeepsMarks ==
  ASSUME OneDevice, TableInv, MarkInv, NEW t \in DeviceThreads, Device(t)
  PROVE  MarkInv'
<1>1. /\ t \in Threads /\ t \notin CloudThreads /\ CloudThreads \subseteq Threads
      /\ \A u \in DeviceThreads : u = t
  BY OneWriter DEF OneDevice, Threads
<1>2. /\ p_device_hash \in Seq(Entries) /\ entry \in [Entries -> HashEntry \cup {Null}]
      /\ allocated \subseteq Entries /\ DOMAIN pc = Threads /\ DOMAIN p_entry = Threads
      /\ \A e \in Entries : Linked(e) => e \in allocated /\ entry[e] \in HashEntry
      /\ DeviceKnows(t) /\ \A e : Linked(e) => e \in Entries
  BY ListFacts DEF TableInv, TypeOK, TableShape
<1>3. pc[t] = "insert" => ~entry[p_entry[t]].flag
  BY DEF MarkInv
<1>4. ASSUME NEW a \in Addresses, NEW v \in Types, AddFind(t, a, v) PROVE MarkInv'
  <2>1. UNCHANGED <<p_device_hash, entry, reading, topo>>
    BY <1>4 DEF AddFind, table
  <2>2. pc'[t] # "insert" /\ \A u \in CloudThreads : pc'[u] = pc[u]
    BY <1>1, <1>2, <1>4 DEF AddFind, Goto
  <2> QED BY <1>1, <2>1, <2>2, DeviceMarks DEF Linked
<1>5. ASSUME AddAllocate(t) PROVE MarkInv'
  <2>1. PICK e \in Entries \ allocated :
          /\ entry' = [entry EXCEPT ![e] =
                         [address |-> address[t], type |-> type[t], flag |-> FALSE]]
          /\ p_entry' = [p_entry EXCEPT ![t] = e]
    BY <1>5 DEF AddAllocate
  <2>2. UNCHANGED <<p_device_hash, reading, topo>> /\ \A u \in CloudThreads : pc'[u] = pc[u]
    BY <1>1, <1>2, <1>5 DEF AddAllocate, Goto
  <2>3. ~entry'[p_entry'[t]].flag
    BY <1>1, <1>2, <2>1
  <2>4. \A d \in Entries : Linked(d) => entry'[d] = entry[d]
    BY <1>2, <2>1
  <2> QED BY <1>1, <2>2, <2>3, <2>4, DeviceMarks DEF Linked
<1>6. ASSUME AddInsert(t) PROVE MarkInv'
  <2>1. /\ pc[t] = "insert" /\ reading = {} /\ UNCHANGED <<entry, reading, topo>>
        /\ p_device_hash' = Append(p_device_hash, p_entry[t])
        /\ pc'[t] # "insert" /\ \A u \in CloudThreads : pc'[u] = pc[u]
    BY <1>1, <1>2, <1>6 DEF AddInsert, Leave, Goto
  <2>2. \A e \in Entries : Linked(e)' => Linked(e) \/ e = p_entry[t]
    BY <1>2, <2>1 DEF Linked, Range, DeviceKnows
  <2> QED BY <1>1, <1>3, <2>1, <2>2, DeviceMarks
<1>7. ASSUME AddUpdate(t) PROVE MarkInv'
  <2>1. /\ pc[t] = "update" /\ reading = {} /\ UNCHANGED <<p_device_hash, reading, topo>>
        /\ pc'[t] # "insert" /\ \A u \in CloudThreads : pc'[u] = pc[u]
    BY <1>1, <1>2, <1>7 DEF AddUpdate, Leave, Goto
  <2>2. PICK e \in Entries : e = p_entry[t] /\ Linked(e) /\ entry[e] \in HashEntry
    BY <1>2, <2>1 DEF DeviceKnows
  <2>3. entry' = [entry EXCEPT ![e] = [entry[e] EXCEPT !.type = type[t]]]
    BY <1>2, <1>7, <2>2 DEF AddUpdate
  <2>4. /\ \A d \in Entries : d # e => entry'[d] = entry[d]
        /\ entry'[e].flag = entry[e].flag /\ entry'[e].address = entry[e].address
    BY <1>2, <2>2, <2>3 DEF HashEntry
  <2> QED BY <1>1, <2>1, <2>4, DeviceMarks DEF Linked
<1>8. ASSUME NEW a \in Addresses, DeleteFind(t, a) PROVE MarkInv'
  <2>1. UNCHANGED <<p_device_hash, entry, reading, topo>>
    BY <1>8 DEF DeleteFind, table
  <2>2. pc'[t] # "insert" /\ \A u \in CloudThreads : pc'[u] = pc[u]
    BY <1>1, <1>2, <1>8 DEF DeleteFind, Goto
  <2> QED BY <1>1, <2>1, <2>2, DeviceMarks DEF Linked
<1>9. ASSUME DeleteRemove(t) PROVE MarkInv'
  <2>1. /\ pc[t] = "remove" /\ reading = {} /\ UNCHANGED <<entry, reading, topo>>
        /\ p_device_hash' = HASH_DEL(p_entry[t])
        /\ pc'[t] # "insert" /\ \A u \in CloudThreads : pc'[u] = pc[u]
    BY <1>1, <1>2, <1>9 DEF DeleteRemove, Goto
  <2>2. \A e \in Entries : Linked(e)' => Linked(e)
    BY <1>2, <2>1, HashDelIs DEF DeviceKnows, TableInv
  <2> QED BY <1>1, <2>1, <2>2, DeviceMarks
<1>10. ASSUME DeleteFree(t) PROVE MarkInv'
  <2>1. /\ pc[t] = "free" /\ UNCHANGED <<p_device_hash, reading, topo>>
        /\ entry' = [entry EXCEPT ![p_entry[t]] = Null]
        /\ pc'[t] # "insert" /\ \A u \in CloudThreads : pc'[u] = pc[u]
    BY <1>1, <1>2, <1>10 DEF DeleteFree, Leave, Goto
  <2>2. \A d \in Entries : Linked(d) => entry'[d] = entry[d]
    BY <1>2, <2>1 DEF DeviceKnows
  <2> QED BY <1>1, <2>1, <2>2, DeviceMarks DEF Linked
<1>11. ASSUME DeleteAll(t) PROVE MarkInv'
  <2>1. /\ reading = {} /\ UNCHANGED <<reading, topo, pc, p_entry>> /\ pc[t] = "idle"
        /\ p_device_hash' = <<>>
    BY <1>11 DEF DeleteAll, calls
  <2>2. \A e \in Entries : ~Linked(e)'
    BY <2>1 DEF Linked, Range
  <2> QED BY <1>1, <2>1, <2>2, DeviceMarks
<1>12. ASSUME AddNoMemory(t) \/ AddNoLock(t) \/ DeleteNoLock(t) PROVE MarkInv'
  <2>1. UNCHANGED <<p_device_hash, entry, reading, topo>>
    BY <1>12 DEF AddNoMemory, AddNoLock, DeleteNoLock, table
  <2>2. pc'[t] # "insert" /\ \A u \in CloudThreads : pc'[u] = pc[u]
    BY <1>1, <1>2, <1>12 DEF AddNoMemory, AddNoLock, DeleteNoLock, Leave, Goto
  <2> QED BY <1>1, <2>1, <2>2, DeviceMarks DEF Linked
<1> QED
  BY <1>4, <1>5, <1>6, <1>7, <1>8, <1>9, <1>10, <1>11, <1>12 DEF Device

(* A cloud thread's step keeps the marks if it keeps the list, leaves new  *)
(* entries unmarked and does right by its own walk.                        *)
LEMMA CloudMarks ==
  ASSUME OneCloud, TableInv, MarkInv, NEW t \in CloudThreads,
         p_device_hash' = p_device_hash, p_entry' = p_entry,
         \A u \in DeviceThreads : pc'[u] = pc[u],
         \A e \in Entries : ~Linked(e) => entry'[e] = entry[e],
         cursor'[t] # Null => tmp'[t] = NextOf(cursor'[t]),
         \A e \in Entries : Linked(e) /\ entry'[e].flag =>
            entry'[e].address \in asked'[t] \cup left'[t],
         asked'[t] \subseteq cloud'[t],
         pc'[t] \notin {"compare", "iterate"} => asked'[t] = {},
         pc'[t] = "iterate" =>
            \A k \in 1 .. Len(p_device_hash) : k < Place(t)' => Passed(t, p_device_hash[k])'
  PROVE  MarkInv'
<1>1. \A u \in CloudThreads : u = t
  BY DEF OneCloud
<1>2. ASSUME NEW u \in DeviceThreads, pc'[u] = "insert" PROVE ~entry'[p_entry'[u]].flag
  <2>1. p_entry[u] \in Entries /\ ~Linked(p_entry[u]) /\ ~entry[p_entry[u]].flag
    BY <1>2 DEF TableInv, TypeOK, DeviceKnows, MarkInv
  <2> QED BY <2>1
<1>3. \A e \in Entries : Linked(e)' <=> Linked(e)
  BY DEF Linked
<1>4. cursor'[t] # Null => tmp'[t] = NextOf(cursor[t])'
  BY DEF NextOf, PlaceOf
<1>5. pc'[t] = "iterate" =>
        \A k \in 1 .. Len(p_device_hash') : k < Place(t)' => Passed(t, p_device_hash[k])'
  OBVIOUS
<1> QED BY <1>1, <1>2, <1>3, <1>4, <1>5 DEF MarkInv

(* What a cloud thread knows of itself, for the steps below.               *)
LEMMA CloudSelf ==
  ASSUME OneCloud, TableInv, MarkInv, NEW t \in CloudThreads
  PROVE  /\ t \in Threads /\ t \notin DeviceThreads /\ DeviceThreads \subseteq Threads
         /\ p_device_hash \in Seq(Entries) /\ entry \in [Entries -> HashEntry \cup {Null}]
         /\ DOMAIN pc = Threads /\ DOMAIN cursor = CloudThreads
         /\ DOMAIN tmp = CloudThreads /\ DOMAIN cloud = CloudThreads
         /\ DOMAIN asked = CloudThreads /\ DOMAIN reported = CloudThreads
         /\ DOMAIN left = CloudThreads
         /\ \A e \in Entries : Linked(e) => entry[e] \in HashEntry
         /\ \A e : Linked(e) => e \in Entries
         /\ \A k \in 1 .. Len(p_device_hash) :
              p_device_hash[k] \in Entries /\ Linked(p_device_hash[k])
         /\ CloudKnows(t)
         /\ cursor[t] # Null => tmp[t] = NextOf(cursor[t])
         /\ \A e \in Entries : Linked(e) /\ entry[e].flag =>
              entry[e].address \in asked[t] \cup left[t]
         /\ asked[t] \subseteq cloud[t]
         /\ pc[t] \notin {"compare", "iterate"} => asked[t] = {}
         /\ pc[t] = "iterate" =>
              \A k \in 1 .. Len(p_device_hash) : k < Place(t) => Passed(t, p_device_hash[k])
<1>1. t \in Threads /\ t \notin DeviceThreads /\ DeviceThreads \subseteq Threads
  BY ConstantsAssumption DEF Threads
<1>2. /\ p_device_hash \in Seq(Entries) /\ entry \in [Entries -> HashEntry \cup {Null}]
      /\ DOMAIN pc = Threads /\ DOMAIN cursor = CloudThreads
      /\ DOMAIN tmp = CloudThreads /\ DOMAIN cloud = CloudThreads
      /\ DOMAIN asked = CloudThreads /\ DOMAIN reported = CloudThreads
      /\ DOMAIN left = CloudThreads
  BY DEF TableInv, TypeOK
<1>3. /\ \A e \in Entries : Linked(e) => entry[e] \in HashEntry
      /\ \A e : Linked(e) => e \in Entries
      /\ \A k \in 1 .. Len(p_device_hash) :
           p_device_hash[k] \in Entries /\ Linked(p_device_hash[k])
      /\ CloudKnows(t)
  BY ListFacts, Places DEF TableInv, TableShape
<1> QED BY <1>1, <1>2, <1>3 DEF MarkInv

LEMMA CompareMarks ==
  ASSUME OneCloud, TableInv, MarkInv, NEW t \in CloudThreads,
         NEW devices \in SUBSET Addresses, Compare(t, devices)
  PROVE  MarkInv'
<1>1. /\ pc[t] = "idle" /\ pc'[t] = "compare" /\ asked[t] = {}
      /\ \A u \in DeviceThreads : pc'[u] = pc[u]
      /\ UNCHANGED <<p_device_hash, entry, p_entry, cursor, tmp, asked, left>>
  BY CloudSelf DEF Compare, Goto, table
<1> QED BY <1>1, CloudSelf, CloudMarks DEF CloudKnows

LEMMA FindExMarks ==
  ASSUME OneCloud, TableInv, MarkInv, NEW t \in CloudThreads,
         NEW a \in Addresses, FindEx(t, a) \/ FindExNoLock(t, a)
  PROVE  MarkInv'
<1>1. /\ pc[t] = "compare" /\ a \in cloud[t] /\ asked'[t] = asked[t] \cup {a}
      /\ UNCHANGED <<p_device_hash, pc, p_entry, cursor, tmp, cloud, left>>
      /\ FindEx(t, a) \/ entry' = entry
  BY CloudSelf DEF FindEx, FindExNoLock, calls, table
<1>2. /\ \A e \in Entries : ~Linked(e) => entry'[e] = entry[e]
      /\ \A e \in Entries : Linked(e) /\ entry'[e].flag =>
           \/ entry'[e].address = a
           \/ entry[e].flag /\ entry'[e].address = entry[e].address
  <2>1. CASE Find(a) = Null \/ entry' = entry
    BY <1>1, <2>1 DEF FindEx
  <2>2. CASE Find(a) # Null /\ FindEx(t, a)
    <3>1. PICK f \in Entries : f = Find(a) /\ Linked(f) /\ entry[f] \in HashEntry
                                           /\ entry[f].address = a
      BY <2>2, CloudSelf, FindFinds DEF TableInv
    <3>2. entry' = [entry EXCEPT ![f] = [entry[f] EXCEPT !.flag = TRUE]]
      BY <2>2, <3>1 DEF FindEx
    <3>3. /\ \A e \in Entries : e # f => entry'[e] = entry[e]
          /\ entry'[f].address = a
      BY <3>1, <3>2, CloudSelf DEF HashEntry
    <3> QED BY <3>1, <3>3
  <2> QED BY <1>1, <2>1, <2>2
<1> QED BY <1>1, <1>2, CloudSelf, CloudMarks

LEMMA IterBeginMarks ==
  ASSUME OneCloud, TableInv, MarkInv, NEW t \in CloudThreads, IterBegin(t)
  PROVE  MarkInv'
<1>1. /\ pc[t] = "compare" /\ pc'[t] = "iterate"
      /\ \A u \in DeviceThreads : pc'[u] = pc[u]
      /\ UNCHANGED <<p_device_hash, entry, p_entry, cloud, asked, reported, left>>
      /\ cursor'[t] = HeadOf
      /\ tmp'[t] = IF HeadOf = Null THEN Null ELSE NextOf(HeadOf)
  BY CloudSelf DEF IterBegin, Goto, table
<1>2. \A k \in 1 .. Len(p_device_hash) : ~(k < Place(t)')
  <2>1. Place(t)' = IF HeadOf = Null THEN Len(p_device_hash) + 1 ELSE PlaceOf(HeadOf)
    BY <1>1 DEF Place, PlaceOf
  <2>2. Place(t)' = 1
    BY <2>1, HeadPlace DEF TableInv
  <2> QED BY <2>2
<1> QED BY <1>1, <1>2, CloudSelf, CloudMarks

LEMMA IterVisitMarks ==
  ASSUME OneCloud, TableInv, MarkInv, NEW t \in CloudThreads, IterVisit(t)
  PROVE  MarkInv'
<1>1. PICK e \in Entries : e = cursor[t] /\ Linked(e) /\ entry[e] \in HashEntry
  BY CloudSelf DEF IterVisit, CloudKnows
<1>2. /\ pc[t] = "iterate" /\ UNCHANGED <<p_device_hash, pc, p_entry, cloud, asked, left>>
      /\ cursor'[t] = NextOf(e)
      /\ tmp'[t] = IF Linked(NextOf(e)) THEN NextOf(NextOf(e)) ELSE Null
  BY <1>1, CloudSelf, ListFacts DEF IterVisit, calls, TableInv
<1>3. /\ \A d \in Entries : d # e => entry'[d] = entry[d]
      /\ ~entry'[e].flag /\ entry'[e].address = entry[e].address
      /\ reported[t] \subseteq reported'[t]
      /\ entry[e].address \in cloud[t] \cup reported'[t] \cup left[t]
  <2>1. CASE entry[e].flag
    <3>1. /\ entry' = [entry EXCEPT ![e] = [entry[e] EXCEPT !.flag = FALSE]]
          /\ reported' = reported /\ entry[e].address \in cloud[t] \cup left[t]
      BY <1>1, <2>1, CloudSelf DEF IterVisit
    <3> QED BY <1>1, <3>1, CloudSelf DEF HashEntry
  <2>2. CASE ~entry[e].flag
    <3>1. entry' = entry /\ reported' = [reported EXCEPT ![t] = @ \cup {entry[e].address}]
      BY <1>1, <2>2 DEF IterVisit
    <3> QED BY <2>2, <3>1, CloudSelf
  <2> QED BY <2>1, <2>2
<1>4. Place(t) = PlaceOf(e) /\ Place(t)' = PlaceOf(e) + 1
  <2>1. Place(t)' = IF NextOf(e) = Null THEN Len(p_device_hash) + 1 ELSE PlaceOf(NextOf(e))
    BY <1>2 DEF Place, PlaceOf
  <2>2. e # Null
    BY <1>1, ConstantsAssumption
  <2> QED BY <1>1, <2>1, <2>2, NextPlace DEF Place, TableInv
<1>5. ASSUME NEW k \in 1 .. Len(p_device_hash), k < PlaceOf(e) + 1
      PROVE  Passed(t, p_device_hash[k])'
  <2>1. PlaceOf(e) \in Nat /\ p_device_hash[PlaceOf(e)] = e
    BY <1>1, Places DEF TableInv
  <2>2. CASE k = PlaceOf(e)
    BY <1>2, <1>3, <2>1, <2>2 DEF Passed
  <2>3. CASE k # PlaceOf(e)
    <3>1. k < PlaceOf(e)
      BY <1>5, <2>1, <2>3
    <3>2. p_device_hash[k] \in Entries /\ Passed(t, p_device_hash[k])
      BY <1>2, <1>4, <3>1, CloudSelf
    <3>3. CASE p_device_hash[k] = e
      BY <1>2, <1>3, <3>3 DEF Passed
    <3>4. CASE p_device_hash[k] # e
      BY <1>2, <1>3, <3>2, <3>4 DEF Passed
    <3> QED BY <3>3, <3>4
  <2> QED BY <2>2, <2>3
<1>6. NextOf(e) # Null => Linked(NextOf(e))
  BY <1>1, NextPlace DEF TableInv
<1> QED BY <1>1, <1>2, <1>3, <1>4, <1>5, <1>6, CloudSelf, CloudMarks

LEMMA IterEndMarks ==
  ASSUME OneCloud, TableInv, MarkInv, NEW t \in CloudThreads, IterEnd(t)
  PROVE  /\ MarkInv'
         /\ \A k \in DOMAIN p_device_hash :
              entry[p_device_hash[k]].address \in cloud[t] \cup reported[t] \cup left[t]
<1>1. /\ pc[t] = "iterate" /\ cursor[t] = Null /\ pc'[t] = "idle" /\ asked'[t] = {}
      /\ \A u \in DeviceThreads : pc'[u] = pc[u]
      /\ UNCHANGED <<p_device_hash, entry, p_entry, cursor, tmp>>
  BY CloudSelf DEF IterEnd, EndCompare, Goto, table
<1>2. \A k \in 1 .. Len(p_device_hash) : Passed(t, p_device_hash[k])
  BY <1>1, CloudSelf DEF Place
<1>3. \A e \in Entries : Linked(e) => ~entry[e].flag
  BY <1>2, Places DEF Passed, TableInv
<1>4. DOMAIN p_device_hash = 1 .. Len(p_device_hash)
  BY ListFacts DEF TableInv
<1> QED BY <1>1, <1>2, <1>3, <1>4, CloudSelf, CloudMarks DEF Passed

(* A comparison cut short leaves its marks, and says so in left.           *)
LEMMA IterNoLockMarks ==
  ASSUME OneCloud, TableInv, MarkInv, NEW t \in CloudThreads, IterNoLock(t)
  PROVE  MarkInv'
<1>1. /\ pc'[t] = "idle" /\ asked'[t] = {} /\ left'[t] = left[t] \cup asked[t]
      /\ \A u \in DeviceThreads : pc'[u] = pc[u]
      /\ UNCHANGED <<p_device_hash, entry, p_entry, cursor, tmp>>
  BY CloudSelf DEF IterNoLock, EndCompare, Goto, table
<1> QED BY <1>1, CloudSelf, CloudMarks

LEMMA KeysBeginMarks ==
  ASSUME OneCloud, TableInv, MarkInv, NEW t \in CloudThreads,
         NEW v \in Types, NEW n \in Rows, KeysBegin(t, v, n)
  PROVE  MarkInv'
<1>1. /\ pc[t] = "idle" /\ pc'[t] = "keys"
      /\ \A u \in DeviceThreads : pc'[u] = pc[u]
      /\ UNCHANGED <<p_device_hash, entry, p_entry, cloud, asked, reported, left>>
      /\ cursor'[t] = HeadOf
      /\ tmp'[t] = IF HeadOf = Null THEN Null ELSE NextOf(HeadOf)
  BY CloudSelf DEF KeysBegin, Goto, table
<1> QED BY <1>1, CloudSelf, CloudMarks

LEMMA KeysVisitMarks ==
  ASSUME OneCloud, TableInv, MarkInv, NEW t \in CloudThreads, KeysVisit(t)
  PROVE  MarkInv'
<1> DEFINE full == entry[cursor[t]].type = type[t] /\ Len(list[t]) + 1 = rows[t]
<1>1. PICK e \in Entries : e = cursor[t] /\ Linked(e)
  BY CloudSelf DEF KeysVisit, CloudKnows
<1>2. /\ pc[t] = "keys"
      /\ UNCHANGED <<p_device_hash, entry, pc, p_entry, cloud, asked, left>>
      /\ cursor'[t] = IF full THEN Null ELSE tmp[t]
      /\ tmp'[t] = IF ~full /\ Linked(tmp[t]) THEN NextOf(tmp[t]) ELSE Null
      /\ tmp[t] = NextOf(e)
  BY <1>1, CloudSelf, ListFacts DEF KeysVisit, calls, table, TableInv
<1>3. NextOf(e) # Null => Linked(NextOf(e))
  BY <1>1, NextPlace DEF TableInv
<1> QED BY <1>2, <1>3, CloudSelf, CloudMarks

LEMMA KeysEndMarks ==
  ASSUME OneCloud, TableInv, MarkInv, NEW t \in CloudThreads, KeysEnd(t)
  PROVE  MarkInv'
<1>1. /\ pc[t] = "keys" /\ cursor[t] = Null /\ pc'[t] = "idle" /\ p_entry[t] = Null
      /\ \A u \in DeviceThreads : pc'[u] = pc[u]
      /\ p_entry' = [p_entry EXCEPT ![t] = Null]
      /\ UNCHANGED <<p_device_hash, entry, cursor, tmp, cloud, asked, reported, left>>
  BY CloudSelf DEF KeysEnd, Leave, Goto, table, topo, CloudKnows
<1>2. p_entry' = p_entry
  BY <1>1 DEF TableInv, TypeOK
<1> QED BY <1>1, <1>2, CloudSelf, CloudMarks

LEMMA CloudKeepsMarks ==
  ASSUME OneCloud, TableInv, MarkInv, NEW t \in CloudThreads, Cloud(t)
  PROVE  MarkInv'
BY CompareMarks, FindExMarks, IterBeginMarks, IterVisitMarks, IterEndMarks,
   IterNoLockMarks, KeysBeginMarks, KeysVisitMarks, KeysEndMarks DEF Cloud

LEMMA InitMarks == Init => MarkInv
<1> SUFFICES ASSUME Init PROVE MarkInv
  OBVIOUS
<1>1. \A e : ~Linked(e)
  BY DEF Init, Linked, Range
<1> QED BY <1>1, ConstantsAssumption DEF Init, MarkInv, Threads

(* The inductive invariant of the comparison: marks are on the addresses   *)
(* asked for, in this one or in those cut short before it, and ahead of    *)
(* the iterator (subdev_address_hash_find_ex, _iterator).                  *)
THEOREM MarkInvariant ==
  ASSUME OneDevice, OneCloud PROVE Spec => [](TableInv /\ MarkInv)
<1>1. OneDevice /\ OneCloud
  OBVIOUS
<1>2. TableInv /\ MarkInv /\ [Next]_vars => TableInv' /\ MarkInv'
  <2> SUFFICES ASSUME TableInv, MarkInv, [Next]_vars PROVE TableInv' /\ MarkInv'
    OBVIOUS
  <2>1. ASSUME UNCHANGED vars PROVE MarkInv'
    <3>1. UNCHANGED <<p_device_hash, entry, pc, p_entry, reading, topo>>
      BY <2>1 DEF vars, table, calls
    <3> QED BY <3>1, DeviceMarks DEF MarkInv, Linked
  <2>2. ASSUME Next PROVE MarkInv'
    BY <1>1, <2>2, DeviceKeepsMarks, CloudKeepsMarks DEF Next
  <2>3. TableInv'
    BY <1>1, NextKeepsTable
  <2> QED BY <2>1, <2>2, <2>3
<1> QED BY <1>2, InitTable, InitMarks, PTL DEF Spec

(* Marks outlive only a comparison that could not lock the table           *)
(* (subdev_address_hash_find_ex, subdev_address_hash_iterator).            *)
THEOREM MarksAreCurrent ==
  ASSUME OneDevice, OneCloud PROVE Spec => []MarksCurrent
<1>1. OneCloud
  OBVIOUS
<1>2. TableInv /\ MarkInv => MarksCurrent
  <2> SUFFICES ASSUME TableInv, MarkInv, NEW t \in CloudThreads,
                      NEW k \in DOMAIN p_device_hash, entry[p_device_hash[k]].flag
               PROVE  /\ entry[p_device_hash[k]].address \in asked[t] \cup left[t]
                      /\ pc[t] = "iterate" => k >= Place(t)
    BY DEF MarksCurrent
  <2>1. k \in 1 .. Len(p_device_hash) /\ Len(p_device_hash) \in Nat
    BY ListFacts DEF TableInv
  <2>2. p_device_hash[k] \in Entries /\ Linked(p_device_hash[k])
    BY <1>1, <2>1, CloudSelf
  <2>3. ASSUME pc[t] = "iterate" PROVE k >= Place(t)
    <3>1. ~(k < Place(t))
      BY <1>1, <2>1, <2>3, CloudSelf DEF Passed
    <3>2. Place(t) \in Nat
      BY <2>1, Places DEF Place, TableInv, CloudKnows
    <3> QED BY <2>1, <3>1, <3>2
  <2> QED BY <1>1, <2>2, <2>3, CloudSelf
<1> QED BY <1>2, MarkInvariant, PTL

(* A comparison ends with every device that the cloud does not know        *)
(* reported, but those marked by one cut short before it                   *)
(* (subdev_address_hash_iterator, topo_leave_device_cb).                   *)
THEOREM StrangersAreReported ==
  ASSUME OneDevice, OneCloud PROVE Spec => StrangersReported
<1>1. OneCloud
  OBVIOUS
<1>2. TableInv /\ MarkInv /\ [Next]_vars =>
        \A t \in CloudThreads : IterEnd(t) =>
          \A k \in DOMAIN p_device_hash :
            entry[p_device_hash[k]].address \in cloud[t] \cup reported[t] \cup left[t]
  BY <1>1, IterEndMarks
<1> QED BY <1>2, MarkInvariant, PTL DEF Spec, StrangersReported

-----------------------------------------------------------------------------
(* The array of keys.                                                      *)

(* The array holds the devices of the type up to place p, row by row.      *)
Collected(t, p) ==
  /\ Len(list[t]) = Cardinality(HitsUpTo(t, p))
  /\ \A k \in HitsUpTo(t, p) :
       list[t][Cardinality(HitsUpTo(t, k))] = entry[p_device_hash[k]].address

(* What a thread knows in get_keys: it has collected all up to the entry   *)
(* it visits, and has a row left for that; or it is at the end, of the     *)
(* table or of the array.                                                  *)
KeysKnow(t) ==
  IF pc[t] = "keys"
  THEN /\ rows[t] \in Nat \ {0}
       /\ cursor[t] # Null => tmp[t] = NextOf(cursor[t])
       /\ \E p \in 0 .. Len(p_device_hash) :
            /\ Collected(t, p)
            /\ IF cursor[t] # Null
               THEN PlaceOf(cursor[t]) = p + 1 /\ Len(list[t]) < rows[t]
               ELSE \/ p = Len(p_device_hash) /\ Len(list[t]) < rows[t]
                    \/ Len(list[t]) = rows[t]
  ELSE list[t] = <<>>

KeysInv == \A t \in CloudThreads : KeysKnow(t)

(* The members of a set of numbers up to one.                              *)
UpTo(H, k) == {j \in H : j <= k}

(* Counting the members of a set of places up to a place.                  *)
LEMMA CountUpTo ==
  ASSUME NEW n \in Nat, NEW H \in SUBSET (1 .. n)
  PROVE  /\ \A k : IsFiniteSet(UpTo(H, k)) /\ Cardinality(UpTo(H, k)) \in Nat
         /\ Cardinality(UpTo(H, 0)) = 0
         /\ UpTo(H, n) = H
         /\ \A k \in Nat : Cardinality(UpTo(H, k + 1)) =
              IF k + 1 \in H THEN Cardinality(UpTo(H, k)) + 1
              ELSE Cardinality(UpTo(H, k))
         /\ \A k, l \in Nat : k <= l =>
              Cardinality(UpTo(H, k)) <= Cardinality(UpTo(H, l))
         /\ \A k \in Nat, l \in H : k < l =>
              Cardinality(UpTo(H, k)) < Cardinality(UpTo(H, l))
<1> DEFINE U(k) == UpTo(H, k)
<1> USE DEF UpTo
<1>1. IsFiniteSet(H) /\ \A j \in H : j \in Nat /\ j >= 1 /\ j <= n
  <2>1. IsFiniteSet(1 .. n)
    BY FS_Interval
  <2>2. IsFiniteSet(H)
    BY <2>1, FS_Subset
  <2> QED BY <2>2
<1>2. \A k : IsFiniteSet(U(k)) /\ Cardinality(U(k)) \in Nat
  <2> SUFFICES ASSUME NEW k PROVE IsFiniteSet(U(k)) /\ Cardinality(U(k)) \in Nat
    OBVIOUS
  <2>1. IsFiniteSet(U(k))
    BY <1>1, FS_Subset
  <2> QED BY <2>1, FS_CardinalityType
<1>3. Cardinality(U(0)) = 0
  <2>1. \A j \in H : ~(j <= 0)
    BY <1>1
  <2>2. U(0) = {}
    BY <2>1
  <2> QED BY <2>2, FS_EmptySet
<1>4. U(n) = H
  BY <1>1
<1>5. ASSUME NEW k \in Nat
      PROVE  Cardinality(U(k + 1)) =
               IF k + 1 \in H THEN Cardinality(U(k)) + 1 ELSE Cardinality(U(k))
  <2>1. CASE k + 1 \in H
    <3>1. \A j \in H : j <= k + 1 <=> j <= k \/ j = k + 1
      BY <1>1
    <3>2. U(k + 1) = U(k) \cup {k + 1}
      BY <2>1, <3>1
    <3>3. ~(k + 1 <= k)
      OBVIOUS
    <3>4. k + 1 \notin U(k)
      BY <3>3
    <3> QED BY <1>2, <2>1, <3>2, <3>4, FS_AddElement
  <2>2. CASE k + 1 \notin H
    <3>1. \A j \in H : j <= k + 1 <=> j <= k
      BY <1>1, <2>2
    <3>2. U(k + 1) = U(k)
      BY <3>1
    <3> QED BY <2>2, <3>2
  <2> QED BY <2>1, <2>2
<1>6. ASSUME NEW k \in Nat, NEW l \in Nat, k <= l
      PROVE  Cardinality(U(k)) <= Cardinality(U(l))
  <2>1. \A j \in H : j <= k => j <= l
    BY <1>1, <1>6
  <2>2. U(k) \subseteq U(l)
    BY <2>1
  <2> QED BY <1>2, <2>2, FS_Subset
<1>7. ASSUME NEW k \in Nat, NEW l \in H, k < l
      PROVE  Cardinality(U(k)) < Cardinality(U(l))
  <2>1. l <= l /\ ~(l <= k) /\ \A j \in H : j <= k => j <= l
    BY <1>1, <1>7
  <2>2. U(k) \subseteq U(l) /\ l \in U(l) /\ l \notin U(k)
    BY <2>1
  <2>3. Cardinality(U(k)) <= Cardinality(U(l)) /\ Cardinality(U(k)) # Cardinality(U(l))
    BY <1>2, <2>2, FS_Subset
  <2> QED BY <1>2, <2>3
<1> QED BY <1>2, <1>3, <1>4, <1>5, <1>6, <1>7

(* The hits are places of the list.                                        *)
LEMMA HitsArePlaces ==
  ASSUME TypeOK, NEW t \in CloudThreads
  PROVE  /\ Len(p_device_hash) \in Nat
         /\ Hits(t) \in SUBSET (1 .. Len(p_device_hash))
         /\ \A k : HitsUpTo(t, k) = UpTo(Hits(t), k)
BY ListFacts DEF Hits, HitsUpTo, UpTo

(* A step that leaves a walk, and the types and addresses in the table,    *)
(* leaves what the walk has collected.                                     *)
LEMMA KeysStay ==
  ASSUME TableInv, NEW t \in CloudThreads, KeysKnow(t),
         pc'[t] = "keys" <=> pc[t] = "keys", list'[t] = list[t],
         pc[t] = "keys" =>
            /\ rows'[t] = rows[t] /\ type'[t] = type[t]
            /\ cursor'[t] = cursor[t] /\ tmp'[t] = tmp[t]
            /\ p_device_hash' = p_device_hash
            /\ \A e \in Entries : Linked(e) => /\ entry'[e].type = entry[e].type
                                               /\ entry'[e].address = entry[e].address
  PROVE  KeysKnow(t)'
<1>1. CASE pc[t] # "keys"
  BY <1>1 DEF KeysKnow
<1>2. CASE pc[t] = "keys"
  <2>1. /\ rows'[t] = rows[t] /\ type'[t] = type[t]
        /\ cursor'[t] = cursor[t] /\ tmp'[t] = tmp[t] /\ p_device_hash' = p_device_hash
    BY <1>2
  <2>2. \A k \in DOMAIN p_device_hash :
          /\ entry'[p_device_hash[k]].type = entry[p_device_hash[k]].type
          /\ entry'[p_device_hash[k]].address = entry[p_device_hash[k]].address
    BY <1>2, ListFacts, Places DEF TableInv
  <2>3. Hits(t)' = Hits(t)
    BY <2>1, <2>2 DEF Hits
  <2>4. \A p : HitsUpTo(t, p)' = HitsUpTo(t, p) /\ HitsUpTo(t, p) \subseteq DOMAIN p_device_hash
    BY <2>3 DEF HitsUpTo, Hits
  <2>5. NextOf(cursor[t])' = NextOf(cursor[t]) /\ PlaceOf(cursor[t])' = PlaceOf(cursor[t])
    BY <2>1 DEF NextOf, PlaceOf
  <2>6. \A p : Collected(t, p)' <=> Collected(t, p)
    BY <2>1, <2>2, <2>4 DEF Collected
  <2>7. PICK p \in 0 .. Len(p_device_hash) :
          /\ Collected(t, p)
          /\ IF cursor[t] # Null
             THEN PlaceOf(cursor[t]) = p + 1 /\ Len(list[t]) < rows[t]
             ELSE \/ p = Len(p_device_hash) /\ Len(list[t]) < rows[t]
                  \/ Len(list[t]) = rows[t]
    BY <1>2 DEF KeysKnow
  <2>8. /\ Collected(t, p)' /\ p \in 0 .. Len(p_device_hash')
        /\ IF cursor'[t] # Null
           THEN PlaceOf(cursor[t])' = p + 1 /\ Len(list'[t]) < rows'[t]
           ELSE \/ p = Len(p_device_hash') /\ Len(list'[t]) < rows'[t]
                \/ Len(list'[t]) = rows'[t]
    BY <2>1, <2>5, <2>6, <2>7
  <2>9. rows'[t] \in Nat \ {0} /\ (cursor'[t] # Null => tmp'[t] = NextOf(cursor[t])')
    BY <1>2, <2>1, <2>5 DEF KeysKnow
  <2> QED BY <1>2, <2>8, <2>9 DEF KeysKnow
<1> QED BY <1>1, <1>2

(* A device thread's step, seen from a walk: nothing moves.                *)
LEMMA DeviceQuiet ==
  ASSUME OneDevice, TableInv, NEW t \in DeviceThreads, Device(t)
  PROVE  /\ UNCHANGED <<reading, topo, keys>>
         /\ \A u \in CloudThreads : pc'[u] = pc[u] /\ type'[u] = type[u]
         /\ \/ reading = {}
            \/ /\ p_device_hash' = p_device_hash
               /\ \A e \in Entries : Linked(e) => entry'[e] = entry[e]
<1>1. t \in Threads /\ t \notin CloudThreads /\ CloudThreads \subseteq Threads
  BY OneWriter DEF Threads
<1>2. /\ entry \in [Entries -> HashEntry \cup {Null}]
      /\ DOMAIN pc = Threads /\ DOMAIN type = Threads
      /\ \A e \in Entries : Linked(e) => e \in allocated
      /\ DeviceKnows(t)
  BY DEF TableInv, TypeOK, TableShape
<1>3. /\ UNCHANGED <<reading, topo, keys>>
      /\ \A u \in CloudThreads : pc'[u] = pc[u] /\ type'[u] = type[u]
  BY <1>1, <1>2 DEF Device, AddFind, AddAllocate, AddInsert, AddUpdate, DeleteFind,
     DeleteRemove, DeleteFree, DeleteAll, AddNoMemory, AddNoLock, DeleteNoLock, Goto,
     Leave, calls
<1>4. ASSUME reading # {}
      PROVE  /\ p_device_hash' = p_device_hash
             /\ \A e \in Entries : Linked(e) => entry'[e] = entry[e]
  <2>1. \/ UNCHANGED <<p_device_hash, entry>> \/ AddAllocate(t) \/ DeleteFree(t)
    BY <1>4 DEF Device, AddFind, AddInsert, AddUpdate, DeleteFind, DeleteRemove,
       DeleteAll, AddNoMemory, AddNoLock, DeleteNoLock, table
  <2>2. CASE AddAllocate(t)
    <3>1. PICK e \in Entries \ allocated :
            entry' = [entry EXCEPT ![e] =
                        [address |-> address[t], type |-> type[t], flag |-> FALSE]]
      BY <2>2 DEF AddAllocate
    <3>2. p_device_hash' = p_device_hash
      BY <2>2 DEF AddAllocate
    <3> QED BY <1>2, <3>1, <3>2
  <2>3. CASE DeleteFree(t)
    <3>1. /\ p_device_hash' = p_device_hash /\ pc[t] = "free"
          /\ entry' = [entry EXCEPT ![p_entry[t]] = Null]
      BY <2>3 DEF DeleteFree
    <3>2. ~Linked(p_entry[t])
      BY <1>2, <3>1 DEF DeviceKnows
    <3> QED BY <1>2, <3>1, <3>2
  <2> QED BY <2>1, <2>2, <2>3
<1> QED BY <1>3, <1>4

LEMMA DeviceKeepsKeys ==
  ASSUME OneDevice, TableInv, KeysInv, NEW t \in DeviceThreads, Device(t)
  PROVE  KeysInv'
<1> SUFFICES ASSUME NEW u \in CloudThreads PROVE KeysKnow(u)'
  BY DEF KeysInv
<1>1. /\ UNCHANGED <<reading, cursor, tmp, list, rows>>
      /\ pc'[u] = pc[u] /\ type'[u] = type[u]
  BY DeviceQuiet DEF topo, keys
<1>2. pc[u] = "keys" => reading # {}
  BY DEF TableInv, CloudKnows
<1>3. KeysKnow(u)
  BY DEF KeysInv
<1> QED BY <1>1, <1>2, <1>3, DeviceQuiet, KeysStay

(* A cloud thread's step, seen from another's walk: marks change, no more. *)
LEMMA CloudQuiet ==
  ASSUME TableInv, NEW t \in CloudThreads, Cloud(t)
  PROVE  /\ p_device_hash' = p_device_hash
         /\ \A e \in Entries : Linked(e) => /\ entry'[e].type = entry[e].type
                                            /\ entry'[e].address = entry[e].address
         /\ \A u \in CloudThreads : u # t =>
              /\ pc'[u] = pc[u] /\ rows'[u] = rows[u] /\ type'[u] = type[u]
              /\ cursor'[u] = cursor[u] /\ tmp'[u] = tmp[u] /\ list'[u] = list[u]
<1>1. /\ CloudThreads \subseteq Threads
      /\ DOMAIN pc = Threads /\ DOMAIN type = Threads /\ DOMAIN rows = CloudThreads
      /\ DOMAIN cursor = CloudThreads /\ DOMAIN tmp = CloudThreads
      /\ DOMAIN list = CloudThreads /\ entry \in [Entries -> HashEntry \cup {Null}]
      /\ \A e \in Entries : Linked(e) => entry[e] \in HashEntry
  BY DEF TableInv, TypeOK, TableShape, Threads
<1>2. p_device_hash' = p_device_hash
  BY DEF Cloud, Compare, FindEx, FindExNoLock, IterBegin, IterNoLock, IterVisit, IterEnd,
     KeysBegin, KeysVisit, KeysEnd, table
<1>3. ASSUME NEW u \in CloudThreads, u # t
      PROVE  /\ pc'[u] = pc[u] /\ rows'[u] = rows[u] /\ type'[u] = type[u]
             /\ cursor'[u] = cursor[u] /\ tmp'[u] = tmp[u] /\ list'[u] = list[u]
  BY <1>1, <1>3 DEF Cloud, Compare, FindEx, FindExNoLock, IterBegin, IterNoLock,
     IterVisit, IterEnd, EndCompare, KeysBegin, KeysVisit, KeysEnd, Goto, Leave, calls,
     keys, topo
<1>4. ASSUME NEW f \in Entries, Linked(f), NEW b \in BOOLEAN,
             entry' = [entry EXCEPT ![f] = [entry[f] EXCEPT !.flag = b]]
      PROVE  \A e \in Entries : Linked(e) => /\ entry'[e].type = entry[e].type
                                             /\ entry'[e].address = entry[e].address
  <2>1. /\ entry'[f].type = entry[f].type /\ entry'[f].address = entry[f].address
        /\ \A e \in Entries : e # f => entry'[e] = entry[e]
    BY <1>1, <1>4 DEF HashEntry
  <2> QED BY <2>1
<1>5. \A e \in Entries : Linked(e) => /\ entry'[e].type = entry[e].type
                                      /\ entry'[e].address = entry[e].address
  <2>1. CASE entry' = entry
    BY <2>1
  <2>2. ASSUME NEW a \in Addresses, FindEx(t, a), entry' # entry
        PROVE  \E f \in Entries : /\ Linked(f)
                 /\ entry' = [entry EXCEPT ![f] = [entry[f] EXCEPT !.flag = TRUE]]
    <3>1. PICK f \in Entries : f = Find(a) /\ Linked(f)
      BY <2>2, FindFinds DEF FindEx, TableInv
    <3>2. entry' = [entry EXCEPT ![f] = [entry[f] EXCEPT !.flag = TRUE]]
      BY <2>2, <3>1, ListFacts DEF FindEx, TableInv
    <3> QED BY <3>1, <3>2
  <2>3. ASSUME IterVisit(t), entry' # entry
        PROVE  \E f \in Entries : /\ Linked(f)
                 /\ entry' = [entry EXCEPT ![f] = [entry[f] EXCEPT !.flag = FALSE]]
    <3>1. PICK f \in Entries : f = cursor[t] /\ Linked(f)
      BY <2>3 DEF IterVisit, TableInv, CloudKnows
    <3>2. entry' = [entry EXCEPT ![f] = [entry[f] EXCEPT !.flag = FALSE]]
      BY <2>3, <3>1 DEF IterVisit
    <3> QED BY <3>1, <3>2
  <2>4. \/ entry' = entry
        \/ \E a \in Addresses : FindEx(t, a)
        \/ IterVisit(t)
    BY DEF Cloud, Compare, FindExNoLock, IterBegin, IterNoLock, IterEnd, KeysBegin,
       KeysVisit, KeysEnd, table
  <2> QED BY <1>4, <2>1, <2>2, <2>3, <2>4
<1> QED BY <1>2, <1>3, <1>5

(* The first entry, none collected.                                        *)
LEMMA KeysBeginKnows ==
  ASSUME TableInv, NEW t \in CloudThreads, KeysKnow(t),
         NEW v \in Types, NEW n \in Rows, KeysBegin(t, v, n)
  PROVE  KeysKnow(t)'
<1>1. /\ pc'[t] = "keys" /\ rows'[t] = n /\ list'[t] = <<>> /\ type'[t] = v
      /\ UNCHANGED <<p_device_hash, entry>>
      /\ cursor'[t] = HeadOf
      /\ tmp'[t] = IF HeadOf = Null THEN Null ELSE NextOf(HeadOf)
  BY DEF KeysBegin, Goto, table, TableInv, TypeOK, KeysKnow, Threads
<1>2. n \in Nat \ {0}
  BY ConstantsAssumption
<1>3. Len(p_device_hash) \in Nat /\ DOMAIN p_device_hash = 1 .. Len(p_device_hash)
  BY ListFacts DEF TableInv
<1>4. HitsUpTo(t, 0)' = {}
  BY <1>1, <1>3 DEF HitsUpTo, Hits
<1>5. Collected(t, 0)'
  BY <1>1, <1>4, FS_EmptySet DEF Collected
<1>6. /\ cursor'[t] # Null => tmp'[t] = NextOf(cursor[t])' /\ PlaceOf(cursor[t])' = 1
      /\ cursor'[t] = Null => Len(p_device_hash) = 0
  BY <1>1, HeadPlace DEF TableInv, NextOf, PlaceOf
<1>7. Len(list'[t]) = 0 /\ 0 \in 0 .. Len(p_device_hash')
  BY <1>1, <1>3
<1> QED BY <1>1, <1>2, <1>5, <1>6, <1>7 DEF KeysKnow

(* The entry visited is the next one collected, if it has the type.        *)
LEMMA KeysVisitKnows ==
  ASSUME TableInv, NEW t \in CloudThreads, KeysKnow(t), KeysVisit(t)
  PROVE  KeysKnow(t)'
<1> DEFINE h == p_device_hash
           full == entry[cursor[t]].type = type[t] /\ Len(list[t]) + 1 = rows[t]
<1>1. PICK e \in Entries : e = cursor[t] /\ e # Null /\ Linked(e) /\ entry[e] \in HashEntry
  BY DEF KeysVisit, TableInv, TableShape, CloudKnows
<1>2. PICK p \in 0 .. Len(h) :
        /\ Collected(t, p) /\ PlaceOf(e) = p + 1 /\ Len(list[t]) < rows[t]
        /\ rows[t] \in Nat \ {0} /\ tmp[t] = NextOf(e)
  BY <1>1 DEF KeysVisit, KeysKnow
<1>3. /\ pc[t] = "keys" /\ UNCHANGED <<p_device_hash, entry, pc, type, rows>>
      /\ list' = IF entry[e].type = type[t]
                 THEN [list EXCEPT ![t] = Append(@, entry[e].address)] ELSE list
      /\ cursor'[t] = IF full THEN Null ELSE NextOf(e)
      /\ tmp'[t] = IF ~full /\ Linked(NextOf(e)) THEN NextOf(NextOf(e)) ELSE Null
  BY <1>1, <1>2 DEF KeysVisit, calls, table, TableInv, TypeOK
<1>4. /\ Len(h) \in Nat /\ DOMAIN h = 1 .. Len(h) /\ p + 1 \in 1 .. Len(h) /\ h[p + 1] = e
      /\ p \in Nat /\ list[t] \in Seq(Addresses) /\ entry[e].address \in Addresses
  BY <1>1, <1>2, ListFacts, Places DEF TableInv, TypeOK, HashEntry
<1>5. \A k : HitsUpTo(t, k)' = HitsUpTo(t, k)
  BY <1>3 DEF HitsUpTo, Hits
<1>6. p + 1 \in Hits(t) <=> entry[e].type = type[t]
  BY <1>4 DEF Hits
<1>7. /\ Hits(t) \in SUBSET (1 .. Len(h))
      /\ \A k : HitsUpTo(t, k) = UpTo(Hits(t), k)
      /\ \A k : Cardinality(HitsUpTo(t, k)) \in Nat
      /\ Cardinality(HitsUpTo(t, p + 1)) =
           IF p + 1 \in Hits(t) THEN Cardinality(HitsUpTo(t, p)) + 1
           ELSE Cardinality(HitsUpTo(t, p))
      /\ \A k, l \in Nat : k <= l =>
           Cardinality(HitsUpTo(t, k)) <= Cardinality(HitsUpTo(t, l))
      /\ Cardinality(HitsUpTo(t, 0)) = 0
      /\ \A k \in Nat, l \in Hits(t) : k < l =>
           Cardinality(HitsUpTo(t, k)) < Cardinality(HitsUpTo(t, l))
  <2>1. /\ Len(h) \in Nat /\ Hits(t) \in SUBSET (1 .. Len(h))
        /\ \A k : HitsUpTo(t, k) = UpTo(Hits(t), k)
    BY HitsArePlaces DEF TableInv
  <2>2. PICK n \in Nat : n = Len(h)
    BY <2>1
  <2>3. PICK H \in SUBSET (1 .. n) : H = Hits(t)
    BY <2>1, <2>2
  <2>4. \A k : HitsUpTo(t, k) = UpTo(H, k)
    BY <2>1, <2>3
  <2>5. /\ \A k : Cardinality(UpTo(H, k)) \in Nat
        /\ \A k \in Nat : Cardinality(UpTo(H, k + 1)) =
             IF k + 1 \in H THEN Cardinality(UpTo(H, k)) + 1
             ELSE Cardinality(UpTo(H, k))
        /\ \A k, l \in Nat : k <= l =>
             Cardinality(UpTo(H, k)) <= Cardinality(UpTo(H, l))
        /\ Cardinality(UpTo(H, 0)) = 0
        /\ \A k \in Nat, l \in H : k < l =>
             Cardinality(UpTo(H, k)) < Cardinality(UpTo(H, l))
    BY CountUpTo
  <2>6. p \in Nat
    BY <1>4
  <2>7. Cardinality(HitsUpTo(t, p + 1)) = IF p + 1 \in Hits(t)
                                          THEN Cardinality(HitsUpTo(t, p)) + 1
                                          ELSE Cardinality(HitsUpTo(t, p))
    BY <2>3, <2>4, <2>5, <2>6
  <2>8. /\ \A k : Cardinality(HitsUpTo(t, k)) \in Nat
        /\ Cardinality(HitsUpTo(t, 0)) = 0
    BY <2>4, <2>5
  <2>9. \A k, l \in Nat : k <= l =>
          Cardinality(HitsUpTo(t, k)) <= Cardinality(HitsUpTo(t, l))
    BY <2>4, <2>5
  <2>10. \A k \in Nat, l \in Hits(t) : k < l =>
           Cardinality(HitsUpTo(t, k)) < Cardinality(HitsUpTo(t, l))
    BY <2>3, <2>4, <2>5
  <2> QED BY <2>1, <2>7, <2>8, <2>9, <2>10
<1>8. ASSUME NEW k \in HitsUpTo(t, p + 1)
      PROVE  \/ k = p + 1 \/ /\ k \in HitsUpTo(t, p)
                             /\ Cardinality(HitsUpTo(t, k)) \in 1 .. Len(list[t])
  <2>1. k \in Hits(t) /\ k \in Nat /\ k <= p + 1 /\ 0 < k
    <3>1. k \in Hits(t) /\ k <= p + 1
      BY DEF HitsUpTo
    <3>2. k \in 1 .. Len(h)
      BY <1>4, <3>1 DEF Hits
    <3> QED BY <1>4, <3>1, <3>2
  <2>2. CASE k <= p
    <3>1. k \in HitsUpTo(t, p)
      BY <2>1, <2>2 DEF HitsUpTo
    <3>2. /\ Cardinality(HitsUpTo(t, k)) \in Nat /\ Cardinality(HitsUpTo(t, k)) > 0
          /\ Cardinality(HitsUpTo(t, k)) <= Cardinality(HitsUpTo(t, p))
      BY <1>4, <1>7, <2>1, <2>2
    <3>3. Cardinality(HitsUpTo(t, p)) = Len(list[t])
      BY <1>2 DEF Collected
    <3> QED BY <1>4, <3>1, <3>2, <3>3
  <2>3. CASE k = p + 1
    BY <2>3
  <2> QED BY <1>4, <2>1, <2>2, <2>3
<1>9. Collected(t, p + 1)' /\ Len(list'[t]) = IF entry[e].type = type[t]
                                              THEN Len(list[t]) + 1 ELSE Len(list[t])
  <2>1. /\ Len(list[t]) = Cardinality(HitsUpTo(t, p))
        /\ \A k \in HitsUpTo(t, p) :
             list[t][Cardinality(HitsUpTo(t, k))] = entry[h[k]].address
    BY <1>2 DEF Collected
  <2>2. CASE entry[e].type = type[t]
    <3>1. list'[t] = Append(list[t], entry[e].address)
      BY <1>3, <2>2 DEF TableInv, TypeOK
    <3>2. /\ Len(list'[t]) = Len(list[t]) + 1
          /\ list'[t][Len(list[t]) + 1] = entry[e].address
          /\ \A i \in 1 .. Len(list[t]) : list'[t][i] = list[t][i]
      BY <1>4, <3>1
    <3>3. Len(list'[t]) = Cardinality(HitsUpTo(t, p + 1))
      BY <1>6, <1>7, <2>1, <2>2, <3>2
    <3>4. ASSUME NEW k \in HitsUpTo(t, p + 1)
          PROVE  list'[t][Cardinality(HitsUpTo(t, k))] = entry[h[k]].address
      BY <1>4, <1>8, <2>1, <3>2, <3>3, <3>4
    <3> QED BY <1>3, <1>5, <2>2, <3>2, <3>3, <3>4 DEF Collected
  <2>3. CASE entry[e].type # type[t]
    <3>1. list'[t] = list[t] /\ Len(list[t]) = Cardinality(HitsUpTo(t, p + 1))
      BY <1>3, <1>6, <1>7, <2>1, <2>3
    <3>2. \A k \in HitsUpTo(t, p + 1) : k \in HitsUpTo(t, p)
      BY <1>6, <1>7, <1>8, <2>3 DEF HitsUpTo
    <3> QED BY <1>3, <1>5, <2>1, <2>3, <3>1, <3>2 DEF Collected
  <2> QED BY <2>2, <2>3
<1>10. /\ p + 1 \in 0 .. Len(h) /\ (NextOf(e) = Null => p + 1 = Len(h))
       /\ NextOf(e) # Null => Linked(NextOf(e)) /\ PlaceOf(NextOf(e)) = p + 2
  BY <1>1, <1>2, <1>4, NextPlace DEF TableInv
<1>11. /\ cursor'[t] # Null => /\ cursor'[t] = NextOf(e)
                               /\ tmp'[t] = NextOf(cursor[t])' /\ PlaceOf(cursor[t])' = p + 2
       /\ cursor'[t] = Null => \/ full \/ p + 1 = Len(h)
  <2>1. cursor'[t] # Null => tmp'[t] = NextOf(NextOf(e)) /\ cursor'[t] = NextOf(e)
    BY <1>3, <1>10
  <2>2. cursor'[t] # Null => /\ NextOf(cursor[t])' = NextOf(cursor'[t])
                             /\ PlaceOf(cursor[t])' = PlaceOf(cursor'[t])
    BY <1>3 DEF NextOf, PlaceOf
  <2> QED BY <1>3, <1>10, <2>1, <2>2
<1>12. IF full THEN Len(list'[t]) = rows'[t] /\ cursor'[t] = Null
       ELSE Len(list'[t]) < rows'[t]
  BY <1>1, <1>2, <1>3, <1>4, <1>9
<1>13. IF cursor'[t] # Null
       THEN PlaceOf(cursor[t])' = (p + 1) + 1 /\ Len(list'[t]) < rows'[t]
       ELSE \/ p + 1 = Len(p_device_hash') /\ Len(list'[t]) < rows'[t]
            \/ Len(list'[t]) = rows'[t]
  <2>1. p_device_hash' = h
    BY <1>3
  <2> HIDE DEF h, full
  <2>2. CASE cursor'[t] # Null
    <3>1. ~full
      BY <1>12, <2>2
    <3>2. PlaceOf(cursor[t])' = p + 2 /\ Len(list'[t]) < rows'[t]
      BY <1>11, <1>12, <2>2, <3>1
    <3>3. p + 2 = (p + 1) + 1
      BY <1>4
    <3> QED BY <2>2, <3>2, <3>3
  <2>3. CASE cursor'[t] = Null /\ full
    BY <1>12, <2>3
  <2>4. CASE cursor'[t] = Null /\ ~full
    <3>1. p + 1 = Len(h) /\ Len(list'[t]) < rows'[t]
      BY <1>11, <1>12, <2>4
    <3> QED BY <2>1, <2>4, <3>1
  <2> QED BY <2>2, <2>3, <2>4
<1> HIDE DEF h, full
<1>14. p + 1 \in 0 .. Len(p_device_hash') /\ rows'[t] \in Nat \ {0} /\ pc'[t] = "keys"
  BY <1>2, <1>3, <1>10 DEF h
<1> QED BY <1>9, <1>11, <1>13, <1>14 DEF KeysKnow

(* At the end the array is as the property says: the first rows of hits.   *)
LEMMA KeysEndKnows ==
  ASSUME TableInv, NEW t \in CloudThreads, KeysKnow(t), KeysEnd(t)
  PROVE  /\ KeysKnow(t)'
         /\ Len(list[t]) = IF Cardinality(Hits(t)) < rows[t] THEN Cardinality(Hits(t))
                           ELSE rows[t]
         /\ \A k \in Hits(t) : Cardinality(HitsUpTo(t, k)) <= rows[t] =>
              list[t][Cardinality(HitsUpTo(t, k))] = entry[p_device_hash[k]].address
<1>1. pc[t] = "keys" /\ cursor[t] = Null /\ pc'[t] = "idle" /\ list'[t] = <<>>
  BY DEF KeysEnd, Leave, Goto, TableInv, TypeOK, Threads
<1>2. KeysKnow(t)'
  BY <1>1 DEF KeysKnow
<1>3. PICK p \in 0 .. Len(p_device_hash) :
        /\ Collected(t, p) /\ rows[t] \in Nat \ {0}
        /\ \/ p = Len(p_device_hash) /\ Len(list[t]) < rows[t]
           \/ Len(list[t]) = rows[t]
  BY <1>1 DEF KeysKnow
<1>4. PICK n \in Nat : n = Len(p_device_hash)
  BY HitsArePlaces DEF TableInv
<1>5. PICK H \in SUBSET (1 .. n) : H = Hits(t)
  BY <1>4, HitsArePlaces DEF TableInv
<1>6. \A k : HitsUpTo(t, k) = UpTo(H, k)
  BY <1>5, HitsArePlaces DEF TableInv
<1>7. /\ \A k : Cardinality(UpTo(H, k)) \in Nat
      /\ UpTo(H, n) = H
      /\ \A k, l \in Nat : k <= l => Cardinality(UpTo(H, k)) <= Cardinality(UpTo(H, l))
      /\ \A k \in Nat, l \in H : k < l => Cardinality(UpTo(H, k)) < Cardinality(UpTo(H, l))
  BY CountUpTo
<1>8. p \in Nat /\ p <= n /\ Cardinality(UpTo(H, p)) = Len(list[t])
  BY <1>3, <1>4, <1>6 DEF Collected
<1>9. Cardinality(UpTo(H, p)) <= Cardinality(H)
  BY <1>7, <1>8
<1>10. Len(list[t]) = IF Cardinality(Hits(t)) < rows[t] THEN Cardinality(Hits(t))
                      ELSE rows[t]
  <2>1. Cardinality(H) \in Nat
    <3>1. Cardinality(UpTo(H, n)) \in Nat
      BY <1>7
    <3> QED BY <1>7, <3>1
  <2>2. Len(list[t]) \in Nat
    BY <1>7, <1>8
  <2>3. p = n => Cardinality(H) = Len(list[t])
    BY <1>7, <1>8
  <2> QED BY <1>3, <1>4, <1>5, <1>8, <1>9, <2>1, <2>2, <2>3
<1>11. ASSUME NEW k \in Hits(t), Cardinality(HitsUpTo(t, k)) <= rows[t]
       PROVE  list[t][Cardinality(HitsUpTo(t, k))] = entry[p_device_hash[k]].address
  <2>1. k \in H /\ k \in 1 .. n
    BY <1>5
  <2>2. k <= p
    <3>1. CASE p = n
      BY <2>1, <3>1
    <3>2. CASE Len(list[t]) = rows[t]
      <4>1. ASSUME p < k PROVE FALSE
        <5>1. Cardinality(UpTo(H, p)) < Cardinality(UpTo(H, k))
          BY <1>7, <1>8, <2>1, <4>1
        <5> QED BY <1>3, <1>6, <1>7, <1>8, <1>11, <3>2, <5>1
      <4> QED BY <1>8, <2>1, <4>1
    <3> QED BY <1>3, <1>4, <3>1, <3>2
  <2>3. k \in HitsUpTo(t, p)
    BY <2>2 DEF HitsUpTo
  <2> QED BY <1>3, <2>3 DEF Collected
<1> QED BY <1>2, <1>10, <1>11

LEMMA CloudKeepsKeys ==
  ASSUME TableInv, KeysInv, NEW t \in CloudThreads, Cloud(t)
  PROVE  KeysInv'
<1> SUFFICES ASSUME NEW u \in CloudThreads PROVE KeysKnow(u)'
  BY DEF KeysInv
<1>1. KeysKnow(u) /\ KeysKnow(t)
  BY DEF KeysInv
<1>2. CASE u # t
  BY <1>1, <1>2, CloudQuiet, KeysStay
<1>3. ASSUME pc[t] # "keys", pc'[t] # "keys", list'[t] = list[t] PROVE KeysKnow(t)'
  BY <1>1, <1>3 DEF KeysKnow
<1>4. DOMAIN pc = Threads /\ t \in Threads
  BY DEF TableInv, TypeOK, Threads
<1>5. CASE u = t
  <2>1. ASSUME NEW devices \in SUBSET Addresses, Compare(t, devices) PROVE KeysKnow(t)'
    BY <1>3, <1>4, <2>1 DEF Compare, Goto, keys
  <2>2. ASSUME NEW a \in Addresses, FindEx(t, a) \/ FindExNoLock(t, a)
        PROVE  KeysKnow(t)'
    BY <1>3, <2>2 DEF FindEx, FindExNoLock, calls, keys
  <2>3. CASE IterBegin(t)
    BY <1>3, <1>4, <1>5, <2>3 DEF IterBegin, Goto, keys
  <2>4. CASE IterVisit(t)
    BY <1>3, <1>5, <2>4 DEF IterVisit, calls, keys
  <2>5. CASE IterEnd(t) \/ IterNoLock(t)
    BY <1>3, <1>4, <1>5, <2>5 DEF IterEnd, IterNoLock, EndCompare, Goto, keys
  <2> QED BY <1>1, <1>5, <2>1, <2>2, <2>3, <2>4, <2>5, KeysBeginKnows, KeysVisitKnows,
             KeysEndKnows DEF Cloud
<1> QED BY <1>2, <1>5

LEMMA InitKeys == Init => KeysInv
BY ConstantsAssumption DEF Init, KeysInv, KeysKnow, Threads

(* The inductive invariant of get_keys: up to the entry visited, the array *)
(* has the devices of the type (subdev_address_hash_get_keys).             *)
THEOREM KeysInvariant ==
  ASSUME OneDevice PROVE Spec => [](TableInv /\ KeysInv)
<1>1. OneDevice
  OBVIOUS
<1>2. TableInv /\ KeysInv /\ [Next]_vars => TableInv' /\ KeysInv'
  <2> SUFFICES ASSUME TableInv, KeysInv, [Next]_vars PROVE TableInv' /\ KeysInv'
    OBVIOUS
  <2>1. ASSUME UNCHANGED vars PROVE KeysInv'
    <3>1. UNCHANGED <<p_device_hash, entry, pc, type, cursor, tmp, list, rows>>
      BY <2>1 DEF vars, table, calls, topo, keys
    <3> QED BY <3>1, KeysStay DEF KeysInv
  <2>2. ASSUME Next PROVE KeysInv'
    BY <1>1, <2>2, DeviceKeepsKeys, CloudKeepsKeys DEF Next
  <2>3. TableInv'
    BY <1>1, NextKeepsTable
  <2> QED BY <2>1, <2>2, <2>3
<1> QED BY <1>2, InitTable, InitKeys, PTL DEF Spec

(* get_keys returns the first devices of the type, as many as fit, however *)
(* many cloud threads walk the table (subdev_address_hash_get_keys).       *)
THEOREM KeysAreOfType ==
  ASSUME OneDevice PROVE Spec => KeysOfType
<1>1. ASSUME TableInv, KeysInv, NEW t \in CloudThreads, KeysEnd(t)
      PROVE  /\ Len(list[t]) = IF Cardinality(Hits(t)) < rows[t] THEN Cardinality(Hits(t))
                               ELSE rows[t]
             /\ \A k \in Hits(t) : Cardinality(HitsUpTo(t, k)) <= rows[t] =>
                  list[t][Cardinality(HitsUpTo(t, k))] = entry[p_device_hash[k]].address
  BY <1>1, KeysEndKnows DEF KeysInv
<1>2. TableInv /\ KeysInv /\ [Next]_vars =>
        \A t \in CloudThreads : KeysEnd(t) =>
          LET count == Cardinality(Hits(t))
              Row(k) == Cardinality(HitsUpTo(t, k))
          IN /\ Len(list[t]) = IF count < rows[t] THEN count ELSE rows[t]
             /\ \A k \in Hits(t) : Row(k) <= rows[t] =>
                  list[t][Row(k)] = entry[p_device_hash[k]].address
  BY <1>1
<1> QED BY <1>2, KeysInvariant, PTL DEF Spec, KeysOfType
=============================================================================
