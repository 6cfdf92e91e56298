---------------------------- MODULE UTHashProofs ----------------------------
(***************************************************************************)
(* For any elements, keys, hashes, table sizes and thresholds, a hash      *)
(* table of uthash.h stays intact: its application order, which does not   *)
(* depend on the buckets; the chains of its buckets, through expansions;   *)
(* and what HASH_FIND finds, which is what is listed.                      *)
(***************************************************************************)
EXTENDS UTHash, SequenceLemmas, TLAPS

(* An element is in the order once; delete_all is at the first element.    *)
OrderInv ==
  /\ order \in Seq(Elements)
  /\ \A k, l \in 1 .. Len(order) : order[k] = order[l] => k = l
  /\ prev \in [Elements -> Pointer] /\ next \in [Elements -> Pointer]
  /\ el # NULL => order # <<>> /\ el = order[1] /\ del_tmp = next[el]

ListInv == OrderInv /\ ListIntact

(* A listed element has one place.                                         *)
LEMMA PlaceOfIs ==
  ASSUME OrderInv, NEW k \in 1 .. Len(order)
  PROVE  PlaceOf(order[k]) = k
<1>1. DOMAIN order = 1 .. Len(order)
  BY DEF OrderInv
<1>2. PlaceOf(order[k]) = CHOOSE j \in DOMAIN order : order[j] = order[k]
  BY DEF PlaceOf
<1> QED BY <1>1, <1>2 DEF OrderInv

(* An element that no pointer reaches is not listed, and conversely.       *)
LEMMA ListedIffReached ==
  ASSUME ListInv, NEW e \in Elements
  PROVE  (e = head \/ prev[e] # NULL) <=> \E k \in 1 .. Len(order) : order[k] = e
<1>1. DOMAIN order = 1 .. Len(order) /\ order \in Seq(Elements)
  BY DEF ListInv, OrderInv
<1>2. NULL \notin Elements
  BY HashAssumption
<1>3. ASSUME e = head PROVE \E k \in 1 .. Len(order) : order[k] = e
  BY <1>1, <1>2, <1>3 DEF ListInv, ListIntact
<1>4. ASSUME prev[e] # NULL PROVE \E k \in 1 .. Len(order) : order[k] = e
  BY <1>1, <1>4 DEF ListInv, ListIntact
<1>5. ASSUME NEW k \in 1 .. Len(order), order[k] = e
      PROVE  e = head \/ prev[e] # NULL
  <2>1. CASE k = 1
    BY <1>1, <1>5, <2>1 DEF ListInv, ListIntact
  <2>2. CASE k > 1
    <3>1. prev[order[k]] = order[k - 1]
      BY <1>1, <2>2 DEF ListInv, ListIntact
    <3>2. order[k - 1] \in Elements
      BY <1>1, <2>2
    <3> QED BY <1>2, <1>5, <3>1, <3>2
  <2> QED BY <2>1, <2>2
<1> QED BY <1>3, <1>4, <1>5

(* The patch-up of HASH_DELETE keeps the list intact.                      *)
LEMMA UnlistKeepsList ==
  ASSUME ListInv, NEW i \in 1 .. Len(order), Unlist(order[i])
  PROVE  /\ order' \in Seq(Elements)
         /\ \A k, l \in 1 .. Len(order') : order'[k] = order'[l] => k = l
         /\ prev' \in [Elements -> Pointer] /\ next' \in [Elements -> Pointer]
         /\ ListIntact'
         /\ Len(order') = Len(order) - 1
         /\ \A k \in 1 .. Len(order') :
              order'[k] = IF k < i THEN order[k] ELSE order[k + 1]
<1> DEFINE e == order[i]
           n == Len(order)
<1>1. /\ order \in Seq(Elements) /\ DOMAIN order = 1 .. n /\ n \in Nat
      /\ \A k, l \in 1 .. n : order[k] = order[l] => k = l
      /\ \A k \in 1 .. n : order[k] \in Elements
      /\ NULL \notin Elements
  BY HashAssumption DEF ListInv, OrderInv
<1>2. /\ order' \in Seq(Elements) /\ Len(order') = n - 1
      /\ \A k \in 1 .. n - 1 : order'[k] = IF k < i THEN order[k] ELSE order[k + 1]
  <2>1. order' = RemoveAt(order, i)
    BY PlaceOfIs DEF Unlist, ListInv
  <2> QED BY <1>1, <2>1, RemoveAtIs
<1>3. \A k, l \in 1 .. n - 1 : order'[k] = order'[l] => k = l
  BY <1>1, <1>2
<1>4. /\ prev[e] = IF i > 1 THEN order[i - 1] ELSE NULL
      /\ next[e] = IF i < n THEN order[i + 1] ELSE NULL
  BY <1>1 DEF ListInv, ListIntact
<1>5. /\ prev \in [Elements -> Pointer] /\ next \in [Elements -> Pointer]
  BY DEF ListInv, OrderInv
<1>6. /\ next' = [x \in Elements |-> IF x = e THEN NULL
                                    ELSE IF x = prev[e] THEN next[e] ELSE next[x]]
      /\ prev' = [x \in Elements |-> IF x = e THEN NULL
                                    ELSE IF x = next[e] THEN prev[e] ELSE prev[x]]
  BY DEF Unlist
<1>7. /\ prev' \in [Elements -> Pointer] /\ next' \in [Elements -> Pointer]
  <2>1. prev[e] \in Pointer /\ next[e] \in Pointer
    BY <1>1, <1>5
  <2> HIDE DEF e
  <2> QED BY <1>5, <1>6, <2>1 DEF Pointer
<1>8. /\ head' = IF order' = <<>> THEN NULL ELSE order'[1]
      /\ tail' = IF order' = <<>> THEN NULL ELSE order'[Len(order')]
  <2>1. /\ head = order[1] /\ tail = order[n]
    BY <1>1 DEF ListInv, ListIntact
  <2>2. (order' = <<>>) <=> n = 1
    BY <1>1, <1>2
  <2>3. head' = IF prev[e] = NULL THEN next[e] ELSE head
    BY DEF Unlist
  <2>4. tail' = IF e = tail THEN prev[e] ELSE tail
    BY DEF Unlist
  <2>5. head' = IF order' = <<>> THEN NULL ELSE order'[1]
    <3>1. CASE i = 1
      BY <1>1, <1>2, <1>4, <2>2, <2>3, <3>1
    <3>2. CASE i > 1
      BY <1>1, <1>2, <1>4, <2>1, <2>2, <2>3, <3>2
    <3> QED BY <3>1, <3>2
  <2>6. tail' = IF order' = <<>> THEN NULL ELSE order'[Len(order')]
    <3>1. CASE i = n
      BY <1>1, <1>2, <1>4, <2>1, <2>2, <2>4, <3>1
    <3>2. CASE i < n
      <4>1. e # tail
        BY <1>1, <2>1, <3>2
      <4> QED BY <1>1, <1>2, <2>1, <2>2, <2>4, <3>2, <4>1
    <3> QED BY <3>1, <3>2
  <2> QED BY <2>5, <2>6
<1>9. ASSUME NEW k \in 1 .. n - 1
      PROVE  /\ next'[order'[k]] = IF k < n - 1 THEN order'[k + 1] ELSE NULL
             /\ prev'[order'[k]] = IF k > 1 THEN order'[k - 1] ELSE NULL
  <2> DEFINE j == IF k < i THEN k ELSE k + 1
  <2>1. /\ j \in 1 .. n /\ order'[k] = order[j] /\ j # i /\ order[j] # e
        /\ order[j] \in Elements
    BY <1>1, <1>2, ConcatProperties
  <2>2. /\ next[order[j]] = IF j < n THEN order[j + 1] ELSE NULL
        /\ prev[order[j]] = IF j > 1 THEN order[j - 1] ELSE NULL
    <3> HIDE DEF j
    <3> QED BY <1>1, <2>1 DEF ListInv, ListIntact
  <2>3. next'[order[j]] = IF order[j] = prev[e] THEN next[e] ELSE next[order[j]]
    BY <1>6, <2>1
  <2>4. prev'[order[j]] = IF order[j] = next[e] THEN prev[e] ELSE prev[order[j]]
    BY <1>6, <2>1
  <2>5. order[j] = prev[e] <=> j = i - 1
    BY <1>1, <1>4, <2>1
  <2>6. order[j] = next[e] <=> j = i + 1
    BY <1>1, <1>4, <2>1
  <2>7. next'[order'[k]] = IF k < n - 1 THEN order'[k + 1] ELSE NULL
    <3>1. CASE j = i - 1
      <4>1. next'[order'[k]] = next[e] /\ k = i - 1
        BY <2>1, <2>3, <2>5, <3>1
      <4> QED BY <1>1, <1>2, <1>4, <4>1
    <3>2. CASE j # i - 1
      <4>1. next'[order'[k]] = IF j < n THEN order[j + 1] ELSE NULL
        BY <2>1, <2>2, <2>3, <2>5, <3>2
      <4>2. CASE k < i
        BY <1>1, <1>2, <3>2, <4>1, <4>2
      <4>3. CASE k >= i
        BY <1>1, <1>2, <3>2, <4>1, <4>3
      <4> QED BY <1>1, <4>2, <4>3
    <3> QED BY <3>1, <3>2
  <2>8. prev'[order'[k]] = IF k > 1 THEN order'[k - 1] ELSE NULL
    <3>1. CASE j = i + 1
      <4>1. prev'[order'[k]] = prev[e] /\ k = i
        BY <2>1, <2>4, <2>6, <3>1
      <4> QED BY <1>1, <1>2, <1>4, <4>1
    <3>2. CASE j # i + 1
      <4>1. prev'[order'[k]] = IF j > 1 THEN order[j - 1] ELSE NULL
        BY <2>1, <2>2, <2>4, <2>6, <3>2
      <4>2. CASE k < i
        BY <1>1, <1>2, <3>2, <4>1, <4>2
      <4>3. CASE k >= i
        BY <1>1, <1>2, <3>2, <4>1, <4>3
      <4> QED BY <1>1, <4>2, <4>3
    <3> QED BY <3>1, <3>2
  <2> QED BY <2>7, <2>8
<1>10. ASSUME NEW x \in Elements, \A k \in 1 .. n - 1 : order'[k] # x
       PROVE  next'[x] = NULL /\ prev'[x] = NULL
  <2>1. CASE x = e
    BY <1>6, <2>1
  <2>2. CASE x # e
    <3>1. \A k \in 1 .. n : order[k] # x
      <4> SUFFICES ASSUME NEW k \in 1 .. n, order[k] = x PROVE FALSE
        OBVIOUS
      <4>1. k # i
        BY <2>2
      <4>2. CASE k < i
        BY <1>1, <1>2, <1>10, <4>2
      <4>3. CASE k > i
        <5>1. k - 1 \in 1 .. n - 1 /\ order'[k - 1] = order[k]
          BY <1>1, <1>2, <4>3
        <5> QED BY <1>10, <5>1
      <4> QED BY <1>1, <4>1, <4>2, <4>3
    <3>2. next[x] = NULL /\ prev[x] = NULL
      BY <1>1, <3>1 DEF ListInv, ListIntact
    <3>3. x # prev[e] /\ x # next[e]
      BY <1>1, <1>4, <3>1
    <3> QED BY <1>6, <2>2, <3>2, <3>3
  <2> QED BY <2>1, <2>2
<1> HIDE DEF e
<1>11. DOMAIN order' = 1 .. n - 1 /\ Len(order') = n - 1
  BY <1>1, <1>2
<1>12. ListIntact'
  BY <1>8, <1>9, <1>10, <1>11 DEF ListIntact
<1> QED BY <1>2, <1>3, <1>7, <1>11, <1>12

(* HASH_APPEND_LIST keeps it intact.                                       *)
LEMMA AppendKeepsList ==
  ASSUME ListInv, NEW e \in Elements, AddLast(e)
  PROVE  ListInv'
<1> DEFINE n == Len(order)
<1>1. /\ order \in Seq(Elements) /\ DOMAIN order = 1 .. n /\ n \in Nat
      /\ \A k \in 1 .. n : order[k] \in Elements
      /\ NULL \notin Elements
  BY HashAssumption DEF ListInv, OrderInv
<1>2. \A k \in 1 .. n : order[k] # e
  BY ListedIffReached DEF AddLast
<1>3. n > 0 /\ head = order[1] /\ tail = order[n]
  BY <1>1 DEF AddLast, ListInv, ListIntact
<1>4. /\ order' \in Seq(Elements) /\ Len(order') = n + 1 /\ order'[n + 1] = e
      /\ \A k \in 1 .. n : order'[k] = order[k]
  BY <1>1 DEF AddLast
<1>5. /\ prev \in [Elements -> Pointer] /\ next \in [Elements -> Pointer]
      /\ prev' = [prev EXCEPT ![e] = tail] /\ next' = [next EXCEPT ![tail] = e]
      /\ tail \in Elements
  BY <1>1, <1>3 DEF AddLast, ListInv, OrderInv
<1>6. OrderInv'
  <2>1. \A k, l \in 1 .. Len(order') : order'[k] = order'[l] => k = l
    BY <1>1, <1>2, <1>4 DEF ListInv, OrderInv
  <2>2. prev' \in [Elements -> Pointer] /\ next' \in [Elements -> Pointer]
    BY <1>5 DEF Pointer
  <2>3. el' = NULL
    BY DEF AddLast
  <2> QED BY <1>4, <2>1, <2>2, <2>3 DEF OrderInv
<1>7. head' = order'[1] /\ tail' = order'[n + 1] /\ order' # <<>>
  BY <1>1, <1>3, <1>4 DEF AddLast
<1>8. ASSUME NEW k \in 1 .. n + 1
      PROVE  /\ next'[order'[k]] = IF k < n + 1 THEN order'[k + 1] ELSE NULL
             /\ prev'[order'[k]] = IF k > 1 THEN order'[k - 1] ELSE NULL
  <2>1. CASE k = n + 1
    <3>1. next[e] = NULL
      BY <1>1, <1>2 DEF ListInv, ListIntact
    <3>2. e # tail
      BY <1>1, <1>2, <1>3
    <3>3. next'[e] = NULL /\ prev'[e] = tail
      BY <1>5, <3>1, <3>2
    <3> QED BY <1>1, <1>3, <1>4, <2>1, <3>3
  <2>2. CASE k = n
    <3>1. next'[order[k]] = e
      BY <1>3, <1>5, <2>2
    <3>2. prev'[order[k]] = IF k > 1 THEN order[k - 1] ELSE NULL
      BY <1>1, <1>2, <1>3, <1>5, <2>2 DEF ListInv, ListIntact
    <3> QED BY <1>1, <1>3, <1>4, <2>2, <3>1, <3>2
  <2>3. CASE k < n
    <3>1. order[k] # tail
      BY <1>1, <1>3, <2>3 DEF ListInv, OrderInv
    <3>2. /\ next'[order[k]] = order[k + 1]
          /\ prev'[order[k]] = IF k > 1 THEN order[k - 1] ELSE NULL
      <4>1. k \in 1 .. n /\ order[k] # e /\ order[k] \in Elements
        BY <1>1, <1>2, <2>3
      <4>2. next'[order[k]] = next[order[k]] /\ prev'[order[k]] = prev[order[k]]
        BY <1>5, <3>1, <4>1
      <4> QED BY <1>1, <2>3, <4>1, <4>2 DEF ListInv, ListIntact
    <3> QED BY <1>1, <1>4, <2>3, <3>2
  <2>4. k = n + 1 \/ k = n \/ k < n
    <3>1. n \in Nat
      BY <1>1
    <3> HIDE DEF n
    <3> QED BY <3>1, SMT
  <2> QED BY <2>1, <2>2, <2>3, <2>4
<1>9. ASSUME NEW x \in Elements, \A k \in 1 .. n + 1 : order'[k] # x
      PROVE  next'[x] = NULL /\ prev'[x] = NULL
  <2>1. x # e /\ \A k \in 1 .. n : order[k] # x
    BY <1>1, <1>4, <1>9
  <2>2. x # tail
    BY <1>1, <1>3, <2>1
  <2> QED BY <1>1, <1>5, <2>1, <2>2 DEF ListInv, ListIntact
<1>10. DOMAIN order' = 1 .. n + 1
  BY <1>1, <1>4
<1> HIDE DEF n
<1>11. ListIntact'
  BY <1>4, <1>7, <1>8, <1>9, <1>10 DEF ListIntact
<1> QED BY <1>6, <1>11 DEF ListInv

(* The first element makes the list.                                       *)
LEMMA FirstMakesList ==
  ASSUME ListInv, NEW e \in Elements, AddFirst(e)
  PROVE  ListInv'
<1>1. order = <<>>
  BY HashAssumption DEF ListInv, OrderInv, ListIntact, AddFirst
<1>2. /\ order' = <<e>> /\ head' = e /\ tail' = e /\ el' = NULL
      /\ prev' = prev /\ next' = next
  BY DEF AddFirst
<1>3. /\ prev \in [Elements -> Pointer] /\ next \in [Elements -> Pointer]
      /\ \A x \in Elements : next[x] = NULL /\ prev[x] = NULL
  BY <1>1 DEF ListInv, OrderInv, ListIntact
<1>4. order' \in Seq(Elements) /\ Len(order') = 1 /\ DOMAIN order' = {1} /\ order'[1] = e
  BY <1>2
<1>5. OrderInv'
  BY <1>2, <1>3, <1>4 DEF OrderInv
<1>6. ListIntact'
  BY <1>2, <1>3, <1>4 DEF ListIntact
<1> QED BY <1>5, <1>6 DEF ListInv

LEMMA ListInvariant == HashSpec => []ListInv
<1>1. HashInit => ListInv
  BY DEF HashInit, ListInv, OrderInv, ListIntact, Nowhere, Pointer
<1>2. ListInv /\ [HashNext]_hash_vars => ListInv'
  <2> SUFFICES ASSUME ListInv, [HashNext]_hash_vars PROVE ListInv'
    OBVIOUS
  <2>1. ASSUME NEW e \in Elements, AddFirst(e) PROVE ListInv'
    BY <2>1, FirstMakesList
  <2>2. ASSUME NEW e \in Elements, AddLast(e) PROVE ListInv'
    BY <2>2, AppendKeepsList
  <2>3. ASSUME NEW e \in Elements, Delete(e) PROVE ListInv'
    <3>1. PICK i \in 1 .. Len(order) : order[i] = e
      BY <2>3, ListedIffReached DEF Delete
    <3>2. Unlist(order[i])
      BY <2>3, <3>1 DEF Delete, HASH_DELETE
    <3>3. el' = NULL
      BY <2>3 DEF Delete
    <3> QED BY <3>2, <3>3, UnlistKeepsList DEF ListInv, OrderInv
  <2>4. CASE DeleteAllBegin
    <3>1. /\ order' = order /\ prev' = prev /\ next' = next
          /\ head' = head /\ tail' = tail
      BY <2>4 DEF DeleteAllBegin, listed
    <3>2. order # <<>> /\ head = order[1]
      BY <2>4 DEF DeleteAllBegin, ListInv, ListIntact
    <3>3. el' = head /\ del_tmp' = next[head]
      BY <2>4 DEF DeleteAllBegin
    <3> QED BY <3>1, <3>2, <3>3 DEF ListInv, OrderInv, ListIntact
  <2>5. CASE DeleteAllNext
    <3>1. /\ order # <<>> /\ el = order[1] /\ del_tmp = next[el]
          /\ order \in Seq(Elements)
      BY <2>5 DEF DeleteAllNext, ListInv, OrderInv
    <3>2. 1 \in 1 .. Len(order) /\ DOMAIN order = 1 .. Len(order)
      BY <3>1
    <3>3. Unlist(order[1])
      BY <2>5, <3>1 DEF DeleteAllNext, HASH_DELETE
    <3>4. /\ order' \in Seq(Elements)
          /\ \A k, l \in 1 .. Len(order') : order'[k] = order'[l] => k = l
          /\ prev' \in [Elements -> Pointer] /\ next' \in [Elements -> Pointer]
          /\ ListIntact'
          /\ Len(order') = Len(order) - 1
          /\ \A k \in 1 .. Len(order') :
               order'[k] = IF k < 1 THEN order[k] ELSE order[k + 1]
      BY <3>2, <3>3, UnlistKeepsList
    <3>5. next[order[1]] = IF 1 < Len(order) THEN order[2] ELSE NULL
      BY <3>2 DEF ListInv, ListIntact
    <3>6. el' # NULL => order' # <<>> /\ el' = order'[1] /\ del_tmp' = next'[el']
      <4> SUFFICES ASSUME el' # NULL
                   PROVE  order' # <<>> /\ el' = order'[1] /\ del_tmp' = next'[el']
        OBVIOUS
      <4>1. el' = del_tmp /\ del_tmp' = next'[del_tmp]
        BY <2>5 DEF DeleteAllNext
      <4>2. Len(order) > 1 /\ del_tmp = order[2]
        BY <3>1, <3>5, <4>1
      <4> QED BY <3>1, <3>4, <4>1, <4>2
    <3> QED BY <3>4, <3>6 DEF ListInv, OrderInv
  <2>6. CASE UNCHANGED hash_vars
    BY <2>6 DEF hash_vars, listed, ListInv, OrderInv, ListIntact
  <2> QED BY <2>1, <2>2, <2>3, <2>4, <2>5, <2>6 DEF HashNext
<1> QED BY <1>1, <1>2, PTL DEF HashSpec

(* The application order is intact for every table.                        *)
THEOREM ListAlwaysIntact == HashSpec => []ListIntact
BY ListInvariant, PTL DEF ListInv

(* delete_all leaves no element behind, in a table of any size: while its  *)
(* loop goes on, it stands at the head with the second element saved.      *)
THEOREM DeleteAllLeavesNone == HashSpec => DeleteAllEmpties
<1>1. ListInv /\ [HashNext]_hash_vars
        => [el # NULL /\ el' = NULL => order' = <<>>]_hash_vars
  <2> SUFFICES ASSUME ListInv, HashNext, el # NULL, el' = NULL
               PROVE  order' = <<>>
    BY DEF hash_vars
  <2>1. DeleteAllNext
    BY DEF HashNext, AddFirst, AddLast, Delete, DeleteAllBegin
  <2>2. /\ order \in Seq(Elements) /\ order # <<>>
        /\ el = order[1] /\ del_tmp = next[el]
    BY DEF ListInv, OrderInv
  <2>3. 1 \in 1 .. Len(order) /\ DOMAIN order = 1 .. Len(order)
    BY <2>2
  <2>4. next[order[1]] = NULL /\ Unlist(order[1])
    BY <2>1, <2>2 DEF DeleteAllNext, HASH_DELETE
  <2>5. Len(order) = 1
    <3>1. next[order[1]] = IF 1 < Len(order) THEN order[2] ELSE NULL
      BY <2>3 DEF ListInv, ListIntact
    <3>2. 1 < Len(order) => order[2] \in Elements
      BY <2>2
    <3> QED BY <2>2, <2>3, <2>4, <3>1, <3>2, HashAssumption
  <2>6. order' \in Seq(Elements) /\ Len(order') = 0
    BY <2>3, <2>4, <2>5, UnlistKeepsList
  <2> QED BY <2>6
<1> QED BY <1>1, ListInvariant, PTL DEF HashSpec, DeleteAllEmpties

-----------------------------------------------------------------------------
(* A chain: the elements of s, linked both ways from the first one on.     *)
Linked(s, first, nxt, prv) ==
  /\ first = IF s = <<>> THEN NULL ELSE s[1]
  /\ \A k \in 1 .. Len(s) :
       /\ nxt[s[k]] = IF k < Len(s) THEN s[k + 1] ELSE NULL
       /\ prv[s[k]] = IF k > 1 THEN s[k - 1] ELSE NULL

(* Following a chain's pointers meets its elements and no others.          *)
LEMMA WalkIs ==
  ASSUME NEW s \in Seq(Elements), Distinct(s), NEW first, NEW nxt, NEW prv,
         Linked(s, first, nxt, prv)
  PROVE  Walk(nxt, first) = s
<1> DEFINE N == Cardinality(Elements)
           n == Len(s)
           Is(f) == f = [k \in 1 .. N |-> IF k = 1 THEN first
                           ELSE IF f[k - 1] = NULL THEN NULL ELSE nxt[f[k - 1]]]
           at == CHOOSE f : Is(f)
           g == [k \in 1 .. N |-> IF k <= n THEN s[k] ELSE NULL]
<1>1. /\ N \in Nat /\ n \in Nat /\ n <= N
      /\ \A k \in 1 .. n : s[k] \in Elements /\ s[k] # NULL
  <2>1. IsFiniteSet(Elements) /\ NULL \notin Elements
    BY HashAssumption
  <2>2. N \in Nat
    BY <2>1, FS_CardinalityType
  <2>3. n <= N
    BY <2>1, DistinctLength
  <2> QED BY <2>1, <2>2, <2>3
<1>2. Walk(nxt, first) = SubSeq(at, 1, Cardinality({k \in DOMAIN at : at[k] # NULL}))
  BY DEF Walk
<1>3. ASSUME NEW k \in 1 .. N
      PROVE  g[k] = IF k = 1 THEN first
                    ELSE IF g[k - 1] = NULL THEN NULL ELSE nxt[g[k - 1]]
  <2>1. CASE k = 1
    <3>1. first = IF n = 0 THEN NULL ELSE s[1]
      BY <1>1 DEF Linked
    <3>2. 1 <= n <=> n # 0
      BY <1>1
    <3> QED BY <2>1, <3>1, <3>2
  <2>2. CASE k # 1
    <3>1. PICK j \in 1 .. N : j = k - 1 /\ k = j + 1 /\ k - 1 = j
      <4>1. k - 1 \in 1 .. N /\ k = (k - 1) + 1
        BY <1>1, <2>2
      <4> QED BY <4>1
    <3>2. g[j] = IF j <= n THEN s[j] ELSE NULL
      OBVIOUS
    <3>3. CASE j <= n
      <4>1. j \in 1 .. n
        BY <1>1, <3>3
      <4>2. nxt[s[j]] = IF j < n THEN s[j + 1] ELSE NULL
        BY <4>1 DEF Linked
      <4>3. j < n <=> k <= n
        BY <1>1, <3>1
      <4> QED BY <1>1, <2>2, <3>1, <3>2, <3>3, <4>1, <4>2, <4>3
    <3>4. CASE ~(j <= n)
      <4>1. ~(k <= n)
        BY <1>1, <3>1, <3>4
      <4> QED BY <2>2, <3>1, <3>2, <3>4, <4>1
    <3> QED BY <3>3, <3>4
  <2> QED BY <2>1, <2>2
<1>4. Is(g)
  <2>1. g = [k \in 1 .. N |-> g[k]]
    OBVIOUS
  <2> HIDE DEF g
  <2> QED BY <1>3, <2>1
<1>5. Is(at)
  <2> HIDE DEF Is, g
  <2> QED BY <1>4
<1> HIDE DEF at
<1>6. /\ DOMAIN at = 1 .. N /\ at = [k \in 1 .. N |-> at[k]]
      /\ \A k \in 1 .. N : at[k] = IF k = 1 THEN first
                             ELSE IF at[k - 1] = NULL THEN NULL ELSE nxt[at[k - 1]]
  BY <1>5
<1> HIDE DEF Is
<1>7. \A k \in 1 .. N : at[k] = g[k]
  <2> DEFINE Bad == {k \in 1 .. N : at[k] # g[k]}
  <2> HIDE DEF g
  <2>1. ASSUME NEW m \in Bad, \A k \in Bad : m <= k PROVE FALSE
    <3>1. m \in 1 .. N /\ at[m] # g[m]
      OBVIOUS
    <3>2. CASE m = 1
      BY <1>3, <1>6, <3>1, <3>2
    <3>3. CASE m # 1
      <4>1. m - 1 \in 1 .. N /\ ~(m <= m - 1)
        BY <1>1, <3>1, <3>3
      <4>2. at[m - 1] = g[m - 1]
        BY <2>1, <4>1
      <4> QED BY <1>3, <1>6, <3>1, <3>3, <4>2
    <3> QED BY <3>2, <3>3
  <2>2. Bad \in SUBSET Nat
    OBVIOUS
  <2>3. Bad = {}
    <3> HIDE DEF Bad
    <3> QED BY <2>1, <2>2, Least
  <2> QED BY <2>3
<1>8. {k \in DOMAIN at : at[k] # NULL} = 1 .. n
  <2>1. \A k \in 1 .. N : at[k] # NULL <=> k <= n
    BY <1>1, <1>7
  <2>2. \A k : k \in 1 .. n <=> k \in 1 .. N /\ k <= n
    BY <1>1
  <2> QED BY <1>6, <2>1, <2>2
<1>9. Cardinality(1 .. n) = n
  <2>1. Cardinality(1 .. n) = IF 1 > n THEN 0 ELSE n - 1 + 1
    <3>1. 1 \in Int /\ n \in Int
      BY <1>1
    <3> HIDE DEF n
    <3> QED BY <3>1, FS_Interval
  <2> QED BY <1>1, <2>1
<1>10. SubSeq(at, 1, n) = s
  <2>1. at \in [1 .. N -> Pointer]
    BY <1>1, <1>6, <1>7 DEF Pointer
  <2>2. at \in Seq(Pointer) /\ Len(at) = N
    BY <1>1, <2>1
  <2>3. /\ SubSeq(at, 1, n) \in Seq(Pointer) /\ Len(SubSeq(at, 1, n)) = n
        /\ \A k \in 1 .. n : SubSeq(at, 1, n)[k] = at[k]
    BY <1>1, <2>2
  <2>4. \A k \in 1 .. n : at[k] = s[k]
    <3>1. \A k \in 1 .. n : k \in 1 .. N /\ k <= n
      BY <1>1
    <3> QED BY <1>7, <3>1
  <2>5. s \in Seq(Pointer)
    BY DEF Pointer
  <2> QED BY <2>3, <2>4, <2>5, SeqEqual
<1> QED BY <1>2, <1>8, <1>9, <1>10

(* An element put before the first one.                                    *)
LEMMA LinkedPush ==
  ASSUME NEW s \in Seq(Elements), Distinct(s), NEW first, NEW nxt, NEW prv,
         Linked(s, first, nxt, prv), NEW e \in Elements, ~Has(s, e),
         NEW nxt2, NEW prv2, nxt2[e] = first, prv2[e] = NULL,
         \A x \in Elements : x # e => nxt2[x] = nxt[x],
         \A x \in Elements : x # e => prv2[x] = IF x = first THEN e ELSE prv[x]
  PROVE  Linked(<<e>> \o s, e, nxt2, prv2)
<1> DEFINE n == Len(s)
<1>1. PICK t \in Seq(Elements) :
        /\ t = <<e>> \o s /\ Len(t) = n + 1 /\ n \in Nat
        /\ \A k \in 1 .. n + 1 : t[k] = IF k = 1 THEN e ELSE s[k - 1]
  <2>1. /\ <<e>> \o s \in Seq(Elements) /\ Len(<<e>> \o s) = n + 1
        /\ \A k \in 1 .. n + 1 : (<<e>> \o s)[k] = IF k = 1 THEN e ELSE s[k - 1]
    BY DistinctPush
  <2>2. n \in Nat
    OBVIOUS
  <2> QED BY <2>1, <2>2
<1>2. \A k \in 1 .. n : s[k] \in Elements /\ s[k] # e /\ s[k] # NULL
  BY HashAssumption DEF Has
<1>3. first = IF n = 0 THEN NULL ELSE s[1]
  BY DEF Linked
<1>4. t # <<>> /\ t[1] = e
  BY <1>1
<1>5. ASSUME NEW k \in 1 .. n + 1
      PROVE  /\ nxt2[t[k]] = IF k < n + 1 THEN t[k + 1] ELSE NULL
             /\ prv2[t[k]] = IF k > 1 THEN t[k - 1] ELSE NULL
  <2>1. CASE k = 1
    <3>1. n # 0 => 1 < n + 1 /\ 2 \in 1 .. n + 1 /\ t[2] = s[1]
      BY <1>1
    <3>2. n = 0 => ~(1 < n + 1)
      OBVIOUS
    <3> QED BY <1>1, <1>3, <1>4, <2>1, <3>1, <3>2
  <2>2. CASE k # 1
    <3>1. PICK j \in 1 .. n : j = k - 1 /\ k = j + 1
      <4>1. k - 1 \in 1 .. n /\ k = (k - 1) + 1
        BY <1>1, <2>2
      <4> QED BY <4>1
    <3>2. t[k] = s[j]
      BY <1>1, <2>2, <3>1
    <3>3. nxt[s[j]] = (IF j < n THEN s[j + 1] ELSE NULL)
          /\ prv[s[j]] = IF j > 1 THEN s[j - 1] ELSE NULL
      BY DEF Linked
    <3>4. nxt2[t[k]] = IF k < n + 1 THEN t[k + 1] ELSE NULL
      <4>1. j < n <=> k < n + 1
        BY <1>1, <3>1
      <4>2. j < n => t[k + 1] = s[j + 1]
        <5>1. j < n => k + 1 \in 1 .. n + 1 /\ k + 1 # 1 /\ (k + 1) - 1 = j + 1
          BY <1>1, <3>1
        <5> QED BY <1>1, <5>1
      <4> QED BY <1>2, <3>2, <3>3, <4>1, <4>2
    <3>5. prv2[t[k]] = IF k > 1 THEN t[k - 1] ELSE NULL
      <4>1. k > 1 /\ k - 1 \in 1 .. n + 1
        BY <1>1, <3>1
      <4>2. CASE j = 1
        <5>1. s[j] = first /\ t[k - 1] = e
          BY <1>1, <1>3, <3>1, <4>2
        <5> QED BY <1>2, <3>2, <4>1, <5>1
      <4>3. CASE j # 1
        <5>1. 1 \in 1 .. n /\ n # 0 /\ j > 1
          BY <1>1, <4>3
        <5>2. s[j] # first
          BY <1>3, <4>3, <5>1 DEF Distinct
        <5>3. t[k - 1] = s[j - 1]
          <6>1. k - 1 # 1 /\ (k - 1) - 1 = j - 1
            BY <3>1, <4>3
          <6> QED BY <1>1, <4>1, <6>1
        <5> QED BY <1>2, <3>2, <3>3, <4>1, <5>1, <5>2, <5>3
      <4> QED BY <4>2, <4>3
    <3> QED BY <3>4, <3>5
  <2> QED BY <2>1, <2>2
<1> HIDE DEF n
<1> QED BY <1>1, <1>4, <1>5 DEF Linked

(* An element taken out.                                                   *)
LEMMA LinkedRemove ==
  ASSUME NEW s \in Seq(Elements), Distinct(s), NEW first, NEW nxt, NEW prv,
         Linked(s, first, nxt, prv), NEW i \in 1 .. Len(s),
         NEW nxt2, NEW prv2,
         \A x \in Elements : x # s[i] =>
           /\ nxt2[x] = IF x = prv[s[i]] THEN nxt[s[i]] ELSE nxt[x]
           /\ prv2[x] = IF x = nxt[s[i]] THEN prv[s[i]] ELSE prv[x]
  PROVE  Linked(RemoveAt(s, i), IF first = s[i] THEN nxt[s[i]] ELSE first, nxt2, prv2)
<1> DEFINE n == Len(s)
           first2 == IF first = s[i] THEN nxt[s[i]] ELSE first
<1>1. PICK t \in Seq(Elements) :
        /\ t = RemoveAt(s, i) /\ Len(t) = n - 1 /\ n \in Nat
        /\ \A k \in 1 .. n - 1 : t[k] = IF k < i THEN s[k] ELSE s[k + 1]
  BY RemoveAtIs
<1>2. \A k \in 1 .. n : s[k] \in Elements /\ s[k] # NULL
  BY HashAssumption
<1>3. /\ \A k \in 1 .. n : /\ nxt[s[k]] = IF k < n THEN s[k + 1] ELSE NULL
                           /\ prv[s[k]] = IF k > 1 THEN s[k - 1] ELSE NULL
      /\ \A k, l \in 1 .. n : s[k] = s[l] => k = l
  BY DEF Linked, Distinct
<1>4. first = s[1]
  <2>1. s # <<>>
    BY <1>1
  <2> QED BY <2>1 DEF Linked
<1>5. first2 = IF t = <<>> THEN NULL ELSE t[1]
  <2>1. (t = <<>>) <=> n = 1
    BY <1>1
  <2>2. CASE i = 1
    <3>1. n # 1 => 1 \in 1 .. n - 1 /\ 1 < n
      BY <1>1
    <3>2. nxt[s[1]] = IF 1 < n THEN s[2] ELSE NULL
      BY <1>3, <2>2
    <3> QED BY <1>1, <1>4, <2>1, <2>2, <3>1, <3>2
  <2>3. CASE i # 1
    <3>1. 1 \in 1 .. n - 1 /\ 1 < i /\ n # 1 /\ 1 \in 1 .. n
      BY <1>1, <2>3
    <3>2. s[1] # s[i]
      BY <1>3, <2>3, <3>1
    <3> QED BY <1>1, <1>4, <2>1, <3>1, <3>2
  <2> QED BY <2>2, <2>3
<1>6. ASSUME NEW k \in 1 .. n - 1
      PROVE  /\ nxt2[t[k]] = IF k < n - 1 THEN t[k + 1] ELSE NULL
             /\ prv2[t[k]] = IF k > 1 THEN t[k - 1] ELSE NULL
  <2>1. PICK j \in 1 .. n : j = IF k < i THEN k ELSE k + 1
    <3>1. (IF k < i THEN k ELSE k + 1) \in 1 .. n
      BY <1>1
    <3> QED BY <3>1
  <2>2. t[k] = s[j] /\ j # i
    BY <1>1, <2>1
  <2>3. s[j] # s[i]
    BY <1>3, <2>2
  <2>4. /\ nxt2[s[j]] = IF s[j] = prv[s[i]] THEN nxt[s[i]] ELSE nxt[s[j]]
        /\ prv2[s[j]] = IF s[j] = nxt[s[i]] THEN prv[s[i]] ELSE prv[s[j]]
    BY <1>2, <2>3
  <2>5. s[j] = prv[s[i]] <=> j = i - 1
    <3>1. i > 1 => i - 1 \in 1 .. n
      BY <1>1
    <3>2. prv[s[i]] = IF i > 1 THEN s[i - 1] ELSE NULL
      BY <1>3
    <3>3. ~(i > 1) => j # i - 1
      BY <1>1
    <3> QED BY <1>2, <1>3, <3>1, <3>2, <3>3
  <2>6. s[j] = nxt[s[i]] <=> j = i + 1
    <3>1. i < n => i + 1 \in 1 .. n
      BY <1>1
    <3>2. nxt[s[i]] = IF i < n THEN s[i + 1] ELSE NULL
      BY <1>3
    <3>3. ~(i < n) => j # i + 1
      BY <1>1
    <3> QED BY <1>2, <1>3, <3>1, <3>2, <3>3
  <2>7. nxt2[t[k]] = IF k < n - 1 THEN t[k + 1] ELSE NULL
    <3>1. CASE j = i - 1
      <4>1. k = i - 1 /\ (k < n - 1 <=> i < n) /\ ~(k + 1 < i) /\ (k + 1) + 1 = i + 1
        BY <1>1, <2>1, <3>1
      <4>2. nxt2[t[k]] = IF i < n THEN s[i + 1] ELSE NULL
        BY <1>3, <2>2, <2>4, <2>5, <3>1
      <4>3. k < n - 1 => t[k + 1] = s[i + 1]
        <5>1. k < n - 1 => k + 1 \in 1 .. n - 1
          BY <1>1
        <5> QED BY <1>1, <4>1, <5>1
      <4> QED BY <4>1, <4>2, <4>3
    <3>2. CASE j # i - 1
      <4>1. nxt2[t[k]] = IF j < n THEN s[j + 1] ELSE NULL
        BY <1>3, <2>2, <2>4, <2>5, <3>2
      <4>2. j < n <=> k < n - 1
        BY <1>1, <2>1, <3>2
      <4>3. k < n - 1 => t[k + 1] = s[j + 1]
        <5>1. k < n - 1 => /\ k + 1 \in 1 .. n - 1
                           /\ j + 1 = IF k + 1 < i THEN k + 1 ELSE (k + 1) + 1
          BY <1>1, <2>1, <3>2
        <5> QED BY <1>1, <5>1
      <4> QED BY <4>1, <4>2, <4>3
    <3> QED BY <3>1, <3>2
  <2>8. prv2[t[k]] = IF k > 1 THEN t[k - 1] ELSE NULL
    <3>1. CASE j = i + 1
      <4>1. k = i /\ (k > 1 => k - 1 \in 1 .. n - 1 /\ k - 1 < i)
        BY <1>1, <2>1, <3>1
      <4>2. prv2[t[k]] = IF i > 1 THEN s[i - 1] ELSE NULL
        BY <1>3, <2>2, <2>4, <2>6, <3>1
      <4> QED BY <1>1, <4>1, <4>2
    <3>2. CASE j # i + 1
      <4>1. prv2[t[k]] = IF j > 1 THEN s[j - 1] ELSE NULL
        BY <1>3, <2>2, <2>4, <2>6, <3>2
      <4>2. j > 1 <=> k > 1
        BY <1>1, <2>1, <3>2
      <4>3. k > 1 => t[k - 1] = s[j - 1]
        <5>1. k > 1 => /\ k - 1 \in 1 .. n - 1
                       /\ j - 1 = IF k - 1 < i THEN k - 1 ELSE (k - 1) + 1
          BY <1>1, <2>1, <3>2
        <5> QED BY <1>1, <5>1
      <4> QED BY <4>1, <4>2, <4>3
    <3> QED BY <3>1, <3>2
  <2> QED BY <2>7, <2>8
<1> HIDE DEF n, first2
<1>7. Linked(t, first2, nxt2, prv2)
  BY <1>1, <1>5, <1>6 DEF Linked
<1> QED BY <1>1, <1>7 DEF first2

-----------------------------------------------------------------------------
(* Tables.                                                                 *)
Bucket == [hh_head : Pointer, count : Nat, expand_mult : Nat]

BucketArrays == UNION {[0 .. n - 1 -> Bucket] : n \in Nat}

Tables == [num_buckets : Nat \ {0}, buckets : BucketArrays,
           hh_prev : [Elements -> Pointer], hh_next : [Elements -> Pointer],
           ideal_chain_maxlen : Nat, nonideal_items : Nat, ineff_expands : Nat,
           noexpand : BOOLEAN]

IsTable(T) == T \in Tables /\ DOMAIN T.buckets = 0 .. T.num_buckets - 1

(* The chains of a table that holds the elements of S, by bucket.          *)
ChainsAre(T, C, S) ==
  /\ C \in [0 .. T.num_buckets - 1 -> Seq(Elements)]
  /\ \A b \in 0 .. T.num_buckets - 1 :
       /\ Distinct(C[b])
       /\ Linked(C[b], T.buckets[b].hh_head, T.hh_next, T.hh_prev)
       /\ T.buckets[b].count = Len(C[b])
       /\ \A x : Has(C[b], x) <=> x \in S /\ HASH_TO_BKT(x, T.num_buckets) = b

(* No chain is longer than as many times the ideal length as its bucket is *)
(* allowed times the threshold.                                            *)
CountsBounded(T) ==
  \A b \in 0 .. T.num_buckets - 1 :
    T.buckets[b].count <= (T.buckets[b].expand_mult + 1) * T.ideal_chain_maxlen

LEMMA BucketRange ==
  ASSUME NEW e \in Elements, NEW n \in Nat \ {0}
  PROVE  HASH_TO_BKT(e, n) \in 0 .. n - 1
<1>1. HASH_VALUE[KeyOf[e]] \in Nat
  BY HashAssumption
<1> QED BY <1>1 DEF HASH_TO_BKT

LEMMA TableFacts ==
  ASSUME NEW T, IsTable(T)
  PROVE  /\ T.num_buckets \in Nat /\ T.num_buckets # 0
         /\ T.buckets \in [0 .. T.num_buckets - 1 -> Bucket]
         /\ \A b \in 0 .. T.num_buckets - 1 :
              /\ T.buckets[b].hh_head \in Pointer /\ T.buckets[b].count \in Nat
              /\ T.buckets[b].expand_mult \in Nat
         /\ T.hh_next \in [Elements -> Pointer] /\ T.hh_prev \in [Elements -> Pointer]
         /\ T.ideal_chain_maxlen \in Nat /\ T.nonideal_items \in Nat
         /\ T.ineff_expands \in Nat /\ T.noexpand \in BOOLEAN
<1>1. T \in Tables /\ DOMAIN T.buckets = 0 .. T.num_buckets - 1
  BY DEF IsTable
<1>2. PICK n \in Nat : T.buckets \in [0 .. n - 1 -> Bucket]
  BY <1>1 DEF Tables, BucketArrays
<1>3. T.buckets \in [0 .. T.num_buckets - 1 -> Bucket]
  BY <1>1, <1>2
<1>4. \A b \in 0 .. T.num_buckets - 1 : T.buckets[b] \in Bucket
  BY <1>3
<1> QED BY <1>1, <1>3, <1>4 DEF Tables, Bucket

(* What Push makes of a table, field by field.                             *)
LEMMA PushIs ==
  ASSUME NEW T, IsTable(T), NEW e \in Elements
  PROVE  LET b   == HASH_TO_BKT(e, T.num_buckets)
             old == T.buckets[b].hh_head
             P   == Push(T, e)
         IN /\ IsTable(P) /\ b \in 0 .. T.num_buckets - 1
            /\ P.num_buckets = T.num_buckets
            /\ P.ideal_chain_maxlen = T.ideal_chain_maxlen
            /\ P.ineff_expands = T.ineff_expands /\ P.noexpand = T.noexpand
            /\ P.buckets[b].count = T.buckets[b].count + 1
            /\ P.buckets[b].hh_head = e
            /\ P.buckets[b].expand_mult = T.buckets[b].expand_mult
            /\ \A c \in 0 .. T.num_buckets - 1 : c # b => P.buckets[c] = T.buckets[c]
            /\ P.hh_next[e] = old /\ (e # old => P.hh_prev[e] = NULL)
            /\ \A x \in Elements : x # e =>
                 /\ P.hh_next[x] = T.hh_next[x]
                 /\ P.hh_prev[x] = IF x = old THEN e ELSE T.hh_prev[x]
<1> DEFINE b == HASH_TO_BKT(e, T.num_buckets)
           n == T.num_buckets
           old == T.buckets[b].hh_head
           P == Push(T, e)
           new == [T.buckets[b] EXCEPT !.count = @ + 1, !.hh_head = e]
           prv == [x \in Elements |-> IF x = old THEN e
                                   ELSE IF x = e THEN NULL ELSE T.hh_prev[x]]
<1>1. /\ T \in Tables /\ n \in Nat \ {0} /\ T.buckets \in [0 .. n - 1 -> Bucket]
      /\ T.hh_next \in [Elements -> Pointer] /\ T.hh_prev \in [Elements -> Pointer]
  BY TableFacts DEF IsTable
<1>2. b \in 0 .. n - 1
  BY <1>1, BucketRange
<1>3. /\ T.buckets[b] \in Bucket /\ new \in Bucket /\ old \in Pointer
      /\ new.count = T.buckets[b].count + 1 /\ new.hh_head = e
      /\ new.expand_mult = T.buckets[b].expand_mult
  <2>1. PICK k \in Bucket : k = T.buckets[b]
    BY <1>1, <1>2
  <2>2. k.hh_head \in Pointer /\ k.count \in Nat /\ k.expand_mult \in Nat
    BY DEF Bucket
  <2>3. PICK l : l = [k EXCEPT !.count = @ + 1, !.hh_head = e]
    OBVIOUS
  <2>4. l.count = k.count + 1 /\ l.hh_head = e /\ l.expand_mult = k.expand_mult
    BY <2>3 DEF Bucket
  <2>5. l = [hh_head |-> e, count |-> k.count + 1, expand_mult |-> k.expand_mult]
    BY <2>3 DEF Bucket
  <2>6. l \in Bucket
    BY <2>2, <2>5 DEF Bucket, Pointer
  <2>7. new = l
    BY <2>1, <2>3
  <2> HIDE DEF b, new
  <2> QED BY <2>1, <2>2, <2>4, <2>6, <2>7
<1>4. P = [T EXCEPT !.buckets = [T.buckets EXCEPT ![b] = new],
                    !.hh_next = [T.hh_next EXCEPT ![e] = old], !.hh_prev = prv]
  <2> HIDE DEF b
  <2> QED BY <1>1, <1>2 DEF Push, b, Tables
<1> HIDE DEF b, new, old, prv, P
<1>5. /\ P.buckets = [T.buckets EXCEPT ![b] = new]
      /\ P.hh_next = [T.hh_next EXCEPT ![e] = old] /\ P.hh_prev = prv
      /\ P.num_buckets = n /\ P.ideal_chain_maxlen = T.ideal_chain_maxlen
      /\ P.nonideal_items = T.nonideal_items
      /\ P.ineff_expands = T.ineff_expands /\ P.noexpand = T.noexpand
  BY <1>1, <1>4 DEF Tables
<1>6. P.buckets \in [0 .. n - 1 -> Bucket] /\ P.hh_next \in [Elements -> Pointer]
  <2> HIDE DEF n
  <2> QED BY <1>1, <1>2, <1>3, <1>5
<1>7. prv \in [Elements -> Pointer]
  <2>1. \A x \in Elements : (IF x = old THEN e ELSE IF x = e THEN NULL ELSE T.hh_prev[x])
                              \in Pointer
    BY <1>1 DEF Pointer
  <2> QED BY <2>1 DEF prv
<1>8. IsTable(P)
  <2>1. P.buckets \in BucketArrays
    BY <1>1, <1>6 DEF BucketArrays
  <2>2. P \in Tables
    BY <1>1, <1>4, <1>5, <1>6, <1>7, <2>1 DEF Tables
  <2> QED BY <1>5, <1>6, <2>2 DEF IsTable
<1>9. /\ e # old => P.hh_prev[e] = NULL
      /\ \A x \in Elements : x # e => P.hh_prev[x] = IF x = old THEN e ELSE T.hh_prev[x]
  <2>1. \A x \in Elements : prv[x] = IF x = old THEN e
                                  ELSE IF x = e THEN NULL ELSE T.hh_prev[x]
    BY DEF prv
  <2>2. \A x \in Elements : x # e => prv[x] = IF x = old THEN e ELSE T.hh_prev[x]
    BY <2>1
  <2>3. e # old => prv[e] = NULL
    BY <2>1
  <2>4. P.hh_prev = prv
    BY <1>5
  <2> QED BY <2>2, <2>3, <2>4
<1>10. /\ P.buckets[b] = new
       /\ \A c \in 0 .. n - 1 : c # b => P.buckets[c] = T.buckets[c]
       /\ P.hh_next[e] = old
       /\ \A x \in Elements : x # e => P.hh_next[x] = T.hh_next[x]
  BY <1>1, <1>2, <1>5
<1> QED BY <1>1, <1>2, <1>3, <1>5, <1>8, <1>9, <1>10 DEF b, old, P

(* Chains do not depend on the other fields of a table.                    *)
LEMMA SameChains ==
  ASSUME NEW T, NEW U, NEW C, NEW S, ChainsAre(T, C, S),
         U.num_buckets = T.num_buckets, U.hh_next = T.hh_next, U.hh_prev = T.hh_prev,
         \A b \in 0 .. T.num_buckets - 1 : /\ U.buckets[b].hh_head = T.buckets[b].hh_head
                                           /\ U.buckets[b].count = T.buckets[b].count
  PROVE  ChainsAre(U, C, S)
BY DEF ChainsAre

(* A new element becomes the first of its chain; the other chains stay.    *)
LEMMA PushChains ==
  ASSUME NEW T, IsTable(T), NEW S \in SUBSET Elements, NEW C, ChainsAre(T, C, S),
         NEW e \in Elements, e \notin S
  PROVE  \E D : ChainsAre(Push(T, e), D, S \cup {e})
<1> DEFINE b == HASH_TO_BKT(e, T.num_buckets)
           n == T.num_buckets
           old == T.buckets[b].hh_head
           P == Push(T, e)
           D == [C EXCEPT ![b] = <<e>> \o C[b]]
<1>1. /\ n \in Nat \ {0} /\ b \in 0 .. n - 1 /\ P.num_buckets = n
      /\ P.buckets[b].count = T.buckets[b].count + 1 /\ P.buckets[b].hh_head = e
      /\ \A c \in 0 .. n - 1 : c # b => P.buckets[c] = T.buckets[c]
      /\ P.hh_next[e] = old /\ (e # old => P.hh_prev[e] = NULL)
      /\ \A x \in Elements : x # e => /\ P.hh_next[x] = T.hh_next[x]
                                      /\ P.hh_prev[x] = IF x = old THEN e ELSE T.hh_prev[x]
  BY PushIs, TableFacts
<1>2. /\ C \in [0 .. n - 1 -> Seq(Elements)]
      /\ \A c \in 0 .. n - 1 :
           /\ Distinct(C[c]) /\ T.buckets[c].count = Len(C[c])
           /\ Linked(C[c], T.buckets[c].hh_head, T.hh_next, T.hh_prev)
           /\ \A x : Has(C[c], x) <=> x \in S /\ HASH_TO_BKT(x, n) = c
  BY DEF ChainsAre
<1> HIDE DEF P
<1>3. /\ C[b] \in Seq(Elements) /\ Distinct(C[b]) /\ ~Has(C[b], e)
      /\ Linked(C[b], old, T.hh_next, T.hh_prev)
  BY <1>1, <1>2
<1> DEFINE t == <<e>> \o C[b]
<1>4. /\ t \in Seq(Elements) /\ Len(t) = Len(C[b]) + 1 /\ Distinct(t)
      /\ \A x : Has(t, x) <=> x = e \/ Has(C[b], x)
  BY <1>3, DistinctPush
<1>5. Linked(t, e, P.hh_next, P.hh_prev)
  <2>1. \A x \in Elements : x # e => P.hh_next[x] = T.hh_next[x]
    BY <1>1
  <2>2. \A x \in Elements : x # e => P.hh_prev[x] = IF x = old THEN e ELSE T.hh_prev[x]
    BY <1>1
  <2>3. P.hh_next[e] = old /\ P.hh_prev[e] = NULL
    <3>1. old = IF C[b] = <<>> THEN NULL ELSE C[b][1]
      BY <1>3 DEF Linked
    <3>2. C[b] # <<>> => 1 \in 1 .. Len(C[b])
      BY <1>3
    <3>3. e # old
      BY <1>3, <3>1, <3>2, HashAssumption DEF Has
    <3> QED BY <1>1, <3>3
  <2> HIDE DEF old, b
  <2> QED BY <1>3, <2>1, <2>2, <2>3, LinkedPush
<1> HIDE DEF t
<1>6. D \in [0 .. n - 1 -> Seq(Elements)] /\ D[b] = t
      /\ \A c \in 0 .. n - 1 : c # b => D[c] = C[c]
  BY <1>1, <1>2, <1>4 DEF t
<1> HIDE DEF D, b, old
<1>7. ASSUME NEW c \in 0 .. n - 1, c # b
      PROVE  Linked(C[c], P.buckets[c].hh_head, P.hh_next, P.hh_prev)
  <2>1. ASSUME NEW k \in 1 .. Len(C[c])
        PROVE  C[c][k] \in Elements /\ C[c][k] # e /\ C[c][k] # old
    <3>1. Has(C[c], C[c][k]) /\ C[c] \in Seq(Elements)
      BY <1>2 DEF Has
    <3>2. C[c][k] \in S /\ HASH_TO_BKT(C[c][k], n) = c
      BY <1>2, <3>1
    <3>3. old = NULL \/ Has(C[b], old)
      <4>1. old = IF C[b] = <<>> THEN NULL ELSE C[b][1]
        BY <1>3 DEF Linked
      <4>2. C[b] # <<>> => 1 \in 1 .. Len(C[b])
        BY <1>3
      <4> QED BY <4>1, <4>2 DEF Has
    <3>4. old # NULL => HASH_TO_BKT(old, n) = b
      BY <1>1, <1>2, <3>3
    <3> QED BY <1>7, <3>2, <3>4, HashAssumption
  <2>2. Linked(C[c], T.buckets[c].hh_head, T.hh_next, T.hh_prev)
    BY <1>2
  <2>3. P.buckets[c] = T.buckets[c]
    BY <1>1, <1>7
  <2>4. \A k \in 1 .. Len(C[c]) : /\ P.hh_next[C[c][k]] = T.hh_next[C[c][k]]
                                 /\ P.hh_prev[C[c][k]] = T.hh_prev[C[c][k]]
    BY <1>1, <2>1
  <2> HIDE DEF n
  <2> QED BY <2>2, <2>3, <2>4 DEF Linked
<1>8. ASSUME NEW c \in 0 .. n - 1
      PROVE  /\ Distinct(D[c]) /\ P.buckets[c].count = Len(D[c])
             /\ Linked(D[c], P.buckets[c].hh_head, P.hh_next, P.hh_prev)
             /\ \A x : Has(D[c], x) <=> x \in S \cup {e} /\ HASH_TO_BKT(x, n) = c
  <2>1. CASE c = b
    <3>1. \A x : Has(t, x) <=> x \in S \cup {e} /\ HASH_TO_BKT(x, n) = b
      BY <1>1, <1>2, <1>4 DEF b
    <3> QED BY <1>1, <1>2, <1>4, <1>5, <1>6, <2>1, <3>1
  <2>2. CASE c # b
    <3>1. \A x : Has(C[c], x) <=> x \in S \cup {e} /\ HASH_TO_BKT(x, n) = c
      BY <1>2, <2>2 DEF b
    <3> QED BY <1>1, <1>2, <1>6, <1>7, <2>2, <3>1
  <2> QED BY <2>1, <2>2
<1>9. ChainsAre(P, D, S \cup {e})
  BY <1>1, <1>6, <1>8 DEF ChainsAre
<1> QED BY <1>9 DEF P

(* One turn of the expansion puts one element into its new chain, and      *)
(* raises the threshold of a bucket whose chain gets too long.             *)
LEMMA RebucketChains ==
  ASSUME NEW T, IsTable(T), CountsBounded(T), T.ideal_chain_maxlen # 0,
         NEW S \in SUBSET Elements, NEW C, ChainsAre(T, C, S),
         NEW e \in Elements, e \notin S
  PROVE  LET R == Rebucket(T, e)
         IN /\ IsTable(R) /\ CountsBounded(R)
            /\ R.num_buckets = T.num_buckets
            /\ R.ideal_chain_maxlen = T.ideal_chain_maxlen
            /\ R.ineff_expands = T.ineff_expands /\ R.noexpand = T.noexpand
            /\ \E D : ChainsAre(R, D, S \cup {e})
<1> DEFINE b == HASH_TO_BKT(e, T.num_buckets)
           n == T.num_buckets
           I == T.ideal_chain_maxlen
           P == Push(T, e)
           c == P.buckets[b].count
           m == P.buckets[b].expand_mult
           new == [P.buckets[b] EXCEPT !.expand_mult = IF c > @ * I THEN @ + 1 ELSE @]
           U == [P EXCEPT !.nonideal_items = @ + 1,
                          !.buckets = [P.buckets EXCEPT ![b] = new]]
           R == Rebucket(T, e)
<1>1. /\ IsTable(P) /\ b \in 0 .. n - 1 /\ P.num_buckets = n
      /\ P.ideal_chain_maxlen = I
      /\ P.ineff_expands = T.ineff_expands /\ P.noexpand = T.noexpand
      /\ c = T.buckets[b].count + 1 /\ m = T.buckets[b].expand_mult
      /\ \A k \in 0 .. n - 1 : k # b => P.buckets[k] = T.buckets[k]
  BY PushIs
<1>2. /\ n \in Nat \ {0} /\ I \in Nat \ {0} /\ c \in Nat /\ m \in Nat
      /\ T.buckets[b].count \in Nat
      /\ P.buckets \in [0 .. n - 1 -> Bucket] /\ P \in Tables /\ P.nonideal_items \in Nat
      /\ P.buckets[b] \in Bucket
  BY <1>1, TableFacts DEF IsTable
<1>3. T.buckets[b].count <= (m + 1) * I
  BY <1>1 DEF CountsBounded
<1>4. PICK D : ChainsAre(P, D, S \cup {e})
  BY PushChains
<1>5. R = IF c <= I THEN P ELSE U
  <2> HIDE DEF b, P
  <2> QED BY <1>1, <1>2 DEF Rebucket, b, P, Tables
<1> HIDE DEF P, b, R
<1>6. CASE c <= I
  <2>1. R = P
    BY <1>5, <1>6
  <2>2. c <= (m + 1) * I
    <3>1. I <= (m + 1) * I
      <4> HIDE DEF I, m, c
      <4>1. (m + 1) * I = m * I + I /\ m * I \in Nat
        BY <1>2
      <4> QED BY <1>2, <4>1
    <3>2. (m + 1) * I \in Nat
      BY <1>2
    <3> HIDE DEF I, m, c
    <3> QED BY <1>2, <1>6, <3>1, <3>2
  <2>3. CountsBounded(P)
    <3> SUFFICES ASSUME NEW k \in 0 .. n - 1
                 PROVE  P.buckets[k].count <= (P.buckets[k].expand_mult + 1) * I
      BY <1>1 DEF CountsBounded
    <3>1. CASE k = b
      BY <2>2, <3>1
    <3>2. CASE k # b
      <4>1. P.buckets[k] = T.buckets[k]
        BY <1>1, <3>2
      <4> QED BY <4>1 DEF CountsBounded
    <3> QED BY <3>1, <3>2
  <2> QED BY <1>1, <1>4, <2>1, <2>3 DEF R
<1>7. CASE ~(c <= I)
  <2>1. R = U
    BY <1>5, <1>7
  <2>2. /\ new \in Bucket /\ new.hh_head = P.buckets[b].hh_head /\ new.count = c
        /\ new.expand_mult = IF c > m * I THEN m + 1 ELSE m
    <3>1. PICK k \in Bucket : k = P.buckets[b]
      BY <1>2
    <3>2. k.hh_head \in Pointer /\ k.count \in Nat /\ k.expand_mult \in Nat
      BY DEF Bucket
    <3>3. PICK x \in Nat : x = IF c > m * I THEN m + 1 ELSE m
      BY <1>2
    <3>4. new = [k EXCEPT !.expand_mult = x]
      BY <3>1, <3>3
    <3>5. [k EXCEPT !.expand_mult = x] = [hh_head |-> k.hh_head, count |-> k.count, expand_mult |-> x]
      BY DEF Bucket
    <3> HIDE DEF new
    <3>6. new \in Bucket /\ new.hh_head = k.hh_head /\ new.count = k.count /\ new.expand_mult = x
      BY <3>2, <3>3, <3>4, <3>5 DEF Bucket
    <3> QED BY <3>1, <3>3, <3>6
  <2> HIDE DEF new
  <2>3. /\ U.buckets = [P.buckets EXCEPT ![b] = new] /\ U.num_buckets = n
        /\ U.hh_next = P.hh_next /\ U.hh_prev = P.hh_prev
        /\ U.ideal_chain_maxlen = I
        /\ U.ineff_expands = T.ineff_expands /\ U.noexpand = T.noexpand
        /\ U.nonideal_items = P.nonideal_items + 1
    BY <1>1, <1>2 DEF Tables
  <2>4. /\ U.buckets \in [0 .. n - 1 -> Bucket] /\ U.buckets[b] = new
        /\ \A k \in 0 .. n - 1 : k # b => U.buckets[k] = P.buckets[k]
    <3> HIDE DEF n, U
    <3> QED BY <1>1, <1>2, <2>2, <2>3
  <2>5. IsTable(U)
    <3>1. U.buckets \in BucketArrays
      BY <1>2, <2>4 DEF BucketArrays
    <3>2. U \in Tables
      <4>1. U = [P EXCEPT !.nonideal_items = U.nonideal_items, !.buckets = U.buckets]
        BY <1>2, <2>3 DEF Tables
      <4>2. /\ U.num_buckets \in Nat \ {0} /\ U.hh_prev \in [Elements -> Pointer]
            /\ U.hh_next \in [Elements -> Pointer] /\ U.ideal_chain_maxlen \in Nat
            /\ U.nonideal_items \in Nat /\ U.ineff_expands \in Nat /\ U.noexpand \in BOOLEAN
        BY <1>1, <1>2, <2>3, TableFacts
      <4> HIDE DEF U
      <4>3. U = [num_buckets |-> U.num_buckets, buckets |-> U.buckets,
                 hh_prev |-> U.hh_prev, hh_next |-> U.hh_next,
                 ideal_chain_maxlen |-> U.ideal_chain_maxlen,
                 nonideal_items |-> U.nonideal_items,
                 ineff_expands |-> U.ineff_expands, noexpand |-> U.noexpand]
        BY <1>2, <2>3, <4>1 DEF Tables
      <4> QED BY <3>1, <4>2, <4>3 DEF Tables
    <3> HIDE DEF U
    <3> QED BY <2>3, <2>4, <3>2 DEF IsTable
  <2> HIDE DEF U
  <2>6. c <= (new.expand_mult + 1) * I
    <3> HIDE DEF c, m, I
    <3>1. PICK q \in Nat : q = m * I
      BY <1>2
    <3>2. (m + 1) * I = q + I /\ (m + 1 + 1) * I = q + I + I
      BY <1>2, <3>1
    <3>3. c <= q + I + 1
      <4>1. c = T.buckets[b].count + 1
        BY <1>1 DEF c
      <4>2. T.buckets[b].count <= q + I
        BY <1>3, <3>2
      <4> QED BY <1>2, <4>1, <4>2
    <3>4. CASE c > q
      <4>1. new.expand_mult = m + 1
        BY <2>2, <3>1, <3>4
      <4> QED BY <1>2, <3>2, <3>3, <4>1
    <3>5. CASE ~(c > q)
      <4>1. new.expand_mult = m
        BY <2>2, <3>1, <3>5
      <4> QED BY <1>2, <3>2, <3>5, <4>1
    <3> QED BY <3>4, <3>5
  <2>7. CountsBounded(U)
    <3> SUFFICES ASSUME NEW k \in 0 .. n - 1
                 PROVE  U.buckets[k].count <= (U.buckets[k].expand_mult + 1) * I
      BY <2>3 DEF CountsBounded
    <3>1. CASE k = b
      BY <2>2, <2>4, <2>6, <3>1
    <3>2. CASE k # b
      <4>1. U.buckets[k] = T.buckets[k]
        BY <1>1, <2>4, <3>2
      <4> QED BY <4>1 DEF CountsBounded
    <3> QED BY <3>1, <3>2
  <2>8. ChainsAre(U, D, S \cup {e})
    <3>1. \A k \in 0 .. n - 1 : /\ U.buckets[k].hh_head = P.buckets[k].hh_head
                                /\ U.buckets[k].count = P.buckets[k].count
      BY <2>2, <2>4
    <3> QED BY <1>1, <1>4, <2>3, <3>1, SameChains
  <2> QED BY <2>1, <2>3, <2>5, <2>7, <2>8 DEF R
<1> QED BY <1>6, <1>7

(* A table of n buckets and ideal chain length I that holds S.             *)
Holds(T, n, I, S) ==
  /\ IsTable(T) /\ CountsBounded(T)
  /\ T.num_buckets = n /\ T.ideal_chain_maxlen = I
  /\ \E C : ChainsAre(T, C, S)

LEMMA RebucketHolds ==
  ASSUME NEW n, NEW I, I # 0, NEW S \in SUBSET Elements, NEW T, Holds(T, n, I, S),
         NEW e \in Elements, e \notin S
  PROVE  Holds(Rebucket(T, e), n, I, S \cup {e})
<1>1. PICK C : ChainsAre(T, C, S)
  BY DEF Holds
<1>2. IsTable(T) /\ CountsBounded(T) /\ T.num_buckets = n /\ T.ideal_chain_maxlen = I
  BY DEF Holds
<1> QED BY <1>1, <1>2, RebucketChains DEF Holds

(* The tables of the expansion's loop, turn by turn.                       *)
Turns(f, fresh, moved, n) ==
  /\ f = [k \in 0 .. n |-> f[k]]
  /\ f[0] = fresh
  /\ \A k \in 1 .. n : f[k] = Rebucket(f[k - 1], moved[k])

(* There are such tables: by induction on the number of turns.             *)
LEMMA TurnsExist ==
  ASSUME NEW fresh, NEW moved, NEW n \in Nat
  PROVE  \E f : Turns(f, fresh, moved, n)
<1> DEFINE Exists(k) == \E f : Turns(f, fresh, moved, k)
           Bad == {k \in Nat : ~Exists(k)}
<1>1. ASSUME NEW m \in Bad, \A k \in Bad : m <= k PROVE FALSE
  <2>1. m \in Nat /\ ~Exists(m)
    OBVIOUS
  <2>2. CASE m = 0
    <3> DEFINE f == [k \in 0 .. 0 |-> fresh]
    <3>1. f = [k \in 0 .. 0 |-> f[k]] /\ f[0] = fresh /\ \A k \in 1 .. 0 : FALSE
      OBVIOUS
    <3> HIDE DEF f
    <3>2. Turns(f, fresh, moved, 0)
      BY <3>1 DEF Turns
    <3> QED BY <2>1, <2>2, <3>2
  <2>3. CASE m # 0
    <3>1. m - 1 \in Nat /\ ~(m <= m - 1)
      BY <2>1, <2>3
    <3>2. Exists(m - 1)
      BY <1>1, <3>1
    <3>3. PICK f : Turns(f, fresh, moved, m - 1)
      BY <3>2
    <3> DEFINE c == Rebucket(f[m - 1], moved[m])
               g == [k \in 0 .. m |-> IF k = m THEN c ELSE f[k]]
    <3> HIDE DEF c
    <3>4. g = [k \in 0 .. m |-> g[k]] /\ g[0] = fresh
      BY <2>1, <2>3, <3>3 DEF Turns
    <3>5. ASSUME NEW k \in 1 .. m PROVE g[k] = Rebucket(g[k - 1], moved[k])
      <4>1. CASE k = m
        <5>1. g[k] = c /\ g[k - 1] = f[m - 1]
          BY <2>1, <2>3, <4>1
        <5> QED BY <4>1, <5>1 DEF c
      <4>2. CASE k # m
        <5>1. k \in 1 .. m - 1
          BY <2>1, <4>2
        <5>2. g[k] = f[k] /\ g[k - 1] = f[k - 1]
          BY <2>1, <4>2, <5>1
        <5> HIDE DEF g
        <5> QED BY <3>3, <5>1, <5>2 DEF Turns
      <4> QED BY <4>1, <4>2
    <3> HIDE DEF g
    <3>6. Turns(g, fresh, moved, m)
      BY <3>4, <3>5 DEF Turns
    <3> QED BY <2>1, <3>6
  <2> QED BY <2>2, <2>3
<1>2. Bad = {}
  <2>1. Bad \in SUBSET Nat
    OBVIOUS
  <2> HIDE DEF Bad
  <2> QED BY <1>1, <2>1, Least
<1> QED BY <1>2

(* The elements of the first k places.                                     *)
Moved(s, k) == {x \in Elements : \E i \in 1 .. k : s[i] = x}

(* The loop puts the elements it is given into the fresh table, one a turn.*)
LEMMA TurnsHold ==
  ASSUME NEW n, NEW I, I # 0, NEW fresh, Holds(fresh, n, I, {}),
         NEW s \in Seq(Elements), Distinct(s), NEW f, Turns(f, fresh, s, Len(s))
  PROVE  Holds(f[Len(s)], n, I, Moved(s, Len(s)))
<1> DEFINE Good(k) == Holds(f[k], n, I, Moved(s, k))
           Bad == {k \in 0 .. Len(s) : ~Good(k)}
<1>1. ASSUME NEW m \in Bad, \A k \in Bad : m <= k PROVE FALSE
  <2>1. m \in 0 .. Len(s) /\ ~Good(m) /\ Len(s) \in Nat
    OBVIOUS
  <2>2. CASE m = 0
    <3>1. Moved(s, 0) = {}
      BY DEF Moved
    <3>2. f[0] = fresh
      BY DEF Turns
    <3> QED BY <2>1, <2>2, <3>1, <3>2
  <2>3. CASE m # 0
    <3>1. m - 1 \in 0 .. Len(s) /\ ~(m <= m - 1) /\ m \in 1 .. Len(s)
      BY <2>1, <2>3
    <3>2. Holds(f[m - 1], n, I, Moved(s, m - 1))
      BY <1>1, <3>1
    <3>3. f[m] = Rebucket(f[m - 1], s[m]) /\ s[m] \in Elements
      <4>1. f[m] = Rebucket(f[m - 1], s[m])
        BY <3>1 DEF Turns
      <4>2. s[m] \in Elements
        BY <3>1
      <4> QED BY <4>1, <4>2
    <3>4. s[m] \notin Moved(s, m - 1)
      BY <3>1 DEF Moved, Distinct
    <3>5. Moved(s, m) = Moved(s, m - 1) \cup {s[m]}
      <4>1. \A x : x \in Moved(s, m) <=> x \in Moved(s, m - 1) \cup {s[m]}
        BY <3>1, <3>3 DEF Moved
      <4> QED BY <4>1
    <3>6. Moved(s, m - 1) \in SUBSET Elements
      BY DEF Moved
    <3>7. Holds(f[m], n, I, Moved(s, m))
      BY <3>2, <3>3, <3>4, <3>5, <3>6, RebucketHolds
    <3> QED BY <2>1, <3>7
  <2> QED BY <2>2, <2>3
<1>2. Bad \in SUBSET Nat
  OBVIOUS
<1>3. Bad = {}
  <2> HIDE DEF Bad
  <2> QED BY <1>1, <1>2, Least
<1>4. Len(s) \in 0 .. Len(s)
  OBVIOUS
<1> QED BY <1>3, <1>4

(* A bucket's chain is what its pointers lead through.                     *)
LEMMA ChainIs ==
  ASSUME NEW T, NEW C, NEW S, ChainsAre(T, C, S), NEW b \in 0 .. T.num_buckets - 1
  PROVE  Chain(T, b) = C[b]
<1>1. /\ C[b] \in Seq(Elements) /\ Distinct(C[b])
      /\ Linked(C[b], T.buckets[b].hh_head, T.hh_next, T.hh_prev)
  BY DEF ChainsAre
<1> QED BY <1>1, WalkIs DEF Chain

(* The chains of all buckets, one after the other, hold every element once.*)
LEMMA AllChains ==
  ASSUME NEW T, IsTable(T), NEW S \in SUBSET Elements, NEW C, ChainsAre(T, C, S)
  PROVE  LET s == FlattenSeq([b \in 1 .. T.num_buckets |-> Chain(T, b - 1)])
         IN s \in Seq(Elements) /\ Distinct(s) /\ Moved(s, Len(s)) = S
<1> DEFINE n == T.num_buckets
           q == [b \in 1 .. n |-> Chain(T, b - 1)]
           s == FlattenSeq(q)
<1>1. /\ n \in Nat /\ n # 0
      /\ C \in [0 .. n - 1 -> Seq(Elements)]
      /\ \A b \in 0 .. n - 1 :
           /\ Distinct(C[b])
           /\ \A x : Has(C[b], x) <=> x \in S /\ HASH_TO_BKT(x, n) = b
  BY TableFacts DEF ChainsAre
<1>2. ASSUME NEW b \in 1 .. n
      PROVE  b - 1 \in 0 .. n - 1 /\ Chain(T, b - 1) = C[b - 1]
  <2>1. b - 1 \in 0 .. n - 1
    BY <1>1
  <2> QED BY <2>1, ChainIs
<1>3. q = [b \in 1 .. n |-> C[b - 1]]
  BY <1>2
<1>4. q \in Seq(Seq(Elements)) /\ Len(q) = n
  <2>1. \A b \in 1 .. n : C[b - 1] \in Seq(Elements)
    BY <1>1, <1>2
  <2> HIDE DEF q
  <2>2. q \in [1 .. n -> Seq(Elements)]
    BY <1>3, <2>1
  <2> QED BY <1>1, <2>2
<1>5. ASSUME NEW i \in 1 .. n
      PROVE  Distinct(q[i]) /\ \A x : Has(q[i], x) <=> x \in S /\ HASH_TO_BKT(x, n) = i - 1
  <2>1. q[i] = C[i - 1]
    BY <1>3
  <2> HIDE DEF q
  <2> QED BY <1>1, <1>2, <2>1
<1> HIDE DEF q
<1>6. \A i, j \in 1 .. n : \A x : Has(q[i], x) /\ Has(q[j], x) => i = j
  <2> SUFFICES ASSUME NEW i \in 1 .. n, NEW j \in 1 .. n, NEW x,
                      Has(q[i], x), Has(q[j], x)
               PROVE  i = j
    OBVIOUS
  <2>1. HASH_TO_BKT(x, n) = i - 1 /\ HASH_TO_BKT(x, n) = j - 1
    BY <1>5
  <2> QED BY <1>1, <2>1
<1>7. /\ s \in Seq(Elements) /\ Distinct(s)
      /\ \A x : Has(s, x) <=> \E i \in 1 .. n : Has(q[i], x)
  BY <1>4, <1>5, <1>6, FlattenDistinct
<1> HIDE DEF s
<1>8. ASSUME NEW x PROVE x \in Moved(s, Len(s)) <=> x \in S
  <2>1. x \in Moved(s, Len(s)) <=> Has(s, x)
    BY <1>7 DEF Moved, Has
  <2>2. ASSUME x \in S PROVE \E i \in 1 .. n : Has(q[i], x)
    <3>1. HASH_TO_BKT(x, n) \in 0 .. n - 1
      BY <1>1, <2>2, BucketRange
    <3>2. PICK i \in 1 .. n : i - 1 = HASH_TO_BKT(x, n)
      <4>1. /\ HASH_TO_BKT(x, n) + 1 \in 1 .. n
            /\ (HASH_TO_BKT(x, n) + 1) - 1 = HASH_TO_BKT(x, n)
        BY <1>1, <3>1
      <4> QED BY <4>1
    <3> QED BY <1>5, <2>2, <3>2
  <2>3. ASSUME NEW i \in 1 .. n, Has(q[i], x) PROVE x \in S
    BY <1>5, <2>3
  <2> QED BY <1>7, <2>1, <2>2, <2>3
<1>9. Moved(s, Len(s)) = S
  BY <1>8
<1> QED BY <1>7, <1>9 DEF s, q

LEMMA FreshIsTable ==
  ASSUME NEW T \in Tables, NEW n \in Nat \ {0}, NEW B \in BucketArrays, NEW I \in Nat
  PROVE  [T EXCEPT !.num_buckets = n, !.buckets = B, !.nonideal_items = 0,
                   !.ideal_chain_maxlen = I] \in Tables
BY DEF Tables

(* The empty table that an expansion fills.                                *)
LEMMA FreshHolds ==
  ASSUME NEW T, IsTable(T), NEW n \in Nat \ {0}, NEW I \in Nat
  PROVE  LET fresh == [T EXCEPT !.num_buckets = n, !.buckets = Buckets(n),
                                !.nonideal_items = 0, !.ideal_chain_maxlen = I]
         IN /\ Holds(fresh, n, I, {})
            /\ fresh.ineff_expands = T.ineff_expands /\ fresh.noexpand = T.noexpand
<1> DEFINE fresh == [T EXCEPT !.num_buckets = n, !.buckets = Buckets(n),
                              !.nonideal_items = 0, !.ideal_chain_maxlen = I]
<1>1. /\ T \in Tables /\ T.hh_next \in [Elements -> Pointer]
      /\ T.hh_prev \in [Elements -> Pointer]
      /\ T.ineff_expands \in Nat /\ T.noexpand \in BOOLEAN
  BY TableFacts DEF IsTable
<1>2. /\ fresh.num_buckets = n /\ fresh.buckets = Buckets(n)
      /\ fresh.ideal_chain_maxlen = I /\ fresh.nonideal_items = 0
      /\ fresh.hh_next = T.hh_next /\ fresh.hh_prev = T.hh_prev
      /\ fresh.ineff_expands = T.ineff_expands /\ fresh.noexpand = T.noexpand
      /\ fresh = [T EXCEPT !.num_buckets = n, !.buckets = Buckets(n),
                           !.nonideal_items = 0, !.ideal_chain_maxlen = I]
  <2>1. /\ fresh.num_buckets = n /\ fresh.buckets = Buckets(n)
        /\ fresh.ideal_chain_maxlen = I /\ fresh.nonideal_items = 0
    BY <1>1 DEF Tables
  <2>2. /\ fresh.hh_next = T.hh_next /\ fresh.hh_prev = T.hh_prev
        /\ fresh.ineff_expands = T.ineff_expands /\ fresh.noexpand = T.noexpand
    BY <1>1 DEF Tables
  <2>3. fresh = [T EXCEPT !.num_buckets = n, !.buckets = Buckets(n),
                          !.nonideal_items = 0, !.ideal_chain_maxlen = I]
    OBVIOUS
  <2> HIDE DEF fresh
  <2> QED BY <2>1, <2>2, <2>3
<1>3. /\ EmptyBucket \in Bucket /\ EmptyBucket.hh_head = NULL /\ EmptyBucket.count = 0
      /\ EmptyBucket.expand_mult = 0
  BY DEF EmptyBucket, Bucket, Pointer
<1>4. /\ Buckets(n) \in [0 .. n - 1 -> Bucket]
      /\ \A b \in 0 .. n - 1 : Buckets(n)[b] = EmptyBucket
  BY <1>3 DEF Buckets
<1>5. Buckets(n) \in BucketArrays
  BY <1>4 DEF BucketArrays
<1> HIDE DEF fresh
<1>6. IsTable(fresh)
  <2>1. fresh \in Tables
    <3>1. T \in Tables /\ Buckets(n) \in BucketArrays
      BY <1>1, <1>5
    <3>2. [T EXCEPT !.num_buckets = n, !.buckets = Buckets(n), !.nonideal_items = 0,
                    !.ideal_chain_maxlen = I] \in Tables
      BY <3>1, FreshIsTable
    <3> QED BY <1>2, <3>2
  <2> QED BY <1>2, <1>4, <2>1 DEF IsTable
<1>7. CountsBounded(fresh)
  <2> SUFFICES ASSUME NEW b \in 0 .. n - 1
               PROVE  fresh.buckets[b].count <= (fresh.buckets[b].expand_mult + 1) * I
    BY <1>2 DEF CountsBounded
  <2>1. fresh.buckets[b].count = 0 /\ fresh.buckets[b].expand_mult = 0
    BY <1>2, <1>3, <1>4
  <2> QED BY <2>1
<1> DEFINE C == [b \in 0 .. n - 1 |-> <<>>]
<1>8. ChainsAre(fresh, C, {})
  <2>1. C \in [0 .. n - 1 -> Seq(Elements)] /\ \A b \in 0 .. n - 1 : C[b] = <<>>
    OBVIOUS
  <2>2. /\ Distinct(<<>>) /\ Len(<<>>) = 0 /\ \A x : ~Has(<<>>, x)
        /\ Linked(<<>>, NULL, fresh.hh_next, fresh.hh_prev)
    BY DEF Distinct, Has, Linked
  <2>3. \A b \in 0 .. n - 1 : fresh.buckets[b].hh_head = NULL /\ fresh.buckets[b].count = 0
    BY <1>2, <1>3, <1>4
  <2> HIDE DEF C
  <2> QED BY <1>2, <2>1, <2>2, <2>3 DEF ChainsAre
<1>9. Holds(fresh, n, I, {})
  BY <1>2, <1>6, <1>7, <1>8 DEF Holds
<1> QED BY <1>2, <1>9 DEF fresh

(* A table that holds the elements of S.                                   *)
Stored(T, S) == IsTable(T) /\ \E C : ChainsAre(T, C, S)

(* What ChainsBounded says of a table.                                     *)
Bounded(T) ==
  ~T.noexpand => \A b \in 0 .. T.num_buckets - 1 :
    \/ ~Crowded(T.buckets[b])
    \/ T.buckets[b].count <= (T.buckets[b].expand_mult + 1) * T.ideal_chain_maxlen

(* The ideal chain length of a table with items is not 0.                  *)
LEMMA IdealIsPositive ==
  ASSUME NEW items \in Nat \ {0}, NEW n \in Nat \ {0}
  PROVE  LET I == items \div n + (IF items % n # 0 THEN 1 ELSE 0)
         IN I \in Nat /\ I # 0
<1>1. items \div n \in Nat /\ items % n \in 0 .. n - 1
  OBVIOUS
<1>2. PICK q \in Nat, r \in Nat : q = items \div n /\ r = items % n
  BY <1>1
<1>3. items = n * q + r
  BY <1>2
<1>4. r = 0 => q # 0
  BY <1>3
<1> QED BY <1>2, <1>4

(* An expansion loses no element and adds none, and afterwards every chain *)
(* is within as many times the ideal length as its bucket allows.          *)
LEMMA ExpandStores ==
  ASSUME NEW T, NEW S \in SUBSET Elements, Stored(T, S), NEW items \in Nat \ {0}
  PROVE  LET E == HASH_EXPAND_BUCKETS(T, items)
         IN Stored(E, S) /\ CountsBounded(E)
<1> DEFINE n == 2 * T.num_buckets
           moved == FlattenSeq([b \in 1 .. T.num_buckets |-> Chain(T, b - 1)])
           I == items \div n + (IF items % n # 0 THEN 1 ELSE 0)
           fresh == [T EXCEPT !.num_buckets = n, !.buckets = Buckets(n),
                              !.nonideal_items = 0, !.ideal_chain_maxlen = I]
           Is(f) == f = [k \in 0 .. Len(moved) |->
                           IF k = 0 THEN fresh ELSE Rebucket(f[k - 1], moved[k])]
           turn == CHOOSE f : Is(f)
           done == turn[Len(moved)]
           ineff == IF done.nonideal_items > items \div 2
                    THEN T.ineff_expands + 1 ELSE 0
           E == HASH_EXPAND_BUCKETS(T, items)
<1>1. E = [done EXCEPT !.ineff_expands = ineff, !.noexpand = T.noexpand \/ ineff > 1]
  BY DEF HASH_EXPAND_BUCKETS
<1> HIDE DEF E
<1>2. IsTable(T) /\ \E C : ChainsAre(T, C, S)
  BY DEF Stored
<1>3. moved \in Seq(Elements) /\ Distinct(moved) /\ Moved(moved, Len(moved)) = S
  BY <1>2, AllChains
<1> HIDE DEF moved
<1>4. n \in Nat \ {0} /\ T.ineff_expands \in Nat /\ T.noexpand \in BOOLEAN
  BY <1>2, TableFacts
<1>5. I \in Nat /\ I # 0
  <2> HIDE DEF n
  <2> QED BY <1>4, IdealIsPositive
<1> HIDE DEF n, I
<1>6. Holds(fresh, n, I, {})
  BY <1>2, <1>4, <1>5, FreshHolds
<1> HIDE DEF fresh
<1>7. Turns(turn, fresh, moved, Len(moved))
  <2>1. PICK g : Turns(g, fresh, moved, Len(moved))
    BY <1>3, TurnsExist
  <2> DEFINE m == Len(moved)
  <2>2. m \in Nat
    BY <1>3
  <2>3. Is(g)
    <3>1. g = [k \in 0 .. m |-> g[k]]
      BY <2>1 DEF Turns
    <3>2. ASSUME NEW k \in 0 .. m
          PROVE  g[k] = IF k = 0 THEN fresh ELSE Rebucket(g[k - 1], moved[k])
      <4>1. k # 0 => k \in 1 .. m
        BY <2>2
      <4> QED BY <2>1, <4>1 DEF Turns
    <3> QED BY <3>1, <3>2
  <2>4. Is(turn)
    <3> HIDE DEF Is
    <3> QED BY <2>3
  <2> HIDE DEF turn
  <2>5. /\ turn = [k \in 0 .. m |-> turn[k]]
        /\ \A k \in 0 .. m :
             turn[k] = IF k = 0 THEN fresh ELSE Rebucket(turn[k - 1], moved[k])
    BY <2>4
  <2> HIDE DEF Is
  <2>6. turn[0] = fresh
    <3>1. 0 \in 0 .. m
      BY <2>2
    <3> HIDE DEF m
    <3>2. turn[0] = IF 0 = 0 THEN fresh ELSE Rebucket(turn[0 - 1], moved[0])
      BY <2>5, <3>1
    <3> QED BY <3>2
  <2>7. ASSUME NEW k \in 1 .. m PROVE turn[k] = Rebucket(turn[k - 1], moved[k])
    <3>1. k \in 0 .. m /\ k # 0
      BY <2>2
    <3> QED BY <2>5, <3>1
  <2> QED BY <2>5, <2>6, <2>7 DEF Turns
<1> HIDE DEF turn
<1>8. Holds(done, n, I, S)
  BY <1>3, <1>5, <1>6, <1>7, TurnsHold
<1> HIDE DEF done
<1>9. PICK C : ChainsAre(done, C, S)
  BY <1>8 DEF Holds
<1>10. /\ IsTable(done) /\ done \in Tables /\ CountsBounded(done)
       /\ done.num_buckets = n
  BY <1>8 DEF Holds, IsTable
<1>11. ineff \in Nat
  BY <1>4
<1> HIDE DEF ineff
<1>12. PICK x \in BOOLEAN : x = (T.noexpand \/ ineff > 1)
  BY <1>4, <1>11
<1>13. E = [done EXCEPT !.ineff_expands = ineff, !.noexpand = x]
  BY <1>1, <1>12
<1>14. E \in Tables
  BY <1>10, <1>11, <1>13 DEF Tables
<1>15. /\ E.num_buckets = done.num_buckets /\ E.buckets = done.buckets
       /\ E.hh_next = done.hh_next /\ E.hh_prev = done.hh_prev
       /\ E.ideal_chain_maxlen = done.ideal_chain_maxlen
  BY <1>10, <1>13 DEF Tables
<1>16. IsTable(E) /\ CountsBounded(E)
  BY <1>10, <1>14, <1>15 DEF IsTable, CountsBounded
<1>17. ChainsAre(E, C, S)
  BY <1>9, <1>15, SameChains
<1> QED BY <1>16, <1>17 DEF Stored, E

(* HASH_ADD puts the element into the table, expanding it or not.          *)
LEMMA AddStores ==
  ASSUME NEW T, NEW S \in SUBSET Elements, Stored(T, S), Bounded(T),
         NEW e \in Elements, e \notin S, NEW items \in Nat \ {0}
  PROVE  LET A == HASH_ADD_TO_BKT(T, e, items)
         IN Stored(A, S \cup {e}) /\ Bounded(A)
<1> DEFINE P == Push(T, e)
           b == HASH_TO_BKT(e, T.num_buckets)
           A == HASH_ADD_TO_BKT(T, e, items)
<1>1. /\ IsTable(P) /\ P.num_buckets = T.num_buckets /\ b \in 0 .. T.num_buckets - 1
      /\ P.noexpand = T.noexpand /\ P.ideal_chain_maxlen = T.ideal_chain_maxlen
      /\ \A c \in 0 .. T.num_buckets - 1 : c # b => P.buckets[c] = T.buckets[c]
  BY PushIs DEF Stored
<1>2. Stored(P, S \cup {e})
  BY <1>1, PushChains DEF Stored
<1>3. A = IF Crowded(P.buckets[b]) /\ ~P.noexpand
          THEN HASH_EXPAND_BUCKETS(P, items) ELSE P
  <2> HIDE DEF P
  <2> QED BY <1>1 DEF HASH_ADD_TO_BKT, P
<1> HIDE DEF P, A, b
<1>4. CASE Crowded(P.buckets[b]) /\ ~P.noexpand
  <2>1. Stored(A, S \cup {e}) /\ CountsBounded(A)
    BY <1>2, <1>3, <1>4, ExpandStores
  <2> QED BY <2>1 DEF Bounded, CountsBounded, A
<1>5. CASE ~(Crowded(P.buckets[b]) /\ ~P.noexpand)
  <2>1. A = P
    BY <1>3, <1>5
  <2>2. Bounded(P)
    BY <1>1, <1>5 DEF Bounded
  <2> QED BY <1>2, <2>1, <2>2 DEF A
<1> QED BY <1>4, <1>5

(* What HASH_DEL_IN_BKT makes of a table, field by field.                  *)
LEMMA DelIs ==
  ASSUME NEW T, IsTable(T), NEW e \in Elements,
         T.buckets[HASH_TO_BKT(e, T.num_buckets)].count # 0
  PROVE  LET b == HASH_TO_BKT(e, T.num_buckets)
             B == T.buckets[b]
             D == HASH_DEL_IN_BKT(T, e)
         IN /\ IsTable(D) /\ b \in 0 .. T.num_buckets - 1
            /\ D.num_buckets = T.num_buckets
            /\ D.ideal_chain_maxlen = T.ideal_chain_maxlen
            /\ D.noexpand = T.noexpand
            /\ D.buckets[b].count = B.count - 1
            /\ D.buckets[b].hh_head = IF B.hh_head = e THEN T.hh_next[e] ELSE B.hh_head
            /\ D.buckets[b].expand_mult = B.expand_mult
            /\ \A c \in 0 .. T.num_buckets - 1 : c # b => D.buckets[c] = T.buckets[c]
            /\ \A x \in Elements : x # e =>
                 /\ D.hh_next[x] = IF x = T.hh_prev[e] THEN T.hh_next[e] ELSE T.hh_next[x]
                 /\ D.hh_prev[x] = IF x = T.hh_next[e] THEN T.hh_prev[e] ELSE T.hh_prev[x]
<1> DEFINE b == HASH_TO_BKT(e, T.num_buckets)
           n == T.num_buckets
           B == T.buckets[b]
           new == [B EXCEPT !.count = @ - 1,
                            !.hh_head = IF @ = e THEN T.hh_next[e] ELSE @]
           nxt == [x \in Elements |-> IF x = e THEN NULL
                     ELSE IF x = T.hh_prev[e] THEN T.hh_next[e] ELSE T.hh_next[x]]
           prv == [x \in Elements |-> IF x = e THEN NULL
                     ELSE IF x = T.hh_next[e] THEN T.hh_prev[e] ELSE T.hh_prev[x]]
           D == HASH_DEL_IN_BKT(T, e)
<1>1. /\ T \in Tables /\ n \in Nat \ {0} /\ T.buckets \in [0 .. n - 1 -> Bucket]
      /\ T.hh_next \in [Elements -> Pointer] /\ T.hh_prev \in [Elements -> Pointer]
  BY TableFacts DEF IsTable
<1>2. b \in 0 .. n - 1
  BY <1>1, BucketRange
<1>3. PICK old \in Bucket : old = B
  BY <1>1, <1>2
<1>4. /\ old.hh_head \in Pointer /\ old.count \in Nat /\ old.expand_mult \in Nat
      /\ old.count # 0
  BY <1>3 DEF Bucket
<1>5. PICK after \in Pointer : after = IF old.hh_head = e THEN T.hh_next[e] ELSE old.hh_head
  BY <1>1, <1>4
<1>6. new = [old EXCEPT !.count = old.count - 1, !.hh_head = after]
  <2> HIDE DEF b
  <2> QED BY <1>3, <1>5 DEF Bucket
<1>7. D = [T EXCEPT !.buckets = [T.buckets EXCEPT ![b] = new],
                    !.hh_next = nxt, !.hh_prev = prv]
  <2> HIDE DEF b
  <2> QED BY <1>1, <1>2 DEF HASH_DEL_IN_BKT, b, Tables
<1> HIDE DEF new
<1>8. /\ new \in Bucket /\ new.count = old.count - 1 /\ new.hh_head = after
      /\ new.expand_mult = old.expand_mult
  <2>1. old.count - 1 \in Nat
    BY <1>4
  <2>2. new = [hh_head |-> after, count |-> old.count - 1, expand_mult |-> old.expand_mult]
    BY <1>6 DEF Bucket
  <2> QED BY <1>4, <2>1, <2>2 DEF Bucket
<1> HIDE DEF D, b
<1>9. nxt \in [Elements -> Pointer] /\ prv \in [Elements -> Pointer]
  <2>1. \A x \in Elements :
          /\ (IF x = e THEN NULL ELSE IF x = T.hh_prev[e] THEN T.hh_next[e]
              ELSE T.hh_next[x]) \in Pointer
          /\ (IF x = e THEN NULL ELSE IF x = T.hh_next[e] THEN T.hh_prev[e]
              ELSE T.hh_prev[x]) \in Pointer
    BY <1>1 DEF Pointer
  <2> QED BY <2>1
<1>10. \A x \in Elements : x # e =>
         /\ nxt[x] = IF x = T.hh_prev[e] THEN T.hh_next[e] ELSE T.hh_next[x]
         /\ prv[x] = IF x = T.hh_next[e] THEN T.hh_prev[e] ELSE T.hh_prev[x]
  OBVIOUS
<1> HIDE DEF nxt, prv
<1>11. /\ D.buckets = [T.buckets EXCEPT ![b] = new]
       /\ D.hh_next = nxt /\ D.hh_prev = prv
       /\ D.num_buckets = n /\ D.ideal_chain_maxlen = T.ideal_chain_maxlen
       /\ D.noexpand = T.noexpand
  BY <1>1, <1>7 DEF Tables
<1>12. /\ D.buckets \in [0 .. n - 1 -> Bucket] /\ D.buckets[b] = new
       /\ \A c \in 0 .. n - 1 : c # b => D.buckets[c] = T.buckets[c]
  <2> HIDE DEF n
  <2> QED BY <1>1, <1>2, <1>8, <1>11
<1>13. IsTable(D)
  <2>1. D.buckets \in BucketArrays
    BY <1>1, <1>12 DEF BucketArrays
  <2>2. D \in Tables
    BY <1>1, <1>7, <1>9, <1>11, <2>1 DEF Tables
  <2> QED BY <1>11, <1>12, <2>2 DEF IsTable
<1>14. /\ D.buckets[b].count = B.count - 1
       /\ D.buckets[b].hh_head = IF B.hh_head = e THEN T.hh_next[e] ELSE B.hh_head
       /\ D.buckets[b].expand_mult = B.expand_mult
  BY <1>3, <1>5, <1>8, <1>12
<1> HIDE DEF B
<1>15. \A x \in Elements : x # e =>
         /\ D.hh_next[x] = IF x = T.hh_prev[e] THEN T.hh_next[e] ELSE T.hh_next[x]
         /\ D.hh_prev[x] = IF x = T.hh_next[e] THEN T.hh_prev[e] ELSE T.hh_prev[x]
  BY <1>10, <1>11
<1> QED BY <1>2, <1>11, <1>12, <1>13, <1>14, <1>15 DEF b, B, D

(* An element that is deleted leaves its chain; the other chains stay.     *)
LEMMA DelStores ==
  ASSUME NEW T, NEW S \in SUBSET Elements, Stored(T, S), Bounded(T), NEW e \in S
  PROVE  LET D == HASH_DEL_IN_BKT(T, e)
         IN Stored(D, S \ {e}) /\ Bounded(D)
<1> DEFINE n == T.num_buckets
           b == HASH_TO_BKT(e, n)
           B == T.buckets[b]
           D == HASH_DEL_IN_BKT(T, e)
<1>1. IsTable(T) /\ e \in Elements
  BY DEF Stored
<1>2. PICK C : ChainsAre(T, C, S)
  BY DEF Stored
<1>3. /\ n \in Nat /\ n # 0 /\ b \in 0 .. n - 1 /\ B.count \in Nat
      /\ T.ideal_chain_maxlen \in Nat /\ B.expand_mult \in Nat
  BY <1>1, TableFacts, BucketRange
<1>4. /\ C \in [0 .. n - 1 -> Seq(Elements)]
      /\ \A c \in 0 .. n - 1 :
           /\ Distinct(C[c]) /\ T.buckets[c].count = Len(C[c])
           /\ Linked(C[c], T.buckets[c].hh_head, T.hh_next, T.hh_prev)
           /\ \A x : Has(C[c], x) <=> x \in S /\ HASH_TO_BKT(x, n) = c
  BY <1>2 DEF ChainsAre
<1>5. PICK s \in Seq(Elements) :
        /\ s = C[b] /\ Distinct(s) /\ B.count = Len(s)
        /\ Linked(s, B.hh_head, T.hh_next, T.hh_prev)
        /\ \A x : Has(s, x) <=> x \in S /\ HASH_TO_BKT(x, n) = b
  BY <1>3, <1>4
<1>6. PICK i \in 1 .. Len(s) : s[i] = e
  BY <1>5 DEF Has
<1>7. /\ IsTable(D) /\ D.num_buckets = n
      /\ D.ideal_chain_maxlen = T.ideal_chain_maxlen /\ D.noexpand = T.noexpand
      /\ D.buckets[b].count = B.count - 1
      /\ D.buckets[b].hh_head = IF B.hh_head = e THEN T.hh_next[e] ELSE B.hh_head
      /\ D.buckets[b].expand_mult = B.expand_mult
      /\ \A c \in 0 .. n - 1 : c # b => D.buckets[c] = T.buckets[c]
      /\ \A x \in Elements : x # e =>
           /\ D.hh_next[x] = IF x = T.hh_prev[e] THEN T.hh_next[e] ELSE T.hh_next[x]
           /\ D.hh_prev[x] = IF x = T.hh_next[e] THEN T.hh_prev[e] ELSE T.hh_prev[x]
  <2>1. B.count # 0
    BY <1>5, <1>6
  <2> QED BY <1>1, <2>1, DelIs
<1> HIDE DEF D, B
<1>8. PICK t \in Seq(Elements) :
        /\ t = RemoveAt(s, i) /\ Len(t) = Len(s) - 1 /\ Distinct(t)
        /\ \A x : Has(t, x) <=> x # e /\ Has(s, x)
  <2>1. \A k, l \in 1 .. Len(s) : s[k] = s[l] => k = l
    BY <1>5 DEF Distinct
  <2>2. PICK t \in Seq(Elements) :
          /\ t = RemoveAt(s, i) /\ Len(t) = Len(s) - 1
          /\ \A k \in 1 .. Len(s) - 1 : t[k] = IF k < i THEN s[k] ELSE s[k + 1]
    BY RemoveAtIs
  <2>3. /\ \A k, l \in 1 .. Len(s) - 1 : t[k] = t[l] => k = l
        /\ Range(t) = Range(s) \ {s[i]}
    BY <2>1, <2>2, RemoveAtRemoves
  <2>4. Distinct(t)
    BY <2>2, <2>3 DEF Distinct
  <2>5. ASSUME NEW x PROVE Has(t, x) <=> x # e /\ Has(s, x)
    <3>1. \A q \in Seq(Elements) : x \in Range(q) <=> Has(q, x)
      BY DEF Range, Has
    <3> QED BY <1>6, <2>3, <3>1
  <2> QED BY <2>2, <2>4, <2>5
<1>9. Linked(t, D.buckets[b].hh_head, D.hh_next, D.hh_prev)
  <2>1. PICK first : first = B.hh_head
    OBVIOUS
  <2>2. Linked(s, first, T.hh_next, T.hh_prev)
    BY <1>5, <2>1
  <2>3. \A x \in Elements : x # s[i] =>
          /\ D.hh_next[x] = IF x = T.hh_prev[s[i]] THEN T.hh_next[s[i]] ELSE T.hh_next[x]
          /\ D.hh_prev[x] = IF x = T.hh_next[s[i]] THEN T.hh_prev[s[i]] ELSE T.hh_prev[x]
    BY <1>6, <1>7
  <2>4. Linked(RemoveAt(s, i), IF first = s[i] THEN T.hh_next[s[i]] ELSE first,
               D.hh_next, D.hh_prev)
    <3>1. s \in Seq(Elements) /\ Distinct(s) /\ i \in 1 .. Len(s)
      BY <1>5
    <3> HIDE DEF n, b
    <3>2. PICK nxt, prv, nxt2, prv2 : /\ nxt = T.hh_next /\ prv = T.hh_prev
                                      /\ nxt2 = D.hh_next /\ prv2 = D.hh_prev
      OBVIOUS
    <3>3. Linked(s, first, nxt, prv)
      BY <2>2, <3>2
    <3>4. \A x \in Elements : x # s[i] =>
            /\ nxt2[x] = IF x = prv[s[i]] THEN nxt[s[i]] ELSE nxt[x]
            /\ prv2[x] = IF x = nxt[s[i]] THEN prv[s[i]] ELSE prv[x]
      BY <2>3, <3>2
    <3>5. Linked(RemoveAt(s, i), IF first = s[i] THEN nxt[s[i]] ELSE first, nxt2, prv2)
      BY <3>1, <3>3, <3>4, LinkedRemove
    <3> QED BY <3>2, <3>5
  <2> QED BY <1>6, <1>7, <1>8, <2>1, <2>4
<1>10. ASSUME NEW c \in 0 .. n - 1, c # b
       PROVE  Linked(C[c], D.buckets[c].hh_head, D.hh_next, D.hh_prev)
  <2>1. /\ T.hh_next[e] = NULL \/ Has(s, T.hh_next[e])
        /\ T.hh_prev[e] = NULL \/ Has(s, T.hh_prev[e])
    <3>1. /\ T.hh_next[e] = IF i < Len(s) THEN s[i + 1] ELSE NULL
          /\ T.hh_prev[e] = IF i > 1 THEN s[i - 1] ELSE NULL
      BY <1>5, <1>6 DEF Linked
    <3>2. /\ i < Len(s) => i + 1 \in 1 .. Len(s)
          /\ i > 1 => i - 1 \in 1 .. Len(s)
      OBVIOUS
    <3> QED BY <3>1, <3>2 DEF Has
  <2>2. ASSUME NEW k \in 1 .. Len(C[c])
        PROVE  /\ C[c][k] \in Elements /\ C[c][k] # e
               /\ C[c][k] # T.hh_next[e] /\ C[c][k] # T.hh_prev[e]
    <3>1. C[c] \in Seq(Elements)
      BY <1>4
    <3>2. C[c][k] \in Elements /\ Has(C[c], C[c][k])
      BY <3>1 DEF Has
    <3>3. C[c][k] # NULL /\ HASH_TO_BKT(C[c][k], n) = c
      BY <1>4, <3>2, HashAssumption
    <3>4. ~Has(s, C[c][k])
      BY <1>5, <1>10, <3>3
    <3>5. Has(s, e)
      BY <1>6 DEF Has
    <3> QED BY <2>1, <3>2, <3>3, <3>4, <3>5
  <2>3. \A k \in 1 .. Len(C[c]) : /\ D.hh_next[C[c][k]] = T.hh_next[C[c][k]]
                                  /\ D.hh_prev[C[c][k]] = T.hh_prev[C[c][k]]
    BY <1>7, <2>2
  <2>4. Linked(C[c], T.buckets[c].hh_head, T.hh_next, T.hh_prev)
    BY <1>4
  <2>5. D.buckets[c] = T.buckets[c]
    BY <1>7, <1>10
  <2> HIDE DEF n, b
  <2> QED BY <2>3, <2>4, <2>5 DEF Linked
<1> DEFINE F == [C EXCEPT ![b] = t]
<1>11. F \in [0 .. n - 1 -> Seq(Elements)] /\ F[b] = t
       /\ \A c \in 0 .. n - 1 : c # b => F[c] = C[c]
  <2> HIDE DEF b, n
  <2> QED BY <1>3, <1>4
<1> HIDE DEF F, b
<1>12. ASSUME NEW c \in 0 .. n - 1
       PROVE  /\ Distinct(F[c]) /\ D.buckets[c].count = Len(F[c])
              /\ Linked(F[c], D.buckets[c].hh_head, D.hh_next, D.hh_prev)
              /\ \A x : Has(F[c], x) <=> x \in S \ {e} /\ HASH_TO_BKT(x, n) = c
  <2>1. CASE c = b
    <3>1. \A x : Has(t, x) <=> x \in S \ {e} /\ HASH_TO_BKT(x, n) = b
      BY <1>5, <1>8
    <3>2. D.buckets[b].count = Len(t)
      BY <1>5, <1>7, <1>8
    <3> QED BY <1>8, <1>9, <1>11, <2>1, <3>1, <3>2
  <2>2. CASE c # b
    <3>1. \A x : Has(C[c], x) <=> x \in S \ {e} /\ HASH_TO_BKT(x, n) = c
      BY <1>4, <2>2 DEF b
    <3>2. D.buckets[c] = T.buckets[c] /\ F[c] = C[c]
      BY <1>7, <1>11, <2>2
    <3> QED BY <1>4, <1>10, <2>2, <3>1, <3>2
  <2> QED BY <2>1, <2>2
<1>13. ChainsAre(D, F, S \ {e})
  BY <1>7, <1>11, <1>12 DEF ChainsAre
<1>14. Bounded(D)
  <2> SUFFICES ASSUME ~D.noexpand, NEW c \in 0 .. n - 1
               PROVE  \/ ~Crowded(D.buckets[c])
                      \/ D.buckets[c].count <= (D.buckets[c].expand_mult + 1) * T.ideal_chain_maxlen
    BY <1>7 DEF Bounded
  <2>1. \/ ~Crowded(T.buckets[c])
        \/ T.buckets[c].count <= (T.buckets[c].expand_mult + 1) * T.ideal_chain_maxlen
    BY <1>7 DEF Bounded
  <2>2. CASE c = b
    <3>1. /\ D.buckets[c].count = T.buckets[c].count - 1
          /\ D.buckets[c].expand_mult = T.buckets[c].expand_mult
          /\ T.buckets[c].count \in Nat /\ T.buckets[c].expand_mult \in Nat
      BY <1>3, <1>7, <2>2 DEF B
    <3>2. PICK p \in Nat : p = (T.buckets[c].expand_mult + 1) * HASH_BKT_CAPACITY_THRESH
      BY <3>1, HashAssumption
    <3>3. PICK q \in Nat : q = (T.buckets[c].expand_mult + 1) * T.ideal_chain_maxlen
      BY <1>3, <3>1
    <3> QED BY <2>1, <3>1, <3>2, <3>3 DEF Crowded
  <2>3. CASE c # b
    BY <1>7, <2>1, <2>3
  <2> QED BY <2>2, <2>3
<1> QED BY <1>7, <1>13, <1>14 DEF Stored, D

-----------------------------------------------------------------------------
(* The table of the listed elements.                                       *)
Listed == {order[k] : k \in 1 .. Len(order)}

(* It stores the listed elements, no two of which have the same key.       *)
TableInv ==
  /\ num_items = Len(order)
  /\ order = <<>> => tbl = NoTable
  /\ order # <<>> => Stored(tbl, Listed)
  /\ Bounded(tbl)
  /\ \A k, l \in 1 .. Len(order) : KeyOf[order[k]] = KeyOf[order[l]] => k = l

(* HASH_FIND finds the listed element that has the key, if there is one.   *)
LEMMA FindIs ==
  ASSUME ListInv, TableInv, NEW e \in Elements
  PROVE  LET found == HASH_FIND(KeyOf[e])
         IN \/ found = NULL /\ \A x \in Listed : KeyOf[x] # KeyOf[e]
            \/ found \in Listed /\ KeyOf[found] = KeyOf[e]
<1> DEFINE found == HASH_FIND(KeyOf[e])
           n == tbl.num_buckets
           b == HASH_TO_BKT(e, n)
           chain == Chain(tbl, b)
           hits == {k \in DOMAIN chain : KeyOf[chain[k]] = KeyOf[e]}
<1>1. /\ order \in Seq(Elements)
      /\ head = IF order = <<>> THEN NULL ELSE order[1]
  BY DEF ListInv, OrderInv, ListIntact
<1>2. CASE order = <<>>
  <2>1. found = NULL /\ Listed = {}
    BY <1>1, <1>2 DEF HASH_FIND, Listed
  <2> QED BY <2>1
<1>3. CASE order # <<>>
  <2>1. head # NULL
    <3>1. 1 \in 1 .. Len(order)
      BY <1>1, <1>3
    <3> QED BY <1>1, <1>3, <3>1, HashAssumption
  <2>2. IsTable(tbl) /\ \E C : ChainsAre(tbl, C, Listed)
    BY <1>3 DEF TableInv, Stored
  <2>3. PICK C : ChainsAre(tbl, C, Listed)
    BY <2>2
  <2>4. n \in Nat \ {0} /\ b \in 0 .. n - 1
    <3>1. n \in Nat \ {0}
      BY <2>2, TableFacts
    <3> HIDE DEF n
    <3> QED BY <3>1, BucketRange
  <2>5. /\ chain \in Seq(Elements)
        /\ \A x : Has(chain, x) <=> x \in Listed /\ HASH_TO_BKT(x, n) = b
    <3>1. chain = C[b]
      BY <2>3, <2>4, ChainIs
    <3> QED BY <2>3, <2>4, <3>1 DEF ChainsAre
  <2>6. found = IF hits = {} THEN NULL ELSE chain[Min(hits)]
    BY <2>1 DEF HASH_FIND, HASH_TO_BKT
  <2> HIDE DEF found, chain
  <2>7. hits \in SUBSET Nat /\ DOMAIN chain = 1 .. Len(chain)
    BY <2>5
  <2>8. ASSUME NEW x \in Listed, KeyOf[x] = KeyOf[e] PROVE hits # {}
    <3>1. HASH_TO_BKT(x, n) = b
      BY <2>8 DEF HASH_TO_BKT
    <3>2. PICK k \in 1 .. Len(chain) : chain[k] = x
      BY <2>5, <3>1 DEF Has
    <3> QED BY <2>7, <2>8, <3>2
  <2>9. CASE hits = {}
    BY <2>6, <2>8, <2>9 DEF found
  <2>10. CASE hits # {}
    <3>1. Min(hits) \in hits
      <4>1. \E m \in hits : \A k \in hits : m <= k
        <5> HIDE DEF hits
        <5> QED BY <2>7, <2>10, Least
      <4> HIDE DEF hits
      <4> QED BY <4>1 DEF Min
    <3>2. PICK k \in 1 .. Len(chain) : k = Min(hits) /\ KeyOf[chain[k]] = KeyOf[e]
      BY <2>7, <3>1
    <3>3. found = chain[k]
      BY <2>6, <2>10, <3>2
    <3>4. Has(chain, chain[k])
      BY DEF Has
    <3> QED BY <2>5, <3>2, <3>3, <3>4 DEF found
  <2> QED BY <2>9, <2>10
<1> QED BY <1>2, <1>3

(* An update with the same values changes nothing.                         *)
LEMMA SameTable ==
  ASSUME NEW T, NEW n, NEW B, NEW p, NEW q, NEW z,
         T = [num_buckets |-> n, buckets |-> B, hh_prev |-> p, hh_next |-> q,
              ideal_chain_maxlen |-> 0, nonideal_items |-> 0,
              ineff_expands |-> 0, noexpand |-> z]
  PROVE  [T EXCEPT !.num_buckets = n, !.buckets = B,
                   !.nonideal_items = 0, !.ideal_chain_maxlen = 0] = T
<1> DEFINE S == [num_buckets : {n}, buckets : {B}, hh_prev : {p}, hh_next : {q},
                 ideal_chain_maxlen : {0}, nonideal_items : {0},
                 ineff_expands : {0}, noexpand : {z}]
<1>1. T \in S
  OBVIOUS
<1>2. [T EXCEPT !.num_buckets = n, !.buckets = B,
                !.nonideal_items = 0, !.ideal_chain_maxlen = 0] \in S
  BY <1>1
<1>3. \A x \in S : x = T
  OBVIOUS
<1> HIDE DEF S
<1> QED BY <1>2, <1>3

LEMMA MadeTable ==
  ASSUME NEW n, NEW B
  PROVE  [NoTable EXCEPT !.num_buckets = n, !.buckets = B] =
           [num_buckets |-> n, buckets |-> B, hh_prev |-> Nowhere,
            hh_next |-> Nowhere, ideal_chain_maxlen |-> 0, nonideal_items |-> 0,
            ineff_expands |-> 0, noexpand |-> FALSE]
<1>0. PICK z : z = FALSE
  OBVIOUS
<1> DEFINE S == [num_buckets : {n}, buckets : {B}, hh_prev : {Nowhere},
                 hh_next : {Nowhere}, ideal_chain_maxlen : {0}, nonideal_items : {0},
                 ineff_expands : {0}, noexpand : {z}]
<1>1. [NoTable EXCEPT !.num_buckets = n, !.buckets = B] \in S
  BY <1>0 DEF NoTable
<1>2. \A x \in S : x = [num_buckets |-> n, buckets |-> B, hh_prev |-> Nowhere,
            hh_next |-> Nowhere, ideal_chain_maxlen |-> 0, nonideal_items |-> 0,
            ineff_expands |-> 0, noexpand |-> z]
  OBVIOUS
<1> HIDE DEF S
<1> QED BY <1>0, <1>1, <1>2

(* The table that the first element makes is empty.                        *)
LEMMA MadeEmpty == Stored(HASH_MAKE_TABLE, {}) /\ Bounded(HASH_MAKE_TABLE)
<1> DEFINE n == HASH_INITIAL_NUM_BUCKETS
           T == HASH_MAKE_TABLE
           fresh == [T EXCEPT !.num_buckets = n, !.buckets = Buckets(n),
                              !.nonideal_items = 0, !.ideal_chain_maxlen = 0]
<1>1. n \in Nat \ {0}
  BY HashAssumption
<1>2. T = [num_buckets |-> n, buckets |-> Buckets(n), hh_prev |-> Nowhere,
           hh_next |-> Nowhere, ideal_chain_maxlen |-> 0, nonideal_items |-> 0,
           ineff_expands |-> 0, noexpand |-> FALSE]
  <2>1. T = [NoTable EXCEPT !.num_buckets = n, !.buckets = Buckets(n)]
    BY DEF HASH_MAKE_TABLE
  <2> HIDE DEF T, n
  <2> QED BY <2>1, MadeTable
<1>3. /\ EmptyBucket \in Bucket /\ Nowhere \in [Elements -> Pointer]
      /\ Buckets(n) \in [0 .. n - 1 -> Bucket]
  BY DEF EmptyBucket, Bucket, Nowhere, Pointer, Buckets
<1>4. Buckets(n) \in BucketArrays
  BY <1>1, <1>3 DEF BucketArrays
<1> HIDE DEF n, T
<1>5. IsTable(T)
  <2>1. T \in Tables
    BY <1>1, <1>2, <1>3, <1>4 DEF Tables
  <2> QED BY <1>2, <1>3, <2>1 DEF IsTable
<1>6. fresh = T
  BY <1>2, SameTable
<1>7. Holds(fresh, n, 0, {})
  BY <1>1, <1>5, FreshHolds
<1> HIDE DEF fresh
<1>8. Stored(T, {}) /\ CountsBounded(T)
  BY <1>6, <1>7 DEF Holds, Stored
<1> QED BY <1>8 DEF Bounded, CountsBounded, T

LEMMA NoTableBounded == Bounded(NoTable)
BY DEF Bounded, NoTable

(* HASH_DEL keeps the table in agreement with the list.                    *)
LEMMA DeleteKeepsTable ==
  ASSUME ListInv, TableInv, NEW i \in 1 .. Len(order), HASH_DELETE(order[i])
  PROVE  TableInv'
<1> DEFINE n == Len(order)
           e == order[i]
<1>1. /\ order \in Seq(Elements) /\ n \in Nat /\ e \in Elements
      /\ \A k, l \in 1 .. n : order[k] = order[l] => k = l
      /\ DOMAIN order = 1 .. n
  BY DEF ListInv, OrderInv
<1>2. /\ order' \in Seq(Elements) /\ Len(order') = n - 1
      /\ \A k \in 1 .. n - 1 : order'[k] = IF k < i THEN order[k] ELSE order[k + 1]
  BY UnlistKeepsList DEF HASH_DELETE
<1>3. (prev[e] = NULL /\ next[e] = NULL) <=> n = 1
  <2>1. /\ prev[e] = IF i > 1 THEN order[i - 1] ELSE NULL
        /\ next[e] = IF i < n THEN order[i + 1] ELSE NULL
    BY <1>1 DEF ListInv, ListIntact
  <2>2. /\ i > 1 => order[i - 1] \in Elements
        /\ i < n => order[i + 1] \in Elements
    BY <1>1
  <2>3. (~(i > 1) /\ ~(i < n)) <=> n = 1
    BY <1>1
  <2> QED BY <2>1, <2>2, <2>3, HashAssumption
<1>4. \A k, l \in 1 .. n - 1 : KeyOf[order'[k]] = KeyOf[order'[l]] => k = l
  <2> SUFFICES ASSUME NEW k \in 1 .. n - 1, NEW l \in 1 .. n - 1,
                      KeyOf[order'[k]] = KeyOf[order'[l]]
               PROVE  k = l
    OBVIOUS
  <2>1. PICK a \in 1 .. n : order'[k] = order[a] /\ a = IF k < i THEN k ELSE k + 1
    BY <1>1, <1>2
  <2>2. PICK c \in 1 .. n : order'[l] = order[c] /\ c = IF l < i THEN l ELSE l + 1
    BY <1>1, <1>2
  <2>3. a = c
    BY <2>1, <2>2 DEF TableInv
  <2> QED BY <1>1, <2>1, <2>2, <2>3
<1>5. num_items = n /\ n # 0 /\ order # <<>> /\ Stored(tbl, Listed) /\ Bounded(tbl)
  BY <1>1 DEF TableInv
<1>6. CASE n = 1
  <2>1. num_items' = 0 /\ tbl' = NoTable
    BY <1>3, <1>6 DEF HASH_DELETE
  <2>2. order' = <<>> /\ Len(order') = 0
    BY <1>2, <1>6
  <2> HIDE DEF n
  <2> QED BY <1>2, <1>4, <1>6, <2>1, <2>2, NoTableBounded DEF TableInv
<1>7. CASE n # 1
  <2>1. num_items' = n - 1 /\ tbl' = HASH_DEL_IN_BKT(tbl, e)
    BY <1>3, <1>5, <1>7 DEF HASH_DELETE
  <2>2. Listed' = Listed \ {e}
    <3>1. ASSUME NEW x PROVE x \in Listed' <=> x \in Listed \ {e}
      <4>1. ASSUME x \in Listed' PROVE x \in Listed \ {e}
        <5>1. PICK k \in 1 .. n - 1 : x = order'[k]
          BY <1>2, <4>1 DEF Listed
        <5>2. PICK a \in 1 .. n : x = order[a] /\ a # i
          BY <1>1, <1>2, <5>1
        <5> QED BY <1>1, <5>2 DEF Listed
      <4>2. ASSUME x \in Listed \ {e} PROVE x \in Listed'
        <5>1. PICK a \in 1 .. n : x = order[a] /\ a # i
          BY <4>2 DEF Listed
        <5>2. PICK k \in 1 .. n - 1 : a = IF k < i THEN k ELSE k + 1
          <6>1. CASE a < i
            BY <1>1, <6>1
          <6>2. CASE a > i
            <7>1. a - 1 \in 1 .. n - 1 /\ ~(a - 1 < i) /\ a = (a - 1) + 1
              BY <1>1, <6>2
            <7> QED BY <7>1
          <6> QED BY <5>1, <6>1, <6>2
        <5>3. order'[k] = x
          BY <1>2, <5>1, <5>2
        <5> QED BY <1>2, <5>3 DEF Listed
      <4> QED BY <4>1, <4>2
    <3> QED BY <3>1
  <2>3. Listed \in SUBSET Elements /\ e \in Listed
    BY <1>1 DEF Listed
  <2>4. Stored(tbl', Listed') /\ Bounded(tbl')
    <3> HIDE DEF e
    <3> QED BY <1>5, <2>1, <2>2, <2>3, DelStores
  <2>5. order' # <<>>
    BY <1>1, <1>2, <1>7
  <2> HIDE DEF n, e
  <2> QED BY <1>2, <1>4, <2>1, <2>4, <2>5 DEF TableInv
<1> QED BY <1>6, <1>7

(* HASH_ADD of a key that was not found keeps the table in agreement.      *)
LEMMA AppendKeepsTable ==
  ASSUME ListInv, TableInv, NEW e \in Elements, AddLast(e)
  PROVE  TableInv'
<1> DEFINE n == Len(order)
<1>1. order \in Seq(Elements) /\ n \in Nat /\ \A k \in 1 .. n : order[k] \in Elements
  BY DEF ListInv, OrderInv
<1>2. order # <<>>
  BY DEF AddLast, ListInv, ListIntact
<1>3. \A x \in Listed : KeyOf[x] # KeyOf[e]
  <2>1. NULL \notin Listed
    BY <1>1, HashAssumption DEF Listed
  <2>2. HASH_FIND(KeyOf[e]) = NULL
    BY DEF AddLast
  <2> QED BY <2>1, <2>2, FindIs
<1>4. e \notin Listed /\ Listed \in SUBSET Elements
  BY <1>1, <1>3 DEF Listed
<1>5. /\ order' = Append(order, e) /\ num_items' = num_items + 1
      /\ tbl' = HASH_ADD_TO_BKT(tbl, e, num_items + 1)
  BY DEF AddLast
<1>6. /\ order' \in Seq(Elements) /\ Len(order') = n + 1 /\ order'[n + 1] = e
      /\ \A k \in 1 .. n : order'[k] = order[k]
      /\ order' # <<>>
  BY <1>1, <1>5
<1>7. num_items = n /\ num_items + 1 \in Nat \ {0}
      /\ Stored(tbl, Listed) /\ Bounded(tbl)
  BY <1>1, <1>2 DEF TableInv
<1>8. Listed' = Listed \cup {e}
  <2>1. ASSUME NEW x PROVE x \in Listed' <=> x \in Listed \cup {e}
    <3>1. x \in Listed' <=> \E k \in 1 .. n + 1 : x = order'[k]
      BY <1>6 DEF Listed
    <3>2. x \in Listed <=> \E k \in 1 .. n : x = order[k]
      BY DEF Listed
    <3>3. \A k : k \in 1 .. n + 1 <=> k \in 1 .. n \/ k = n + 1
      BY <1>1
    <3> HIDE DEF n
    <3> QED BY <1>6, <3>1, <3>2, <3>3
  <2> QED BY <2>1
<1>9. Stored(tbl', Listed') /\ Bounded(tbl')
  BY <1>4, <1>5, <1>7, <1>8, AddStores
<1>10. \A k, l \in 1 .. n + 1 : KeyOf[order'[k]] = KeyOf[order'[l]] => k = l
  <2> SUFFICES ASSUME NEW k \in 1 .. n + 1, NEW l \in 1 .. n + 1,
                      KeyOf[order'[k]] = KeyOf[order'[l]]
               PROVE  k = l
    OBVIOUS
  <2>1. \A j \in 1 .. n : KeyOf[order[j]] # KeyOf[e]
    BY <1>3 DEF Listed
  <2>2. (k \in 1 .. n \/ k = n + 1) /\ (l \in 1 .. n \/ l = n + 1)
    BY <1>1
  <2> HIDE DEF n
  <2>3. CASE k \in 1 .. n /\ l \in 1 .. n
    BY <1>6, <2>3 DEF TableInv, n
  <2> QED BY <1>6, <2>1, <2>2, <2>3
<1> HIDE DEF n
<1> QED BY <1>5, <1>6, <1>7, <1>9, <1>10 DEF TableInv

(* The first element makes the table.                                      *)
LEMMA FirstMakesTable ==
  ASSUME ListInv, TableInv, NEW e \in Elements, AddFirst(e)
  PROVE  TableInv'
<1>1. order' = <<e>> /\ num_items' = 1 /\ tbl' = HASH_ADD_TO_BKT(HASH_MAKE_TABLE, e, 1)
  BY DEF AddFirst
<1>2. Len(order') = 1 /\ order'[1] = e /\ order' # <<>>
  BY <1>1
<1>3. Stored(tbl', {} \cup {e}) /\ Bounded(tbl')
  <2>1. {} \in SUBSET Elements /\ e \notin {} /\ 1 \in Nat \ {0}
    OBVIOUS
  <2> QED BY <1>1, <2>1, MadeEmpty, AddStores
<1>4. Listed' = {} \cup {e}
  BY <1>2 DEF Listed
<1> QED BY <1>1, <1>2, <1>3, <1>4 DEF TableInv

(* The table agrees with the list in every state.                          *)
THEOREM TableInvariant == HashSpec => [](ListInv /\ TableInv)
<1>1. HashInit => TableInv
  BY NoTableBounded DEF HashInit, TableInv
<1>2. ListInv /\ TableInv /\ [HashNext]_hash_vars => TableInv'
  <2> SUFFICES ASSUME ListInv, TableInv, [HashNext]_hash_vars PROVE TableInv'
    OBVIOUS
  <2>1. ASSUME NEW e \in Elements, AddFirst(e) PROVE TableInv'
    BY <2>1, FirstMakesTable
  <2>2. ASSUME NEW e \in Elements, AddLast(e) PROVE TableInv'
    BY <2>2, AppendKeepsTable
  <2>3. ASSUME NEW e \in Elements, Delete(e) PROVE TableInv'
    <3>1. PICK i \in 1 .. Len(order) : order[i] = e
      BY <2>3, ListedIffReached DEF Delete
    <3>2. HASH_DELETE(order[i])
      BY <2>3, <3>1 DEF Delete
    <3> QED BY <3>2, DeleteKeepsTable
  <2>4. CASE DeleteAllBegin
    BY <2>4 DEF DeleteAllBegin, listed, TableInv, Listed
  <2>5. CASE DeleteAllNext
    <3>1. order # <<>> /\ el = order[1] /\ order \in Seq(Elements)
      BY <2>5 DEF DeleteAllNext, ListInv, OrderInv
    <3>2. 1 \in 1 .. Len(order) /\ HASH_DELETE(order[1])
      BY <2>5, <3>1 DEF DeleteAllNext
    <3> QED BY <3>2, DeleteKeepsTable
  <2>6. CASE UNCHANGED hash_vars
    BY <2>6 DEF hash_vars, listed, TableInv, Listed
  <2> QED BY <2>1, <2>2, <2>3, <2>4, <2>5, <2>6 DEF HashNext
<1> QED BY <1>1, <1>2, ListInvariant, PTL DEF HashSpec

(* HASH_FIND finds exactly the elements that were added and not deleted,   *)
(* after any number of expansions of the table.                            *)
THEOREM ListedAreFound == HashSpec => []FindsListed
<1>1. ListInv /\ TableInv => FindsListed
  <2> SUFFICES ASSUME ListInv, TableInv, NEW e \in Elements
               PROVE  (HASH_FIND(KeyOf[e]) = e) <=> \E k \in DOMAIN order : order[k] = e
    BY DEF FindsListed
  <2>1. DOMAIN order = 1 .. Len(order)
    BY DEF ListInv, OrderInv
  <2>2. (\E k \in DOMAIN order : order[k] = e) <=> e \in Listed
    BY <2>1 DEF Listed
  <2>3. e # NULL
    BY HashAssumption
  <2>4. \A x, y \in Listed : KeyOf[x] = KeyOf[y] => x = y
    BY DEF Listed, TableInv
  <2> QED BY <2>2, <2>3, <2>4, FindIs
<1> QED BY <1>1, TableInvariant, PTL

(* A chain whose bucket may be expanded is below its threshold, or within  *)
(* as many times the ideal length as the last expansion left it.           *)
THEOREM ChainsStayBounded == HashSpec => []ChainsBounded
<1>1. TableInv => ChainsBounded
  <2> SUFFICES ASSUME TableInv PROVE ChainsBounded
    OBVIOUS
  <2>1. CASE order = <<>>
    <3>1. DOMAIN tbl.buckets = {}
      BY <2>1 DEF TableInv, NoTable
    <3> QED BY <3>1 DEF ChainsBounded
  <2>2. CASE order # <<>>
    BY <2>2 DEF TableInv, Stored, IsTable, Bounded, ChainsBounded
  <2> QED BY <2>1, <2>2
<1> QED BY <1>1, TableInvariant, PTL

(* What HASH_FSCK checks of the buckets holds for every table: the chains  *)
(* are linked both ways, every bucket counts its chain, and together they  *)
(* have as many elements as were added and not deleted.                    *)
THEOREM FsckHolds == HashSpec => []Fsck
<1>1. ListInv /\ TableInv => Fsck
  <2> SUFFICES ASSUME ListInv, TableInv PROVE Fsck
    OBVIOUS
  <2> DEFINE All == UNION {Range(Chain(tbl, b)) : b \in DOMAIN tbl.buckets}
  <2>1. num_items = Len(order)
    BY DEF TableInv
  <2>2. CASE order = <<>>
    <3>1. DOMAIN tbl.buckets = {} /\ num_items = 0
      BY <2>1, <2>2 DEF TableInv, NoTable
    <3>2. All = {} /\ Cardinality({}) = 0
      BY <3>1, FS_EmptySet
    <3> QED BY <2>1, <3>1, <3>2 DEF Fsck
  <2>3. CASE order # <<>>
    <3>1. PICK C : ChainsAre(tbl, C, Listed)
      BY <2>3 DEF TableInv, Stored
    <3>2. DOMAIN tbl.buckets = 0 .. tbl.num_buckets - 1 /\ tbl.num_buckets \in Nat \ {0}
      BY <2>3, TableFacts DEF TableInv, Stored, IsTable
    <3>3. ASSUME NEW b \in DOMAIN tbl.buckets
          PROVE  /\ Chain(tbl, b) = C[b] /\ C[b] \in Seq(Elements)
                 /\ Linked(C[b], tbl.buckets[b].hh_head, tbl.hh_next, tbl.hh_prev)
                 /\ tbl.buckets[b].count = Len(C[b])
                 /\ \A x : Has(C[b], x) <=> x \in Listed /\ HASH_TO_BKT(x, tbl.num_buckets) = b
      <4>1. Chain(tbl, b) = C[b]
        BY <3>1, <3>2, ChainIs
      <4> QED BY <3>1, <3>2, <4>1 DEF ChainsAre
    <3>4. ASSUME NEW b \in DOMAIN tbl.buckets, NEW k \in DOMAIN Chain(tbl, b)
          PROVE  tbl.hh_prev[Chain(tbl, b)[k]] =
                   IF k > 1 THEN Chain(tbl, b)[k - 1] ELSE NULL
      <4>1. k \in 1 .. Len(C[b]) /\ Chain(tbl, b) = C[b]
        BY <3>3
      <4>2. Linked(C[b], tbl.buckets[b].hh_head, tbl.hh_next, tbl.hh_prev)
        BY <3>3
      <4> QED BY <4>1, <4>2 DEF Linked
    <3>5. order \in Seq(Elements) /\ Distinct(order)
      BY DEF ListInv, OrderInv, Distinct
    <3>6. All = {x \in Elements : Has(order, x)}
      <4>1. ASSUME NEW x PROVE x \in All <=> x \in Elements /\ Has(order, x)
        <5>1. x \in All <=> \E b \in DOMAIN tbl.buckets : x \in Range(Chain(tbl, b))
          OBVIOUS
        <5>2. ASSUME NEW b \in DOMAIN tbl.buckets
              PROVE  x \in Range(Chain(tbl, b)) <=> x \in Listed /\ HASH_TO_BKT(x, tbl.num_buckets) = b
          <6>1. x \in Range(C[b]) <=> Has(C[b], x)
            BY <3>3 DEF Range, Has
          <6> QED BY <3>3, <6>1
        <5>3. x \in Listed <=> Has(order, x)
          BY DEF Listed, Has
        <5>4. x \in Listed => x \in Elements
          BY <3>5 DEF Listed
        <5>5. x \in Elements => HASH_TO_BKT(x, tbl.num_buckets) \in DOMAIN tbl.buckets
          BY <3>2, BucketRange
        <5> HIDE DEF All
        <5> QED BY <5>1, <5>2, <5>3, <5>4, <5>5
      <4> HIDE DEF All
      <4> QED BY <4>1
    <3>7. Cardinality(All) = Len(order)
      BY <3>5, <3>6, HashAssumption, DistinctLength
    <3> HIDE DEF All
    <3>8. \A b \in DOMAIN tbl.buckets : tbl.buckets[b].count = Len(Chain(tbl, b))
      BY <3>3
    <3> QED BY <2>1, <3>4, <3>7, <3>8 DEF Fsck, All
  <2> QED BY <2>2, <2>3
<1> QED BY <1>1, TableInvariant, PTL
=============================================================================
