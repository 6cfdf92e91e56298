---------------------------- MODULE HelperProofs ----------------------------
(***************************************************************************)
(* Proofs about the helpers: what holds of sem_timedwait_ms for every      *)
(* delay and clock, of json_read_file and json_get_sub_value for every     *)
(* file, and of the conversion lists of protocol_convert.c for any         *)
(* sections, insertions and failing allocations.                           *)
(***************************************************************************)
EXTENDS GwMisc, JsonApi, ProtocolConvert, TLAPS

LEMMA Units == Second = 1000000000 /\ Millisecond = 1000000
BY SMT DEF Second, Millisecond

LEMMA SecondType == Second \in Nat
BY Units, SMT

(* The carry of the nanoseconds, in numbers.                               *)
LEMMA CarryExact ==
  ASSUME NEW nsec \in Nat, nsec < 1000000000, NEW ms \in Nat
  PROVE  LET n == (ms % 1000) * 1000000 + nsec
             c == n \div 1000000000
             m == n % 1000000000
         IN /\ n \in Nat /\ n <= 2147483647
            /\ c \in 0 .. 1
            /\ m \in Nat /\ m < 1000000000
            /\ m - nsec = 1000000 * (ms - 1000 * (c + (ms \div 1000)))
<1>1. /\ ms \div 1000 \in Nat /\ ms % 1000 \in Nat /\ ms % 1000 <= 999
      /\ ms = 1000 * (ms \div 1000) + (ms % 1000)
  BY SMT
<1> DEFINE r == ms % 1000
           n == r * 1000000 + nsec
           m == n % 1000000000
           c == n \div 1000000000
<1>2. n \in Nat /\ n <= 1998999999
  <2> HIDE DEF r
  <2>1. r \in Nat /\ r <= 999
    BY <1>1, SMT DEF r
  <2> QED BY <2>1, SMT
<1>3. /\ c \in 0 .. 1 /\ m \in Nat /\ m < 1000000000
      /\ n = 1000000000 * c + m
  <2> HIDE DEF n
  <2> QED BY <1>2, SMT
<1>4. m - nsec = 1000000 * (ms - 1000 * (c + (ms \div 1000)))
  <2>1. n = r * 1000000 + nsec /\ r = ms % 1000
    BY SMT
  <2> HIDE DEF c, m, n, r
  <2> QED BY <1>1, <1>3, <2>1, SMT
<1> HIDE DEF c, m, n
<1>5. n <= 2147483647
  BY <1>2, SMT
<1> QED BY <1>2, <1>3, <1>4, <1>5, SMT DEF c, m, n

(* The time-out computed by sem_timedwait_ms is exact and overflows        *)
(* nowhere, for every number of milliseconds and every instant.            *)
LEMMA TimeoutExact ==
  ASSUME NEW sec \in Nat, NEW nsec \in Nat, nsec < Second, NEW ms \in Nat,
         sec + ms \div 1000 < LONG_MAX, NEW now, now.tv_sec = sec, now.tv_nsec = nsec
  PROVE  LET t == Timeout(now, ms)
         IN /\ Nanoseconds(now, ms) <= LONG_MAX
            /\ t.tv_sec <= LONG_MAX
            /\ t.tv_nsec \in 0 .. Second - 1
            /\ t.tv_nsec - nsec = Millisecond * (ms - 1000 * (t.tv_sec - sec))
<1> DEFINE n == (ms % 1000) * 1000000 + nsec
           c == n \div 1000000000
           m == n % 1000000000
           t == Timeout(now, ms)
<1>1. nsec < 1000000000
  BY Units, SMT
<1>2. /\ n \in Nat /\ n <= 2147483647 /\ c \in 0 .. 1
      /\ m \in Nat /\ m < 1000000000
      /\ m - nsec = 1000000 * (ms - 1000 * (c + (ms \div 1000)))
  BY <1>1, CarryExact, SMT
<1>3. Nanoseconds(now, ms) = n
  BY Units, SMT DEF Nanoseconds
<1>4. t.tv_nsec = m /\ t.tv_sec = sec + c + (ms \div 1000)
  <2> HIDE DEF n
  <2> QED BY <1>3, Units, SMT DEF Timeout
<1> HIDE DEF n, c, m, t
<1>5. n <= LONG_MAX
  BY <1>2, SMT DEF LONG_MAX
<1>6. m \in 0 .. Second - 1
  <2>1. m < Second
    BY <1>2, Units, SMT
  <2> QED BY <1>2, <2>1, SecondType, SMT
<1>7. ms \div 1000 \in Nat
  BY SMT
<1>8. (sec + c + (ms \div 1000)) - sec = c + (ms \div 1000)
  BY <1>2, <1>7, SMT
<1>9. m - nsec = Millisecond * (ms - 1000 * (c + (ms \div 1000)))
  BY <1>2, Units, SMT
<1>10. sec + c + (ms \div 1000) <= LONG_MAX
  BY <1>2, <1>7, SMT DEF LONG_MAX
<1> QED BY <1>3, <1>4, <1>5, <1>6, <1>8, <1>9, <1>10, SMT DEF t

(* The clock shows instants, and a wait was begun at one.                  *)
MiscTypes ==
  /\ clock \in Instants /\ begun \in Instants
  /\ msecs \in Delays \cup {0}
  /\ waiting = "waits" => msecs \in Delays
  /\ waiting = "waits" => ts = Timeout(begun, msecs)

LEMMA MiscTypesInvariant == MiscSpec => []MiscTypes
<1>1. MiscInit => MiscTypes
  BY DEF MiscInit, MiscTypes
<1>2. MiscTypes /\ [MiscNext]_misc_vars => MiscTypes'
  <2> SUFFICES ASSUME MiscTypes, [MiscNext]_misc_vars PROVE MiscTypes'
    OBVIOUS
  <2> USE DEF MiscTypes
  <2>1. ASSUME NEW ms \in Delays, sem_timedwait_ms(ms) PROVE MiscTypes'
    BY <2>1, TimeAssumption DEF sem_timedwait_ms
  <2>2. CASE Taken
    BY <2>2 DEF Taken
  <2>3. CASE TimedOut
    BY <2>3 DEF TimedOut
  <2>4. CASE Interrupted
    BY <2>4 DEF Interrupted
  <2>5. CASE Post
    BY <2>5 DEF Post
  <2>6. CASE Tick
    BY <2>6 DEF Tick
  <2>7. CASE UNCHANGED misc_vars
    BY <2>7 DEF misc_vars
  <2> QED BY <2>1, <2>2, <2>3, <2>4, <2>5, <2>6, <2>7 DEF MiscNext
<1> QED BY <1>1, <1>2, PTL DEF MiscSpec

(* Every wait gets the exact time-out.                                     *)
THEOREM DeadlineIsExact == MiscSpec => []DeadlineExact
<1>1. MiscTypes => DeadlineExact
  <2> SUFFICES ASSUME MiscTypes, waiting = "waits" PROVE DeadlineExact
    BY DEF DeadlineExact
  <2>1. /\ begun \in [tv_sec : Nat, tv_nsec : 0 .. Second - 1]
        /\ msecs \in Nat
        /\ begun.tv_sec + msecs \div 1000 < LONG_MAX
    <3>1. begun \in Instants /\ msecs \in Delays
      BY Zenon DEF MiscTypes
    <3>2. msecs \in 0 .. LONG_MAX
      BY <3>1, TimeAssumption, Zenon
    <3>3. msecs \in Nat
      BY <3>2, SMT
    <3>4. begun.tv_sec + msecs \div 1000 < LONG_MAX
      BY <3>1, TimeAssumption
    <3> QED BY <3>1, <3>3, <3>4, TimeAssumption, Zenon
  <2>2. begun.tv_sec \in Nat /\ begun.tv_nsec \in Nat /\ begun.tv_nsec < Second
    BY <2>1, SecondType, SMT
  <2>3. ts = Timeout(begun, msecs)
    BY DEF MiscTypes
  <2> DEFINE t == Timeout(begun, msecs)
  <2> DEFINE sec  == begun.tv_sec
             nsec == begun.tv_nsec
  <2>4. /\ Nanoseconds(begun, msecs) <= LONG_MAX /\ t.tv_sec <= LONG_MAX
        /\ t.tv_nsec \in 0 .. Second - 1
        /\ t.tv_nsec - nsec = Millisecond * (msecs - 1000 * (t.tv_sec - sec))
    <3>1. sec \in Nat /\ nsec \in Nat /\ nsec < Second /\ sec + msecs \div 1000 < LONG_MAX
      BY <2>1, <2>2
    <3>2. begun.tv_sec = sec /\ begun.tv_nsec = nsec /\ msecs \in Nat
      BY <2>1
    <3> HIDE DEF sec, nsec
    <3> QED BY <3>1, <3>2, TimeoutExact
  <2> HIDE DEF t
  <2>5. ts = t
    BY <2>3 DEF t
  <2> QED BY <2>4, <2>5, SMT DEF DeadlineExact
<1> QED BY <1>1, MiscTypesInvariant, PTL

-----------------------------------------------------------------------------
(* What is open and allocated at each point of json_read_file.             *)
ReadState ==
  /\ size \in Nat
  /\ json_pc \in {"idle", "malloc", "fopen", "fread", "parse"}
  /\ json_pc \in {"idle", "malloc"} => buf = NoBuffer
  /\ json_pc # "fread" => stream = NoFile
  /\ json_pc \in {"fopen", "fread"} => buf.room = size + 1
  /\ json_pc \in {"fopen", "fread", "parse"}
       => buf = [room |-> buf.room, text |-> buf.text, len |-> buf.len]
  /\ json_pc = "parse" => buf.len = size /\ buf.room = size + 1

LEMMA ReadStateInvariant == JsonSpec => []ReadState
<1>1. JsonInit => ReadState
  BY DEF JsonInit, ReadState
<1>2. ReadState /\ [JsonNext]_json_vars => ReadState'
  <2> SUFFICES ASSUME ReadState, [JsonNext]_json_vars PROVE ReadState'
    OBVIOUS
  <2> USE DEF ReadState, At, NoBuffer
  <2>1. CASE Rewrite
    <3>1. stream = NoFile => stream' = NoFile
      BY <2>1 DEF Rewrite
    <3> QED BY <2>1, <3>1 DEF Rewrite
  <2>2. CASE Stat
    <3>1. size' \in Nat
      BY <2>2 DEF Stat
    <3> QED BY <2>2, <3>1 DEF Stat
  <2>3. CASE Malloc
    BY <2>3 DEF Malloc
  <2>4. CASE Fopen
    BY <2>4 DEF Fopen
  <2>5. CASE Fread
    BY <2>5 DEF Fread
  <2>6. CASE Parse
    BY <2>6 DEF Parse
  <2>7. ASSUME NEW pair \in KeyPairs, json_get_sub_value(pair) PROVE ReadState'
    BY <2>7 DEF json_get_sub_value, read_vars
  <2>8. CASE UNCHANGED json_vars
    BY <2>8 DEF json_vars, read_vars
  <2> QED BY <2>1, <2>2, <2>3, <2>4, <2>5, <2>6, <2>7, <2>8 DEF JsonNext
<1> QED BY <1>1, <1>2, PTL DEF JsonSpec

(* However the file changes, json_read_file frees and closes everything.   *)
THEOREM NothingLeftOpen == JsonSpec => []JsonReleased
<1>1. ReadState => JsonReleased
  BY DEF ReadState, JsonReleased
<1> QED BY <1>1, ReadStateInvariant, PTL

(* What is parsed ends within its buffer, whatever the size.               *)
THEOREM TextAlwaysEnds == JsonSpec => []TextEnds
<1>1. ReadState => TextEnds
  BY DEF ReadState, TextEnds
<1> QED BY <1>1, ReadStateInvariant, PTL

-----------------------------------------------------------------------------
(* The conversion lists.  The k-th entry of a list, counted from its head:  *)
(* the first that was inserted, then the others from the latest back.       *)
Entry(l, k) == LET s == inserted[l] IN
  IF k = 1 THEN s[1] ELSE s[Len(s) + 2 - k]

Count(l) == Len(inserted[l])

(* What follows an entry, and the links of a list from its k-th entry on.  *)
Follower(l, k) == IF k < Count(l) THEN Entry(l, k + 1) ELSE NoNode

LinkedFrom(l, k) == \A i \in k .. Count(l) : link[Entry(l, i)] = Follower(l, i)

(* Where a list begins: it is linked from there on.  protocol_destroy, at  *)
(* the k-th entry of a list, has freed those before.                       *)
Start(l, k) == IF step = "free" /\ l = section THEN k ELSE 1

(* The nodes that keep all three blocks, and the blocks of such nodes.     *)
Whole(k) == lost \cup {n \in Nodes : \E l \in Lists : \E i \in Start(l, k) .. Count(l) :
                         n = Entry(l, i)}

HeldBy(S) == UNION {Blocks(n) : n \in S}

(* What memory holds of the node that is being made.                       *)
Partial == CASE step = "cloud" -> {Node(node)}
             [] step = "rex"   -> {Node(node), Cloud(node)}
             [] step = "link"  -> Blocks(node)
             [] OTHER          -> {}

ConvType ==
  /\ list_head \in [Lists -> Nodes \cup {NoNode}]
  /\ link \in [Nodes -> Nodes \cup {NoNode}]
  /\ step \in {"closed", "read", "open", "cloud", "rex", "link", "free"}
  /\ section \in Lists
  /\ inserted \in [Lists -> Seq(Nodes)]
  /\ lost \subseteq Nodes
  /\ step \in {"cloud", "rex", "link"} => node \in Nodes
  /\ step = "free" => section \in Range(Destroyed)

(* No node is twice in the lists, or in one of them and lost.              *)
Separate ==
  \A l \in Lists : \A i \in 1 .. Count(l) :
    /\ Entry(l, i) \notin lost
    /\ \A m \in Lists : \A j \in 1 .. Count(m) :
         Entry(l, i) = Entry(m, j) => l = m /\ i = j

HeadsRight ==
  \A l \in Lists : ~(step = "free" /\ l = section) =>
    list_head[l] = IF Count(l) = 0 THEN NoNode ELSE Entry(l, 1)

(* Memory and the links, when protocol_destroy is at the k-th entry of its *)
(* list (another step has no such entry: there k is of no account).        *)
ConvState(k) ==
  /\ step = "free" => node = IF k <= Count(section) THEN Entry(section, k) ELSE NoNode
  /\ \A l \in Lists : LinkedFrom(l, Start(l, k))
  /\ heap = HeldBy(Whole(k)) \cup Partial
  /\ step \in {"cloud", "rex", "link"} => node \notin Whole(k)

ConvInv ==
  /\ ConvType /\ Separate /\ HeadsRight
  /\ \E k \in 1 .. Count(section) + 1 : ConvState(k)

(* A list's entries are the nodes that were inserted, in another order.    *)
LEMMA Entries ==
  ASSUME ConvType, NEW l \in Lists
  PROVE  /\ Count(l) \in Nat /\ inserted[l] \in Seq(Nodes)
         /\ \A i \in 1 .. Count(l) : Entry(l, i) \in Nodes
         /\ Range(inserted[l]) = {n \in Nodes : \E i \in 1 .. Count(l) : n = Entry(l, i)}
<1> DEFINE s == inserted[l]
<1>1. s \in Seq(Nodes)
  BY DEF ConvType
<1>2. Len(s) \in Nat /\ \A i \in 1 .. Len(s) : s[i] \in Nodes
  BY <1>1
<1> HIDE DEF s
<1>3. ASSUME NEW i \in 1 .. Len(s)
      PROVE  /\ (IF i = 1 THEN s[1] ELSE s[Len(s) + 2 - i]) \in Nodes
             /\ (IF i = 1 THEN s[1] ELSE s[Len(s) + 2 - i]) \in Range(s)
  <2>1. CASE i = 1
    BY <1>1, <1>2, <2>1 DEF Range
  <2>2. CASE i # 1
    <3>1. Len(s) + 2 - i \in 1 .. Len(s)
      BY <1>2, <2>2
    <3> QED BY <1>1, <1>2, <2>2, <3>1 DEF Range
  <2> QED BY <2>1, <2>2
<1>4. ASSUME NEW j \in 1 .. Len(s)
      PROVE  \E i \in 1 .. Len(s) : s[j] = IF i = 1 THEN s[1] ELSE s[Len(s) + 2 - i]
  <2>1. CASE j = 1
    BY <1>2, <2>1
  <2>2. CASE j # 1
    <3>1. /\ Len(s) + 2 - j \in 1 .. Len(s) /\ Len(s) + 2 - j # 1
          /\ Len(s) + 2 - (Len(s) + 2 - j) = j
      BY <1>2, <2>2
    <3> QED BY <3>1
  <2> QED BY <2>1, <2>2
<1>5. ASSUME NEW n \in Range(s)
      PROVE  n \in Nodes /\ \E i \in 1 .. Len(s) : n = IF i = 1 THEN s[1] ELSE s[Len(s) + 2 - i]
  <2>1. PICK j \in 1 .. Len(s) : n = s[j]
    BY <1>1 DEF Range
  <2> QED BY <1>2, <1>4, <2>1
<1> QED BY <1>1, <1>2, <1>3, <1>5 DEF Entry, Count, s

(* The blocks of different nodes are different.                            *)
LEMMA BlocksApart ==
  ASSUME NEW m, NEW n
  PROVE  /\ Node(n) \in Blocks(n) /\ Cloud(n) \in Blocks(n) /\ Rex(n) \in Blocks(n)
         /\ m # n => Blocks(m) \cap Blocks(n) = {}
BY DEF Blocks, Node, Cloud, Rex

LEMMA HeldGrows ==
  ASSUME NEW S, NEW n
  PROVE  HeldBy(S \cup {n}) = HeldBy(S) \cup Blocks(n)
BY DEF HeldBy

LEMMA HeldApart ==
  ASSUME NEW S, NEW n
  PROVE  /\ n \notin S => Blocks(n) \cap HeldBy(S) = {}
         /\ Node(n) \notin HeldBy(S) => n \notin S
BY BlocksApart DEF HeldBy

LEMMA HeldShrinks ==
  ASSUME NEW S, NEW n \in S
  PROVE  HeldBy(S) \ Blocks(n) = HeldBy(S \ {n})
<1>1. HeldBy((S \ {n}) \cup {n}) = HeldBy(S \ {n}) \cup Blocks(n)
  BY HeldGrows
<1>2. (S \ {n}) \cup {n} = S
  OBVIOUS
<1>3. Blocks(n) \cap HeldBy(S \ {n}) = {}
  BY HeldApart
<1> QED BY <1>1, <1>2, <1>3

-----------------------------------------------------------------------------
(* Outside protocol_destroy every list is whole.                           *)
LEMMA AtFirst ==
  ASSUME ConvInv, step # "free"
  PROVE  ConvState(1)
<1>1. PICK k \in 1 .. Count(section) + 1 : ConvState(k)
  BY DEF ConvInv
<1>2. \A l : Start(l, k) = 1 /\ Start(l, 1) = 1
  BY DEF Start
<1>3. Whole(k) = Whole(1)
  BY <1>2 DEF Whole
<1> QED BY <1>1, <1>2, <1>3 DEF ConvState

(* A step that only allocates leaves the lists as they are.                *)
LEMMA ListsStay ==
  ASSUME ConvInv, step # "free", UNCHANGED <<list_head, link, inserted, lost>>
  PROVE  /\ Separate' /\ HeadsRight'
         /\ \A l \in Lists : LinkedFrom(l, Start(l, 1))'
         /\ Whole(1)' = Whole(1)
<1>1. \A l, k : Entry(l, k)' = Entry(l, k)
  BY DEF Entry
<1>2. \A l : Count(l)' = Count(l) /\ Start(l, 1)' = 1 /\ Start(l, 1) = 1
  BY DEF Count, Start
<1>3. \A l, k : Follower(l, k)' = Follower(l, k)
  BY <1>1, <1>2 DEF Follower
<1>4. \A l \in Lists : LinkedFrom(l, Start(l, 1))'
  <2>1. \A l \in Lists : \A i \in 1 .. Count(l) : link[Entry(l, i)] = Follower(l, i)
    BY <1>2, AtFirst DEF ConvState, LinkedFrom
  <2> QED BY <1>1, <1>2, <1>3, <2>1 DEF LinkedFrom
<1>5. Whole(1)' = Whole(1)
  BY <1>1, <1>2 DEF Whole
<1>6. Separate' /\ HeadsRight'
  BY <1>1, <1>2 DEF Separate, HeadsRight, ConvInv
<1> QED BY <1>4, <1>5, <1>6

(* Such a step keeps the invariant, if memory still holds whole entries and *)
(* what there is of the one that is being made.                            *)
LEMMA Allocates ==
  ASSUME ConvInv, step # "free", UNCHANGED <<list_head, link, inserted, lost>>,
         ConvType', step' # "free", heap' = HeldBy(Whole(1)) \cup Partial',
         step' \in {"cloud", "rex", "link"} => node' \notin Whole(1)
  PROVE  ConvInv'
<1>1. ConvState(1)'
  BY ListsStay DEF ConvState
<1>2. 1 \in 1 .. Count(section)' + 1
  BY Entries DEF ConvType, Count
<1> QED BY <1>1, <1>2, ListsStay DEF ConvInv

LEMMA InitConv ==
  ASSUME ConvInit PROVE ConvInv
<1>1. ConvType
  BY DEF ConvInit, ConvType, Lists
<1>2. \A l \in Lists : Count(l) = 0 /\ list_head[l] = NoNode
  BY DEF ConvInit, Count
<1>3. step = "closed" /\ lost = {} /\ heap = {}
  BY DEF ConvInit
<1>4. Separate /\ HeadsRight
  BY <1>2 DEF Separate, HeadsRight
<1>5. Whole(1) = {} /\ \A l \in Lists : Start(l, 1) = 1 /\ LinkedFrom(l, 1)
  BY <1>2, <1>3 DEF Whole, Start, LinkedFrom
<1>6. ConvState(1)
  BY <1>3, <1>5 DEF ConvState, HeldBy, Partial
<1>7. 1 \in 1 .. Count(section) + 1
  BY <1>1, <1>2 DEF ConvType
<1> QED BY <1>1, <1>4, <1>6, <1>7 DEF ConvInv

LEMMA IniEndConv ==
  ASSUME ConvInv, IniEnd PROVE ConvInv'
<1>1. ConvType /\ ConvState(1) /\ step = "read" /\ step' = "open"
      /\ UNCHANGED <<list_head, link, heap, section, node, inserted, lost>>
  BY AtFirst DEF ConvInv, IniEnd, lists
<1>2. ConvType' /\ Partial = {} /\ Partial' = {}
  BY <1>1 DEF ConvType, Partial
<1> QED BY <1>1, <1>2, Allocates DEF ConvState

LEMMA InsertNodeConv ==
  ASSUME ConvInv, NEW l \in Sections, InsertNode(l) PROVE ConvInv'
<1>1. PICK n \in Nodes : Node(n) \notin heap /\ heap' = heap \cup {Node(n)} /\ node' = n
  BY DEF InsertNode
<1>2. ConvType /\ ConvState(1) /\ step = "read" /\ step' = "cloud" /\ section' = l
      /\ UNCHANGED <<list_head, link, inserted, lost>> /\ l \in Lists
  BY AtFirst, ListsAssumption DEF ConvInv, InsertNode
<1>3. ConvType' /\ Partial = {} /\ Partial' = {Node(n)}
  BY <1>1, <1>2 DEF ConvType, Partial
<1>4. heap = HeldBy(Whole(1)) /\ n \notin Whole(1)
  BY <1>1, <1>2, <1>3, HeldApart DEF ConvState
<1> QED BY <1>1, <1>2, <1>3, <1>4, Allocates

LEMMA InsertCloudNameConv ==
  ASSUME ConvInv, InsertCloudName PROVE ConvInv'
<1>1. /\ ConvType /\ ConvState(1) /\ step = "cloud" /\ node \in Nodes
      /\ UNCHANGED <<list_head, link, section, inserted, lost>>
  BY AtFirst DEF ConvInv, ConvType, InsertCloudName
<1>2. heap = HeldBy(Whole(1)) \cup {Node(node)} /\ node \notin Whole(1)
  BY <1>1 DEF ConvState, Partial
<1>3. CASE heap' = heap \cup {Cloud(node)} /\ step' = "rex" /\ UNCHANGED node
  <2>1. ConvType' /\ Partial' = {Node(node), Cloud(node)}
    BY <1>1, <1>3 DEF ConvType, Partial
  <2> QED BY <1>1, <1>2, <1>3, <2>1, Allocates
<1>4. CASE heap' = heap \ {Node(node)} /\ step' = "read" /\ node' = NoNode
  <2>1. ConvType' /\ Partial' = {}
    BY <1>1, <1>4 DEF ConvType, Partial
  <2>2. heap' = HeldBy(Whole(1))
    BY <1>2, <1>4, HeldApart, BlocksApart
  <2> QED BY <1>1, <1>4, <2>1, <2>2, Allocates
<1> QED BY <1>3, <1>4 DEF InsertCloudName

LEMMA InsertRexNameConv ==
  ASSUME ConvInv, InsertRexName PROVE ConvInv'
<1>1. /\ ConvType /\ ConvState(1) /\ step = "rex" /\ node \in Nodes
      /\ UNCHANGED <<list_head, link, section, inserted, lost>>
  BY AtFirst DEF ConvInv, ConvType, InsertRexName
<1>2. heap = HeldBy(Whole(1)) \cup {Node(node), Cloud(node)} /\ node \notin Whole(1)
  BY <1>1 DEF ConvState, Partial
<1>3. CASE heap' = heap \cup {Rex(node)} /\ step' = "link" /\ UNCHANGED node
  <2>1. ConvType' /\ Partial' = {Node(node), Cloud(node), Rex(node)}
    BY <1>1, <1>3 DEF ConvType, Partial, Blocks
  <2> QED BY <1>1, <1>2, <1>3, <2>1, Allocates
<1>4. CASE /\ heap' = heap \ {Node(node), Cloud(node)}
           /\ step' = "read" /\ node' = NoNode
  <2>1. ConvType' /\ Partial' = {}
    BY <1>1, <1>4 DEF ConvType, Partial
  <2>2. heap' = HeldBy(Whole(1))
    BY <1>2, <1>4, HeldApart, BlocksApart
  <2> QED BY <1>1, <1>4, <2>1, <2>2, Allocates
<1> QED BY <1>3, <1>4 DEF InsertRexName

(* The link: the new node becomes the second entry, or the first.          *)
LEMMA InsertLinkConv ==
  ASSUME ConvInv, InsertLink PROVE ConvInv'
<1>0. PICK c \in Lists, x \in Nodes, n \in Nat :
        c = section /\ x = node /\ n = Count(c)
  <2>1. section \in Lists /\ node \in Nodes
    BY DEF ConvInv, ConvType, InsertLink
  <2> QED BY <2>1, Entries DEF ConvInv
<1> DEFINE head == list_head[c]
<1> USE <1>0
<1>1. /\ ConvType /\ ConvState(1) /\ Separate /\ HeadsRight
      /\ step = "link" /\ step' = "read" /\ x \in Nodes /\ c \in Lists
      /\ UNCHANGED <<heap, section, lost>>
      /\ inserted' = [inserted EXCEPT ![c] = Append(@, x)]
  BY AtFirst DEF ConvInv, ConvType, InsertLink
<1>2. /\ heap = HeldBy(Whole(1)) \cup Blocks(x) /\ x \notin Whole(1)
      /\ \A l \in Lists : \A i \in 1 .. Count(l) : link[Entry(l, i)] = Follower(l, i)
  BY <1>1 DEF ConvState, Partial, LinkedFrom, Start
<1>3. n \in Nat /\ inserted[c] \in Seq(Nodes) /\ \A i \in 1 .. n : Entry(c, i) \in Nodes
  BY <1>1, Entries
<1>4. /\ Count(c)' = n + 1
      /\ \A i \in 1 .. n + 1 :
           Entry(c, i)' = IF n = 0 THEN x ELSE IF i = 1 THEN Entry(c, 1)
                          ELSE IF i = 2 THEN x ELSE Entry(c, i - 1)
  <2> DEFINE s == inserted[c]
  <2>1. inserted'[c] = Append(s, x) /\ n = Len(s)
    BY <1>1 DEF Count, ConvType
  <2> HIDE DEF s
  <2>2. Len(Append(s, x)) = n + 1 /\ s \in Seq(Nodes)
    BY <1>3, <2>1 DEF s
  <2>3. ASSUME NEW i \in 1 .. n + 1
        PROVE  (IF i = 1 THEN Append(s, x)[1] ELSE Append(s, x)[n + 3 - i])
               = IF n = 0 THEN x ELSE IF i = 1 THEN s[1]
                 ELSE IF i = 2 THEN x ELSE IF i - 1 = 1 THEN s[1] ELSE s[n + 3 - i]
    <3>1. \A j \in 1 .. n : Append(s, x)[j] = s[j]
      BY <2>1, <2>2
    <3>2. Append(s, x)[n + 1] = x
      BY <2>1, <2>2
    <3>3. CASE i = 1
      BY <1>3, <3>1, <3>2, <3>3
    <3>4. CASE i = 2
      <4>1. PICK r \in Nat : r = n + 3 - i /\ r = n + 1 /\ n # 0 /\ i # 1
        <5>1. n + 3 - i = n + 1 /\ n # 0 /\ n + 1 \in Nat /\ i # 1
          BY <1>3, <2>3, <3>4
        <5> QED BY <5>1
      <4> QED BY <3>2, <3>4, <4>1
    <3>5. CASE i > 2
      <4>1. n + 3 - i \in 1 .. n /\ n # 0 /\ i # 1 /\ i # 2 /\ i - 1 # 1
        BY <1>3, <2>3, <3>5
      <4> QED BY <3>1, <4>1
    <3>6. i = 1 \/ i = 2 \/ i > 2
      BY <1>3, <2>3
    <3> QED BY <3>3, <3>4, <3>5, <3>6
  <2>4. ASSUME NEW i \in 1 .. n + 1
        PROVE  n + 3 - i = (n + 1) + 2 - i /\ n + 3 - i = n + 2 - (i - 1)
    BY <1>3, <2>4
  <2>5. Count(c)' = n + 1
    BY <1>1, <2>1, <2>2 DEF Count
  <2>6. ASSUME NEW i \in 1 .. n + 1
        PROVE  Entry(c, i)' = IF n = 0 THEN x ELSE IF i = 1 THEN Entry(c, 1)
                              ELSE IF i = 2 THEN x ELSE Entry(c, i - 1)
    <3>1. Entry(c, i)' = IF i = 1 THEN Append(s, x)[1] ELSE Append(s, x)[n + 3 - i]
      <4>0. c' = c /\ Append(s, x) \in Seq(Nodes)
        BY <1>1, <2>2
      <4>1. PICK q \in Seq(Nodes) : q = Append(s, x) /\ Len(q) = n + 1
        BY <2>2, <4>0
      <4>2. Entry(c, i)' = IF i = 1 THEN q[1] ELSE q[Len(q) + 2 - i]
        BY <2>1, <4>0, <4>1 DEF Entry
      <4>3. Len(q) + 2 - i = n + 3 - i
        BY <2>4, <4>1
      <4> QED BY <4>1, <4>2, <4>3
    <3>2. /\ Entry(c, 1) = s[1]
          /\ Entry(c, i - 1) = IF i - 1 = 1 THEN s[1] ELSE s[n + 3 - i]
      BY <2>1, <2>4 DEF Entry, s
    <3> QED BY <2>3, <3>1, <3>2
  <2> QED BY <2>5, <2>6
<1>5. \A l \in Lists : l # c => /\ Count(l)' = Count(l)
                                /\ \A i : Entry(l, i)' = Entry(l, i)
  BY <1>1 DEF Count, Entry, ConvType
<1>6. /\ \A l \in Lists : \A i \in 1 .. Count(l) : Entry(l, i) # x /\ Entry(l, i) \in Nodes
      /\ x \notin lost
  <2>1. \A l \in Lists : \A i \in 1 .. Count(l) : Entry(l, i) \in Nodes
    BY <1>1, Entries
  <2>2. \A l : Start(l, 1) = 1
    BY DEF Start
  <2> QED BY <1>1, <1>2, <2>1, <2>2 DEF Whole
<1>7. /\ \A i \in 1 .. n : Entry(c, i) # x
      /\ \A i, j \in 1 .. n : Entry(c, i) = Entry(c, j) => i = j
      /\ head = IF n = 0 THEN NoNode ELSE Entry(c, 1)
      /\ n # 0 => head # NoNode /\ head \in Nodes
  <2>1. n # 0 => Entry(c, 1) \in Nodes
    BY <1>3
  <2> QED BY <1>1, <1>6, <2>1, ListsAssumption DEF Separate, HeadsRight
<1>8. ConvType'
  <2>1. link' \in [Nodes -> Nodes \cup {NoNode}]
    <3>1. link \in [Nodes -> Nodes \cup {NoNode}]
      BY <1>1 DEF ConvType
    <3>2. CASE head = NoNode
      <4>1. link' = [link EXCEPT ![x] = NoNode]
        BY <3>2 DEF InsertLink
      <4> QED BY <3>1, <4>1
    <3>3. CASE head # NoNode
      <4>1. link' = [link EXCEPT ![x] = link[head], ![head] = x] /\ head \in Nodes
        BY <1>7, <3>3 DEF InsertLink
      <4> HIDE DEF head
      <4> QED BY <3>1, <4>1
    <3> QED BY <3>2, <3>3
  <2>2. list_head' \in [Lists -> Nodes \cup {NoNode}]
    <3>1. list_head' = [list_head EXCEPT ![c] = x] \/ list_head' = list_head
      BY DEF InsertLink
    <3> QED BY <1>1, <3>1 DEF ConvType
  <2>3. inserted' \in [Lists -> Seq(Nodes)]
    <3>1. Append(inserted[c], x) \in Seq(Nodes)
      BY <1>1, <1>3
    <3> QED BY <1>1, <3>1 DEF ConvType
  <2> QED BY <1>1, <2>1, <2>2, <2>3 DEF ConvType
<1>9. \A l \in Lists : list_head'[l] = IF Count(l)' = 0 THEN NoNode ELSE Entry(l, 1)'
  <2>1. list_head' = IF n = 0 THEN [list_head EXCEPT ![c] = x] ELSE list_head
    BY <1>7 DEF InsertLink
  <2>2. list_head'[c] = Entry(c, 1)' /\ Count(c)' # 0
    <3>1. 1 \in 1 .. n + 1 /\ n + 1 # 0
      BY <1>3
    <3>2. Entry(c, 1)' = IF n = 0 THEN x ELSE Entry(c, 1)
      BY <1>4, <3>1
    <3> QED BY <1>1, <1>4, <1>7, <2>1, <3>1, <3>2 DEF ConvType
  <2>3. \A l \in Lists : l # c => list_head'[l] = list_head[l]
    BY <1>1, <2>1 DEF ConvType
  <2> QED BY <1>1, <1>5, <2>2, <2>3 DEF HeadsRight
<1> HIDE DEF head
<1>10. ASSUME NEW i \in 1 .. n + 1 PROVE link'[Entry(c, i)'] = Follower(c, i)'
  <2>1. CASE n = 0
    <3>1. i = 1 /\ 1 = n + 1
      BY <2>1, <1>10
    <3>2. Entry(c, i)' = x /\ link'[x] = NoNode
      BY <1>1, <1>4, <1>7, <2>1 DEF InsertLink, ConvType, head
    <3> QED BY <1>4, <3>1, <3>2 DEF Follower
  <2>2. CASE n # 0
    <3>1. link' = [link EXCEPT ![x] = link[head], ![head] = x]
      BY <1>7, <2>2 DEF InsertLink, head
    <3>2. /\ 1 \in 1 .. n /\ head = Entry(c, 1) /\ head # x /\ head \in Nodes
          /\ link[head] = Follower(c, 1)
      <4>1. 1 \in 1 .. n /\ head = Entry(c, 1)
        BY <1>3, <1>7, <2>2
      <4>2. Entry(c, 1) # x /\ Entry(c, 1) \in Nodes
        BY <1>3, <1>7, <4>1
      <4>3. link[Entry(c, 1)] = Follower(c, 1)
        BY <1>1, <1>2, <4>1
      <4> QED BY <4>1, <4>2, <4>3
    <3>3. /\ link'[head] = x /\ link'[x] = Follower(c, 1)
          /\ \A m \in Nodes : m # x /\ m # head => link'[m] = link[m]
      BY <1>1, <3>1, <3>2 DEF ConvType
    <3>4. Entry(c, 1)' = head /\ Entry(c, 2)' = x
          /\ \A j \in 3 .. n + 1 : Entry(c, j)' = Entry(c, j - 1)
      <4>1. 1 \in 1 .. n + 1 /\ 2 \in 1 .. n + 1
        BY <1>3, <2>2
      <4>2. \A j \in 3 .. n + 1 : j \in 1 .. n + 1 /\ j # 1 /\ j # 2
        BY <1>3
      <4> QED BY <1>4, <2>2, <3>2, <4>1, <4>2
    <3>5. CASE i = 1
      <4>1. 1 < n + 1
        BY <1>3, <2>2
      <4> QED BY <1>4, <3>3, <3>4, <3>5, <4>1 DEF Follower
    <3>6. CASE i = 2
      <4>1. CASE n = 1
        <5>1. Follower(c, 1) = NoNode /\ ~(2 < n + 1)
          BY <4>1 DEF Follower
        <5> QED BY <1>4, <3>3, <3>4, <3>6, <5>1 DEF Follower
      <4>2. CASE n # 1
        <5>1. 2 < n + 1 /\ 1 < n /\ 3 \in 3 .. n + 1 /\ 2 + 1 = 3 /\ 3 - 1 = 2 /\ 1 + 1 = 2
          BY <1>3, <2>2, <4>2
        <5>2. Follower(c, 1) = Entry(c, 2) /\ Entry(c, 3)' = Entry(c, 2)
          BY <3>4, <5>1 DEF Follower
        <5>3. Follower(c, 2)' = Entry(c, 3)'
          BY <1>4, <5>1 DEF Follower
        <5> QED BY <3>3, <3>4, <3>6, <5>2, <5>3
      <4> QED BY <4>1, <4>2
    <3>7. CASE i > 2
      <4>1. PICK j \in 2 .. n : j = i - 1 /\ i = j + 1
        <5>1. i - 1 \in 2 .. n /\ (i - 1) + 1 = i
          BY <1>3, <1>10, <3>7
        <5> QED BY <5>1
      <4>2. /\ i \in 3 .. n + 1 /\ j \in 1 .. n /\ j # 1 /\ Entry(c, i)' = Entry(c, j)
        BY <1>3, <1>10, <3>4, <3>7, <4>1
      <4>3. Entry(c, j) # x /\ Entry(c, j) # head /\ Entry(c, j) \in Nodes
        BY <1>3, <1>7, <3>2, <4>2
      <4>4. link'[Entry(c, i)'] = Follower(c, j)
        BY <1>1, <1>2, <3>3, <4>2, <4>3
      <4>5. Follower(c, i)' = Follower(c, j)
        <5>1. CASE j < n
          <6>1. i < n + 1 /\ i + 1 \in 3 .. n + 1 /\ (i + 1) - 1 = j + 1
            BY <1>3, <4>1, <5>1
          <6>2. Follower(c, i)' = Entry(c, i + 1)'
            BY <1>4, <6>1 DEF Follower
          <6>3. Entry(c, i + 1)' = Entry(c, j + 1)
            BY <3>4, <6>1
          <6>4. Follower(c, j) = Entry(c, j + 1)
            BY <5>1 DEF Follower
          <6> QED BY <6>2, <6>3, <6>4
        <5>2. CASE ~(j < n)
          <6>1. ~(i < n + 1)
            BY <1>3, <4>1, <5>2
          <6> QED BY <1>4, <5>2, <6>1 DEF Follower
        <5> QED BY <5>1, <5>2
      <4> QED BY <4>4, <4>5
    <3> QED BY <1>10, <1>3, <3>5, <3>6, <3>7
  <2> QED BY <2>1, <2>2
<1>11. ASSUME NEW l \in Lists, l # c, NEW i \in 1 .. Count(l)
       PROVE  link'[Entry(l, i)'] = Follower(l, i)'
  <2>1. Entry(l, i) # x /\ Entry(l, i) \in Nodes /\ n # 0 => Entry(l, i) # head
    BY <1>1, <1>3, <1>6, <1>7, <1>11 DEF Separate
  <2>2. \A m \in Nodes : m # x /\ (n # 0 => m # head) => link'[m] = link[m]
    BY <1>1, <1>7 DEF InsertLink, ConvType, head
  <2>3. Entry(l, i)' = Entry(l, i) /\ Follower(l, i)' = Follower(l, i)
    BY <1>5, <1>11 DEF Follower
  <2>4. link[Entry(l, i)] = Follower(l, i)
    BY <1>2
  <2>5. Entry(l, i) # x /\ Entry(l, i) \in Nodes
    BY <1>6
  <2> QED BY <2>1, <2>2, <2>3, <2>4, <2>5
<1>12. \A l \in Lists : LinkedFrom(l, Start(l, 1))'
  <2>1. \A l : Start(l, 1)' = 1
    BY DEF Start
  <2> QED BY <1>4, <1>5, <1>10, <1>11, <2>1 DEF LinkedFrom
<1>13. ASSUME NEW i \in 1 .. n + 1
       PROVE  \/ Entry(c, i)' = x /\ i = IF n = 0 THEN 1 ELSE 2
              \/ \E j \in 1 .. n : /\ Entry(c, i)' = Entry(c, j)
                                   /\ i = IF j = 1 THEN 1 ELSE j + 1
  <2>1. CASE n = 0
    <3>1. i = 1
      BY <2>1
    <3> QED BY <1>4, <2>1, <3>1
  <2>2. CASE n # 0 /\ i = 1
    <3>1. 1 \in 1 .. n
      BY <1>3, <2>2
    <3> QED BY <1>4, <2>2, <3>1
  <2>3. CASE n # 0 /\ i = 2
    BY <1>4, <2>3
  <2>4. CASE n # 0 /\ i > 2
    <3>1. i - 1 \in 1 .. n /\ i - 1 # 1 /\ i = (i - 1) + 1 /\ i # 1 /\ i # 2
      BY <1>3, <2>4
    <3> QED BY <1>4, <2>4, <3>1
  <2>5. i = 1 \/ i = 2 \/ i > 2
    BY <1>3
  <2> QED BY <2>1, <2>2, <2>3, <2>4, <2>5
<1>14. ASSUME NEW l \in Lists, NEW i \in 1 .. Count(l)' PROVE
         \/ Entry(l, i)' = x /\ l = c /\ i = IF n = 0 THEN 1 ELSE 2
         \/ \E j \in 1 .. Count(l) : /\ Entry(l, i)' = Entry(l, j)
                                     /\ i = IF l = c /\ j # 1 THEN j + 1 ELSE j
  <2>1. CASE l = c
    BY <1>4, <1>13, <2>1
  <2>2. CASE l # c
    BY <1>5, <2>2
  <2> QED BY <2>1, <2>2
<1>15. Separate'
  <2>1. ASSUME NEW l \in Lists, NEW i \in 1 .. Count(l)'
        PROVE  Entry(l, i)' \notin lost
    BY <1>1, <1>6, <1>14 DEF Separate
  <2>2. ASSUME NEW l \in Lists, NEW i \in 1 .. Count(l)',
               NEW m \in Lists, NEW j \in 1 .. Count(m)', Entry(l, i)' = Entry(m, j)'
        PROVE  l = m /\ i = j
    <3>1. CASE Entry(l, i)' = x
      <4>1. l = c /\ i = IF n = 0 THEN 1 ELSE 2
        BY <1>6, <1>14, <3>1
      <4>2. m = c /\ j = IF n = 0 THEN 1 ELSE 2
        <5>1. Entry(m, j)' = x
          BY <2>2, <3>1
        <5> QED BY <1>6, <1>14, <5>1
      <4> QED BY <4>1, <4>2
    <3>2. CASE Entry(l, i)' # x
      <4>1. PICK p \in 1 .. Count(l) : /\ Entry(l, i)' = Entry(l, p)
                                       /\ i = IF l = c /\ p # 1 THEN p + 1 ELSE p
        BY <1>14, <3>2
      <4>2. PICK q \in 1 .. Count(m) : /\ Entry(m, j)' = Entry(m, q)
                                       /\ j = IF m = c /\ q # 1 THEN q + 1 ELSE q
        BY <1>14, <2>2, <3>2
      <4>3. l = m /\ p = q
        <5>1. Entry(l, p) = Entry(m, q)
          BY <2>2, <4>1, <4>2
        <5> QED BY <1>1, <5>1 DEF Separate
      <4> QED BY <4>1, <4>2, <4>3
    <3> QED BY <3>1, <3>2
  <2> QED BY <1>1, <2>1, <2>2 DEF Separate
<1>16. \A l \in Lists : \A j \in 1 .. Count(l) :
         \E i \in 1 .. Count(l)' : Entry(l, j) = Entry(l, i)'
  <2>1. ASSUME NEW j \in 1 .. n PROVE \E i \in 1 .. n + 1 : Entry(c, j) = Entry(c, i)'
    <3>1. CASE j = 1
      <4>1. 1 \in 1 .. n + 1 /\ n # 0
        BY <1>3, <2>1
      <4> QED BY <1>4, <3>1, <4>1
    <3>2. CASE j # 1
      <4>1. j + 1 \in 1 .. n + 1 /\ n # 0 /\ j + 1 # 1 /\ j + 1 # 2 /\ (j + 1) - 1 = j
        BY <1>3, <2>1, <3>2
      <4> QED BY <1>4, <4>1
    <3> QED BY <3>1, <3>2
  <2> QED BY <1>4, <1>5, <2>1
<1>17. \E i \in 1 .. Count(c)' : x = Entry(c, i)'
  <2>1. CASE n = 0
    <3>1. 1 \in 1 .. n + 1
      BY <1>3
    <3> QED BY <1>4, <2>1, <3>1
  <2>2. CASE n # 0
    <3>1. 2 \in 1 .. n + 1
      BY <1>3, <2>2
    <3> QED BY <1>4, <2>2, <3>1
  <2> QED BY <2>1, <2>2
<1>18. Whole(1)' = Whole(1) \cup {x}
  <2>1. \A l : Start(l, 1) = 1 /\ Start(l, 1)' = 1
    BY DEF Start
  <2>2. ASSUME NEW m \in Nodes
        PROVE  m \in Whole(1)' <=> m \in Whole(1) \cup {x}
    <3>1. m \in Whole(1)' => m \in Whole(1) \cup {x}
      BY <1>1, <1>14, <2>1 DEF Whole
    <3>2. m \in Whole(1) => m \in Whole(1)'
      BY <1>1, <1>16, <2>1 DEF Whole
    <3>3. x \in Whole(1)'
      BY <1>1, <1>17, <2>1 DEF Whole
    <3> QED BY <3>1, <3>2, <3>3
  <2>3. Whole(1) \subseteq Nodes /\ Whole(1)' \subseteq Nodes /\ x \in Nodes
    BY <1>1, <1>8 DEF Whole, ConvType
  <2> QED BY <2>2, <2>3
<1>19. ConvState(1)'
  <2>1. Partial' = {} /\ heap' = HeldBy(Whole(1)')
    BY <1>1, <1>2, <1>18, HeldGrows DEF Partial
  <2>2. HeldBy(Whole(1)') = HeldBy(Whole(1))'
    BY DEF HeldBy
  <2> QED BY <1>1, <1>12, <2>1, <2>2 DEF ConvState
<1>20. 1 \in 1 .. Count(section)' + 1
  BY <1>1, <1>3, <1>4
<1> QED BY <1>8, <1>9, <1>15, <1>19, <1>20 DEF ConvInv, HeadsRight

(* protocol_init loses the nodes that the lists still had.                 *)
LEMMA InitListsConv ==
  ASSUME ConvInv, protocol_init PROVE ConvInv'
<1>1. /\ ConvType /\ ConvState(1) /\ step = "closed" /\ step' = "read"
      /\ list_head' = [l \in Lists |-> NoNode] /\ inserted' = [l \in Lists |-> <<>>]
      /\ lost' = lost \cup UNION {Range(inserted[l]) : l \in Lists}
      /\ UNCHANGED <<link, heap, section, node>>
  BY AtFirst DEF ConvInv, protocol_init
<1>2. \A l : Start(l, 1) = 1 /\ Start(l, 1)' = 1
  BY DEF Start
<1>3. Whole(1) = lost' /\ lost' \subseteq Nodes
  <2>1. \A l \in Lists : Range(inserted[l]) =
          {n \in Nodes : \E i \in 1 .. Count(l) : n = Entry(l, i)}
    BY <1>1, Entries
  <2>2. lost \subseteq Nodes
    BY <1>1 DEF ConvType
  <2>3. \A n : n \in lost' <=> n \in Whole(1)
    BY <1>1, <1>2, <2>1 DEF Whole
  <2> QED BY <1>1, <2>1, <2>2, <2>3
<1>4. \A l \in Lists : Count(l)' = 0 /\ list_head'[l] = NoNode
  BY <1>1 DEF Count
<1>5. ConvType'
  BY <1>1, <1>3 DEF ConvType
<1>6. Separate' /\ HeadsRight'
  BY <1>4 DEF Separate, HeadsRight
<1>7. Whole(1)' = Whole(1) /\ \A l \in Lists : LinkedFrom(l, Start(l, 1))'
  BY <1>2, <1>3, <1>4 DEF Whole, LinkedFrom
<1>8. heap' = HeldBy(Whole(1))' \cup Partial'
  BY <1>1, <1>7 DEF ConvState, Partial, HeldBy
<1>9. ConvState(1)'
  BY <1>1, <1>7, <1>8 DEF ConvState
<1>10. 1 \in 1 .. Count(section)' + 1
  BY <1>4, <1>5 DEF ConvType
<1> QED BY <1>5, <1>6, <1>9, <1>10 DEF ConvInv

(* protocol_destroy begins at the head of the first list.                  *)
LEMMA DestroyBeginConv ==
  ASSUME ConvInv, DestroyBegin PROVE ConvInv'
<1>1. /\ ConvType /\ ConvState(1) /\ HeadsRight /\ step = "open" /\ step' = "free"
      /\ section' = "light" /\ node' = list_head["light"] /\ "light" \in Lists
      /\ UNCHANGED <<list_head, link, heap, inserted, lost>>
      /\ section' \in Range(Destroyed)
  BY AtFirst DEF ConvInv, DestroyBegin, lists, Destroyed, Lists, Range
<1>2. ConvType'
  BY <1>1 DEF ConvType
<1>3. /\ Count("light") \in Nat /\ Count(section)' = Count("light")
      /\ Entry(section, 1)' = Entry("light", 1)
  BY <1>1, Entries DEF Count, Entry
<1>4. node' = IF 1 <= Count(section)' THEN Entry(section, 1)' ELSE NoNode
  BY <1>1, <1>3 DEF HeadsRight
<1>5. heap' = HeldBy(Whole(1))' \cup Partial'
  BY <1>1, ListsStay DEF ConvState, Partial, HeldBy
<1>6. ConvState(1)'
  BY <1>1, <1>4, <1>5, ListsStay DEF ConvState
<1>7. 1 \in 1 .. Count(section)' + 1
  BY <1>3
<1> QED BY <1>1, <1>2, <1>6, <1>7, ListsStay DEF ConvInv

(* The loop frees an entry and goes on to its follower.                    *)
LEMMA DestroyNodeConv ==
  ASSUME ConvInv, DestroyNode PROVE ConvInv'
<1>1. /\ ConvType /\ Separate /\ HeadsRight /\ step = "free" /\ node # NoNode
      /\ heap' = heap \ Blocks(node) /\ node' = link[node]
      /\ link' = [link EXCEPT ![node] = NoNode]
      /\ UNCHANGED <<list_head, step, section, inserted, lost>>
  BY DEF ConvInv, DestroyNode
<1>2. PICK k \in 1 .. Count(section) + 1 : ConvState(k)
  BY DEF ConvInv
<1>3. PICK c \in Lists, n \in Nat : c = section /\ n = Count(c)
  BY <1>1, Entries DEF ConvType
<1>4. /\ k \in 1 .. n /\ node = Entry(c, k) /\ node \in Nodes /\ k \in Nat
      /\ \A i \in 1 .. n : Entry(c, i) \in Nodes
  <2>1. node = IF k <= n THEN Entry(c, k) ELSE NoNode
    BY <1>1, <1>2, <1>3 DEF ConvState
  <2>2. k \in 1 .. n
    BY <1>1, <1>2, <1>3, <2>1
  <2> QED BY <1>1, <1>3, <2>1, <2>2, Entries
<1>5. /\ \A l, i : Entry(l, i)' = Entry(l, i)
      /\ \A l : Count(l)' = Count(l)
  BY <1>1 DEF Entry, Count
<1>6. \A l, i : Follower(l, i)' = Follower(l, i)
  BY <1>5 DEF Follower
<1>7. \A l : /\ Start(l, k) = IF l = c THEN k ELSE 1
             /\ Start(l, k + 1)' = IF l = c THEN k + 1 ELSE 1
  BY <1>1, <1>3 DEF Start
<1>8. ConvType'
  BY <1>1, <1>4 DEF ConvType
<1>9. Separate' /\ HeadsRight'
  BY <1>1, <1>5 DEF Separate, HeadsRight
<1>10. \A l \in Lists : LinkedFrom(l, Start(l, k))
  BY <1>2 DEF ConvState
<1>11. ASSUME NEW l \in Lists PROVE LinkedFrom(l, Start(l, k + 1))'
  <2>1. \A m \in Nodes : m # node => link'[m] = link[m]
    BY <1>1, <1>4 DEF ConvType
  <2>2. ASSUME NEW i \in Start(l, k + 1)' .. Count(l)
        PROVE  link'[Entry(l, i)] = Follower(l, i)
    <3>1. i \in Start(l, k) .. Count(l) /\ i \in 1 .. Count(l) /\ ~(l = c /\ i = k)
      BY <1>4, <1>7, <1>1, <2>2, Entries
    <3>2. Entry(l, i) \in Nodes /\ Entry(l, i) # node
      BY <1>1, <1>3, <1>4, <3>1, Entries DEF Separate
    <3>3. link[Entry(l, i)] = Follower(l, i)
      BY <1>10, <3>1 DEF LinkedFrom
    <3> QED BY <2>1, <3>2, <3>3
  <2> QED BY <1>5, <1>6, <2>2 DEF LinkedFrom
<1>12. Whole(k + 1)' = Whole(k) \ {node}
  <2>1. ASSUME NEW l \in Lists, NEW i \in Start(l, k) .. Count(l)
        PROVE  /\ i \in 1 .. Count(l)
               /\ Entry(l, i) = node <=> l = c /\ i = k
               /\ i \in Start(l, k + 1)' .. Count(l) <=> ~(l = c /\ i = k)
    <3>1. i \in 1 .. Count(l)
      BY <1>1, <1>4, <1>7, Entries
    <3>2. Entry(l, i) = node <=> l = c /\ i = k
      BY <1>1, <1>3, <1>4, <3>1 DEF Separate
    <3>3. i \in Start(l, k + 1)' .. Count(l) <=> ~(l = c /\ i = k)
      BY <1>1, <1>4, <1>7, <3>1, Entries
    <3> QED BY <3>1, <3>2, <3>3
  <2>2. ASSUME NEW l \in Lists, NEW i \in Start(l, k + 1)' .. Count(l)
        PROVE  i \in Start(l, k) .. Count(l)
    BY <1>1, <1>4, <1>7, Entries
  <2>3. node \notin lost
    BY <1>1, <1>3, <1>4 DEF Separate
  <2>4. ASSUME NEW m PROVE m \in Whole(k + 1)' <=> m \in Whole(k) /\ m # node
    <3>1. CASE m \in lost
      BY <1>1, <2>3, <3>1 DEF Whole
    <3>2. CASE m \notin lost
      <4>1. m \in Whole(k) <=> /\ m \in Nodes
                               /\ \E l \in Lists : \E i \in Start(l, k) .. Count(l) :
                                    m = Entry(l, i)
        BY <3>2 DEF Whole
      <4>2. m \in Whole(k + 1)' <=>
              /\ m \in Nodes
              /\ \E l \in Lists : \E i \in Start(l, k + 1)' .. Count(l) : m = Entry(l, i)
        BY <1>1, <1>5, <3>2 DEF Whole
      <4> QED BY <2>1, <2>2, <4>1, <4>2
    <3> QED BY <3>1, <3>2
  <2> QED BY <2>4
<1>13. node \in Whole(k)
  <2>1. k \in Start(c, k) .. Count(c)
    BY <1>3, <1>4, <1>7
  <2> QED BY <1>3, <1>4, <2>1 DEF Whole
<1>14. heap' = HeldBy(Whole(k + 1))' \cup Partial'
  <2>1. heap = HeldBy(Whole(k)) /\ Partial' = {}
    BY <1>1, <1>2 DEF ConvState, Partial
  <2>2. HeldBy(Whole(k + 1))' = HeldBy(Whole(k) \ {node})
    BY <1>12 DEF HeldBy
  <2> QED BY <1>1, <1>13, <2>1, <2>2, HeldShrinks
<1>15. node' = IF k + 1 <= Count(section)' THEN Entry(section, k + 1)' ELSE NoNode
  <2>1. link[Entry(c, k)] = Follower(c, k)
    <3>1. k \in Start(c, k) .. Count(c)
      BY <1>3, <1>4, <1>7
    <3> QED BY <1>10, <3>1 DEF LinkedFrom
  <2>2. k < n <=> k + 1 <= n
    BY <1>3, <1>4
  <2> QED BY <1>1, <1>3, <1>4, <1>5, <2>1, <2>2 DEF Follower
<1>16. ConvState(k + 1)'
  BY <1>1, <1>11, <1>14, <1>15 DEF ConvState
<1>17. k + 1 \in 1 .. Count(section)' + 1
  BY <1>1, <1>3, <1>4, <1>5
<1> QED BY <1>8, <1>9, <1>16, <1>17 DEF ConvInv

(* A freed list is emptied; the next one is whole.                         *)
LEMMA DestroyListConv ==
  ASSUME ConvInv, DestroyList PROVE ConvInv'
<1>1. PICK c \in Lists, n \in Nat, k \in Nat :
        c = section /\ n = Count(c) /\ k \in 1 .. n + 1 /\ ConvState(k)
  <2>1. section \in Lists /\ Count(section) \in Nat
    BY Entries DEF ConvInv, ConvType
  <2> QED BY <2>1 DEF ConvInv
<1>2. /\ ConvType /\ Separate /\ HeadsRight /\ step = "free" /\ node = NoNode
      /\ list_head' = [list_head EXCEPT ![c] = NoNode]
      /\ inserted' = [inserted EXCEPT ![c] = <<>>]
      /\ UNCHANGED <<link, heap, lost>>
  BY <1>1 DEF ConvInv, DestroyList
<1>3. k = n + 1
  <2>1. k <= n => node = Entry(c, k) /\ node \in Nodes
    <3>1. k <= n => k \in 1 .. n
      BY <1>1
    <3> QED BY <1>1, <1>2, <3>1, Entries DEF ConvState
  <2> QED BY <1>1, <1>2, <2>1, ListsAssumption
<1>4. \/ /\ section' \in Range(Destroyed) /\ section' # c /\ section' \in Lists
         /\ node' = list_head[section'] /\ step' = "free"
      \/ step' = "closed" /\ section' = "light" /\ UNCHANGED node
  <2> DEFINE d == CHOOSE d \in DOMAIN Destroyed : Destroyed[d] = section
  <2>1. /\ DOMAIN Destroyed = 1 .. 3 /\ Len(Destroyed) = 3
        /\ Destroyed[1] = "light" /\ Destroyed[2] = "electric_power"
        /\ Destroyed[3] = "environment"
    BY DEF Destroyed
  <2>2. d \in 1 .. 3 /\ Destroyed[d] = c
    <3>1. \E e \in DOMAIN Destroyed : Destroyed[e] = section
      BY <1>2 DEF ConvType, Range
    <3> QED BY <1>1, <2>1, <3>1
  <2>3. IF d < 3
        THEN /\ section' = Destroyed[d + 1] /\ node' = list_head[Destroyed[d + 1]]
             /\ UNCHANGED step
        ELSE step' = "closed" /\ section' = "light" /\ UNCHANGED node
    BY <2>1 DEF DestroyList
  <2> HIDE DEF d
  <2>4. d < 3 => Destroyed[d + 1] \in Range(Destroyed) /\ Destroyed[d + 1] # c
                 /\ Destroyed[d + 1] \in Lists
    <3>1. d = 1 \/ d = 2 \/ d = 3
      BY <2>2
    <3>2. d < 3 => d + 1 \in DOMAIN Destroyed
      BY <2>1, <2>2
    <3>3. CASE d = 1
      BY <2>1, <2>2, <3>2, <3>3 DEF Range, Lists
    <3>4. CASE d = 2
      BY <2>1, <2>2, <3>2, <3>4 DEF Range, Lists
    <3>5. CASE d = 3
      BY <3>5
    <3> QED BY <3>1, <3>3, <3>4, <3>5
  <2> QED BY <1>2, <2>3, <2>4
<1>5. section' \in Lists /\ step' \in {"free", "closed"}
  BY <1>4 DEF Lists
<1>6. ConvType'
  <2>1. inserted' \in [Lists -> Seq(Nodes)] /\ list_head' \in [Lists -> Nodes \cup {NoNode}]
    BY <1>2 DEF ConvType
  <2> QED BY <1>2, <1>4, <1>5, <2>1 DEF ConvType
<1>7. /\ Count(c)' = 0 /\ list_head'[c] = NoNode
      /\ \A l \in Lists : l # c => /\ Count(l)' = Count(l)
                                   /\ list_head'[l] = list_head[l]
                                   /\ \A i : Entry(l, i)' = Entry(l, i)
  BY <1>2 DEF Count, Entry, ConvType
<1>8. Separate' /\ HeadsRight'
  <2>1. Separate'
    <3>1. \A l \in Lists : \A i \in 1 .. Count(l)' :
            l # c /\ i \in 1 .. Count(l) /\ Entry(l, i)' = Entry(l, i)
      BY <1>7
    <3> QED BY <1>2, <3>1 DEF Separate
  <2>2. HeadsRight'
    BY <1>1, <1>2, <1>7 DEF HeadsRight
  <2> QED BY <2>1, <2>2
<1>9. \A l \in Lists : /\ Start(l, k) = IF l = c THEN k ELSE 1
                       /\ Start(l, 1)' = 1
  BY <1>1, <1>2 DEF Start
<1>10. \A l \in Lists : LinkedFrom(l, Start(l, 1))'
  <2>1. \A l \in Lists : l # c => LinkedFrom(l, 1)
    BY <1>1, <1>9 DEF ConvState
  <2>2. \A l \in Lists : \A i : l # c => Follower(l, i)' = Follower(l, i)
    BY <1>7 DEF Follower
  <2>3. LinkedFrom(c, 1)'
    BY <1>7 DEF LinkedFrom
  <2>4. \A l \in Lists : l # c => LinkedFrom(l, 1)'
    BY <1>2, <1>7, <2>1, <2>2 DEF LinkedFrom
  <2> QED BY <1>9, <2>3, <2>4 DEF LinkedFrom
<1>11. Whole(1)' = Whole(k)
  <2>1. \A l \in Lists : Start(l, 1)' .. Count(l)' = IF l = c THEN {} ELSE 1 .. Count(l)
    BY <1>7, <1>9
  <2>2. \A l \in Lists : Start(l, k) .. Count(l) = IF l = c THEN {} ELSE 1 .. Count(l)
    BY <1>1, <1>3, <1>9
  <2>3. ASSUME NEW l \in Lists, NEW i, l # c PROVE Entry(l, i)' = Entry(l, i)
    BY <1>7, <2>3
  <2>4. ASSUME NEW m PROVE m \in Whole(1)' <=> m \in Whole(k)
    <3>1. (\E l \in Lists : \E i \in Start(l, 1)' .. Count(l)' : m = Entry(l, i)')
          <=> (\E l \in Lists : \E i \in Start(l, k) .. Count(l) : m = Entry(l, i))
      BY <2>1, <2>2, <2>3
    <3> QED BY <1>2, <3>1 DEF Whole
  <2> QED BY <2>4
<1>12. heap' = HeldBy(Whole(1))' \cup Partial'
  <2>1. heap = HeldBy(Whole(k)) /\ Partial' = {}
    BY <1>1, <1>2, <1>5 DEF ConvState, Partial
  <2>2. HeldBy(Whole(1))' = HeldBy(Whole(k))
    BY <1>11 DEF HeldBy
  <2> QED BY <1>2, <2>1, <2>2
<1>13. step' = "free" =>
         node' = IF 1 <= Count(section)' THEN Entry(section, 1)' ELSE NoNode
  <2>1. ASSUME NEW l \in Lists, l # c
        PROVE  /\ list_head[l] = IF Count(l) = 0 THEN NoNode ELSE Entry(l, 1)
               /\ Count(l) \in Nat /\ Count(l)' = Count(l) /\ Entry(l, 1)' = Entry(l, 1)
    BY <1>1, <1>2, <1>7, <2>1, Entries DEF HeadsRight
  <2>2. \A l \in Lists : l = section' =>
          Count(section)' = Count(l)' /\ Entry(section, 1)' = Entry(l, 1)'
    BY DEF Count, Entry
  <2> QED BY <1>4, <1>5, <2>1, <2>2
<1>14. ConvState(1)'
  BY <1>5, <1>10, <1>12, <1>13 DEF ConvState
<1>15. 1 \in 1 .. Count(section)' + 1
  BY <1>5, <1>6, Entries DEF ConvType, Count
<1> QED BY <1>6, <1>8, <1>14, <1>15 DEF ConvInv

(* In every reachable state the lists are linked from their heads, no node *)
(* is in two places, and memory holds the lists, what was lost, and what   *)
(* an insertion or protocol_destroy has come to.                           *)
THEOREM ConvInvariant == ConvSpec => []ConvInv
<1>1. ConvInit => ConvInv
  BY InitConv
<1>2. ConvInv /\ [ConvNext]_conv_vars => ConvInv'
  <2> SUFFICES ASSUME ConvInv, [ConvNext]_conv_vars PROVE ConvInv'
    OBVIOUS
  <2>1. CASE ConvNext
    BY <2>1, InitListsConv, IniEndConv, InsertNodeConv, InsertCloudNameConv,
       InsertRexNameConv, InsertLinkConv, DestroyBeginConv, DestroyNodeConv,
       DestroyListConv DEF ConvNext
  <2>2. CASE UNCHANGED conv_vars
    <3>1. UNCHANGED <<list_head, link, heap, step, section, node, inserted, lost>>
      BY <2>2 DEF conv_vars, lists
    <3>2. /\ \A l, i : Entry(l, i)' = Entry(l, i)
          /\ \A l : Count(l)' = Count(l) /\ \A i : Start(l, i)' = Start(l, i)
      BY <3>1 DEF Entry, Count, Start
    <3>3. \A l, i : Follower(l, i)' = Follower(l, i)
      BY <3>2 DEF Follower
    <3>4. ConvType' /\ Separate' /\ HeadsRight' /\ Count(section)' = Count(section)
      BY <3>1, <3>2 DEF ConvInv, ConvType, Separate, HeadsRight, Count
    <3>5. ASSUME NEW k, ConvState(k) PROVE ConvState(k)'
      <4>1. Whole(k)' = Whole(k)
        BY <3>1, <3>2 DEF Whole
      <4>2. heap' = HeldBy(Whole(k))' \cup Partial'
        BY <3>1, <3>5, <4>1 DEF ConvState, HeldBy, Partial
      <4>3. \A l \in Lists : LinkedFrom(l, Start(l, k))'
        BY <3>1, <3>2, <3>3, <3>5 DEF ConvState, LinkedFrom
      <4>4. Entry(section, k)' = Entry(section, k)
        BY <3>1 DEF Entry
      <4> QED BY <3>1, <3>4, <3>5, <4>1, <4>2, <4>3, <4>4 DEF ConvState
    <3> QED BY <3>4, <3>5 DEF ConvInv
  <2> QED BY <2>1, <2>2
<1> QED BY <1>1, <1>2, PTL DEF ConvSpec

(* The order of a list, entry by entry.                                    *)
LEMMA ExpectedIs ==
  ASSUME ConvType, NEW l \in Lists
  PROVE  /\ Count(l) \in Nat /\ Len(Expected(l)) = Count(l)
         /\ DOMAIN Expected(l) = 1 .. Count(l)
         /\ Expected(l) = <<>> <=> Count(l) = 0
         /\ \A k \in 1 .. Count(l) : Expected(l)[k] = Entry(l, k)
<1> DEFINE s == inserted[l]
           n == Len(s)
<1>1. s \in Seq(Nodes) /\ n \in Nat /\ n = Count(l)
  BY Entries DEF Count
<1> HIDE DEF s
<1>2. CASE s = <<>>
  BY <1>1, <1>2 DEF Expected, s
<1>3. CASE s # <<>>
  <2>1. n # 0 /\ Head(s) = s[1] /\ s[1] \in Nodes
    BY <1>1, <1>3
  <2>2. /\ Tail(s) \in Seq(Nodes) /\ Len(Tail(s)) = n - 1
        /\ \A i \in 1 .. n - 1 : Tail(s)[i] = s[i + 1]
    BY <1>1, <1>3
  <2>3. PICK t \in Seq(Nodes) : t = Tail(s)
    BY <2>2
  <2>4. /\ Reverse(t) \in Seq(Nodes) /\ Len(Reverse(t)) = n - 1
        /\ \A i \in 1 .. n - 1 : Reverse(t)[i] = s[n + 1 - i]
    <3>1. Len(t) = n - 1 /\ \A i \in 1 .. n - 1 : t[i] \in Nodes
      BY <1>1, <2>2, <2>3
    <3>2. \A i \in 1 .. n - 1 : (n - 1) - i + 1 \in 1 .. n - 1
      BY <1>1
    <3>3. Reverse(t) = [i \in 1 .. n - 1 |-> t[(n - 1) - i + 1]]
      BY <3>1 DEF Reverse
    <3>4. Reverse(t) \in [1 .. n - 1 -> Nodes] /\ n - 1 \in Nat
      BY <1>1, <2>1, <3>1, <3>2, <3>3
    <3>5. ASSUME NEW i \in 1 .. n - 1 PROVE Reverse(t)[i] = s[n + 1 - i]
      <4>1. PICK j \in 1 .. n - 1 : j = (n - 1) - i + 1 /\ j + 1 = n + 1 - i
        <5>1. (n - 1) - i + 1 \in 1 .. n - 1 /\ ((n - 1) - i + 1) + 1 = n + 1 - i
          BY <1>1, <3>2
        <5> QED BY <5>1
      <4>2. Reverse(t)[i] = t[j]
        BY <3>3, <4>1
      <4> QED BY <2>2, <2>3, <4>1, <4>2
    <3> QED BY <3>4, <3>5
  <2>5. PICK r \in Seq(Nodes) : r = Reverse(t)
    BY <2>4
  <2>6. Expected(l) = <<s[1]>> \o r
    BY <1>3, <2>1, <2>3, <2>5 DEF Expected, s
  <2>7. /\ Expected(l) \in Seq(Nodes) /\ Len(Expected(l)) = n
        /\ \A k \in 1 .. n : Expected(l)[k] = IF k = 1 THEN s[1] ELSE r[k - 1]
    BY <1>1, <2>1, <2>4, <2>5, <2>6
  <2>8. ASSUME NEW k \in 1 .. n PROVE Expected(l)[k] = Entry(l, k)
    <3>1. Expected(l)[k] = IF k = 1 THEN s[1] ELSE r[k - 1]
      BY <2>7
    <3>2. CASE k = 1
      BY <3>1, <3>2 DEF Entry, s
    <3>3. CASE k # 1
      <4>1. k - 1 \in 1 .. n - 1 /\ n + 1 - (k - 1) = n + 2 - k
        BY <1>1, <3>3
      <4>2. r[k - 1] = s[n + 2 - k]
        BY <2>4, <2>5, <4>1
      <4> QED BY <3>1, <3>3, <4>2 DEF Entry, s
    <3> QED BY <3>2, <3>3
  <2>9. DOMAIN Expected(l) = 1 .. n /\ Expected(l) # <<>>
    BY <2>1, <2>7
  <2> QED BY <1>1, <2>1, <2>7, <2>8, <2>9
<1> QED BY <1>2, <1>3

(* However many entries are inserted and whatever allocations fail, a list *)
(* links all of its pairs, and no others, in one order                     *)
(* (protocol_insert_list).                                                 *)
THEOREM ListsAreComplete == ConvSpec => []ListsComplete
<1>1. ConvInv => ListsComplete
  <2> SUFFICES ASSUME ConvInv, NEW l \in Lists, step # "free"
               PROVE  LET nodes == Expected(l) IN
                        /\ list_head[l] = IF nodes = <<>> THEN NoNode ELSE nodes[1]
                        /\ \A k \in DOMAIN nodes :
                             link[nodes[k]] = IF k < Len(nodes) THEN nodes[k + 1] ELSE NoNode
    BY DEF ListsComplete
  <2>1. /\ Count(l) \in Nat /\ Len(Expected(l)) = Count(l)
        /\ DOMAIN Expected(l) = 1 .. Count(l)
        /\ Expected(l) = <<>> <=> Count(l) = 0
        /\ \A k \in 1 .. Count(l) : Expected(l)[k] = Entry(l, k)
    BY ExpectedIs DEF ConvInv
  <2>2. list_head[l] = IF Expected(l) = <<>> THEN NoNode ELSE Expected(l)[1]
    BY <2>1 DEF ConvInv, HeadsRight
  <2>3. ASSUME NEW k \in 1 .. Count(l)
        PROVE  link[Entry(l, k)] = IF k < Count(l) THEN Expected(l)[k + 1] ELSE NoNode
    <3>1. link[Entry(l, k)] = Follower(l, k)
      BY AtFirst DEF ConvState, LinkedFrom, Start
    <3>2. k < Count(l) => k + 1 \in 1 .. Count(l)
      BY <2>1
    <3> QED BY <2>1, <3>1, <3>2 DEF Follower
  <2> QED BY <2>1, <2>2, <2>3
<1> QED BY <1>1, ConvInvariant, PTL

(* Neither a failed insertion nor protocol_destroy leaves half of an entry *)
(* in memory (protocol_insert_list, protocol_destroy).                     *)
THEOREM EntriesAreWhole == ConvSpec => []EntriesWhole
<1>1. ConvInv => EntriesWhole
  <2> SUFFICES ASSUME ConvInv, step \in {"closed", "read", "open"}
               PROVE  heap = UNION {Blocks(n) : n \in
                               lost \cup UNION {Range(inserted[l]) : l \in Lists}}
    BY DEF EntriesWhole
  <2>1. ConvState(1) /\ Partial = {} /\ \A l : Start(l, 1) = 1
    BY AtFirst DEF Partial, Start
  <2>2. \A l \in Lists : Range(inserted[l]) =
          {n \in Nodes : \E i \in 1 .. Count(l) : n = Entry(l, i)}
    BY Entries DEF ConvInv
  <2>3. Whole(1) = lost \cup UNION {Range(inserted[l]) : l \in Lists}
    BY <2>1, <2>2 DEF Whole
  <2> QED BY <2>1, <2>3 DEF ConvState, HeldBy
<1> QED BY <1>1, ConvInvariant, PTL
=============================================================================
