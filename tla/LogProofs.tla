------------------------------ MODULE LogProofs ------------------------------
(***************************************************************************)
(* For any number of threads and any records, buffer and file sizes, the   *)
(* log file of log_util.c does not grow, wherever writes fail, and it      *)
(* holds the records since it last started over, whole and without a gap.  *)
(***************************************************************************)
EXTENDS Log, SequenceLemmas, TLAPS

Critical == {"format", "place", "write", "unlock"}

Chars == {Old, Zero} \cup {Byte(r, k) : r \in Records, k \in 1 .. WRITE_BUF_SIZE - 1}

(* What a thread of log_printf knows at each point: the mutex is its own,  *)
(* the record fits the buffer, and there is room for it in the file.       *)
LogKnows(t) ==
  /\ pc[t] \in Critical <=> file_mutex = t
  /\ pc[t] # "idle" => fp /\ record[t] \in Records
  /\ pc[t] \notin {"write", "unlock"} => total[t] = 0
  /\ pc[t] \in {"place", "write"} => /\ buffer = record[t]
                                     /\ LengthOf[record[t]] \in 1 .. WRITE_BUF_SIZE - 1
  /\ pc[t] = "write" =>
       /\ total[t] <= LengthOf[record[t]]
       /\ \/ file_size + log_offset + LengthOf[record[t]] < max_size
          \/ file_size = 0 /\ log_offset = 0

LogInv == /\ TypeOK /\ SizeBound
          /\ \A t \in Threads : LogKnows(t)

-----------------------------------------------------------------------------
(* pwrite writes bytes, and makes the file no longer than where it ends.   *)
LEMMA WrittenIs ==
  ASSUME NEW S, Zero \in S, file \in Seq(S), NEW bytes \in Seq(S), NEW offset \in Nat
  PROVE  /\ Written(bytes, offset) \in Seq(S)
         /\ Len(Written(bytes, offset)) = IF offset + Len(bytes) > Len(file)
                                          THEN offset + Len(bytes) ELSE Len(file)
<1> DEFINE end == offset + Len(bytes)
           m == IF end > Len(file) THEN end ELSE Len(file)
           w == [k \in 1 .. m |-> IF k \in offset + 1 .. end THEN bytes[k - offset]
                                  ELSE IF k <= Len(file) THEN file[k] ELSE Zero]
<1>1. Written(bytes, offset) = w
  BY DEF Written
<1>2. m \in Nat
  OBVIOUS
<1>3. \A k \in 1 .. m : w[k] \in S
  <2> TAKE k \in 1 .. m
  <2>1. k \in offset + 1 .. end => bytes[k - offset] \in S
    OBVIOUS
  <2>2. k <= Len(file) => file[k] \in S
    OBVIOUS
  <2> QED BY <2>1, <2>2
<1> HIDE DEF m
<1>4. w \in [1 .. m -> S]
  BY <1>3
<1> HIDE DEF w
<1>5. w \in Seq(S) /\ Len(w) = m
  BY <1>2, <1>4
<1> QED BY <1>1, <1>5 DEF m

LEMMA InitLog == Init => LogInv
<1> SUFFICES ASSUME Init PROVE LogInv
  OBVIOUS
<1>1. TypeOK
  <2>1. file \in Seq(Chars) /\ lap \in Seq(Records)
    BY DEF Init
  <2>2. 0 \in 0 .. WRITE_BUF_SIZE - 1 /\ 0 \in Levels
    BY ConstantsAssumption DEF Levels, GW_NONE
  <2>3. total \in [Threads -> 0 .. WRITE_BUF_SIZE - 1]
    BY <2>2 DEF Init
  <2>4. /\ log_level \in Levels /\ fp \in BOOLEAN /\ buffer \in Records \cup {Null}
        /\ max_size \in Nat /\ file_size \in Nat /\ log_offset \in Nat
        /\ file_mutex \in Threads \cup {NoThread} /\ old_size \in Nat /\ start \in Nat
    BY <2>2 DEF Init
  <2>5. /\ record \in [Threads -> Records \cup {Null}]
        /\ pc \in [Threads -> {"idle", "lock", "format", "place", "write", "unlock"}]
    BY DEF Init
  <2> QED BY <2>1, <2>3, <2>4, <2>5 DEF TypeOK, Chars
<1>2. SizeBound
  BY DEF Init, SizeBound
<1>3. \A t \in Threads : LogKnows(t)
  BY ConstantsAssumption DEF Init, LogKnows, Critical
<1> QED BY <1>1, <1>2, <1>3 DEF LogInv

-----------------------------------------------------------------------------
(* What is left alone by a step of one thread, outside its turn.           *)
LEMMA OtherThreads ==
  ASSUME LogInv, NEW t \in Threads, file_mutex = t, NEW u \in Threads, u # t,
         pc'[u] = pc[u], record'[u] = record[u], total'[u] = total[u], fp' = fp,
         file_mutex' \in {t, NoThread}
  PROVE  LogKnows(u)'
<1>1. NoThread # u
  BY ConstantsAssumption
<1>2. LogKnows(u)
  BY DEF LogInv
<1>3. pc[u] \notin Critical
  BY <1>2 DEF LogKnows
<1>4. pc[u] \notin {"format", "place", "write", "unlock"}
  BY <1>3 DEF Critical
<1>5. pc'[u] \notin Critical /\ file_mutex' # u
  BY <1>1, <1>3
<1> QED BY <1>2, <1>4, <1>5 DEF LogKnows

LEMMA SettingKeeps ==
  ASSUME LogInv, NEW level \in Levels, NEW max \in MaxSizes, NEW size \in OldSizes,
         Setting(level, max, size)
  PROVE  LogInv'
<1>1. ~fp /\ size \in Nat /\ max \in Nat
  BY ConstantsAssumption DEF Setting
<1>2. \A t \in Threads : pc[t] = "idle"
  BY <1>1 DEF LogInv, LogKnows
<1>3. UNCHANGED <<buffer, file_mutex, pc, record, total, log_offset, lap>> /\ log_level' = level
  BY DEF Setting, place
<1>4. CASE UNCHANGED <<fp, max_size, old_size, place, file>>
  BY <1>3, <1>4 DEF LogInv, LogKnows, TypeOK, SizeBound, place
<1>5. CASE /\ fp' = TRUE /\ file' = [k \in 1 .. size |-> Old]
           /\ file_size' = size /\ start' = size /\ old_size' = size
           /\ max_size' = max
  <2>1. file' \in Seq(Chars) /\ Len(file') = size
    BY <1>1, <1>5 DEF Chars
  <2>2. SizeBound'
    BY <1>1, <1>5, <2>1 DEF SizeBound
  <2>3. TypeOK'
    BY <1>1, <1>3, <1>5, <2>1 DEF LogInv, TypeOK, Chars
  <2>4. \A t \in Threads : LogKnows(t)'
    BY <1>2, <1>3, <1>5 DEF LogInv, LogKnows
  <2> QED BY <2>2, <2>3, <2>4 DEF LogInv
<1> QED BY <1>4, <1>5 DEF Setting

LEMMA DisableKeeps == LogInv /\ gw_disable_log => LogInv'
<1> SUFFICES ASSUME LogInv, gw_disable_log PROVE LogInv'
  OBVIOUS
<1>1. GW_NONE \in Levels
  BY DEF GW_NONE, Levels
<1> QED BY <1>1 DEF LogInv, gw_disable_log, place, TypeOK, SizeBound, LogKnows

LEMMA BeginKeeps ==
  ASSUME LogInv, NEW t \in Threads, NEW r \in Records, Begin(t, r)
  PROVE  LogInv'
<1>1. TypeOK' /\ SizeBound'
  BY DEF LogInv, Begin, Goto, TypeOK, SizeBound, setting, place
<1>2. ASSUME NEW u \in Threads PROVE LogKnows(u)'
  <2>1. CASE u = t
    BY <2>1 DEF LogInv, Begin, Goto, TypeOK, LogKnows, Critical, setting, place
  <2>2. CASE u # t
    BY <2>2 DEF LogInv, Begin, Goto, TypeOK, LogKnows, setting, place
  <2> QED BY <2>1, <2>2
<1> QED BY <1>1, <1>2 DEF LogInv

LEMMA LockKeeps ==
  ASSUME LogInv, NEW t \in Threads, Lock(t)
  PROVE  LogInv'
<1>1. TypeOK' /\ SizeBound'
  BY DEF LogInv, Lock, Goto, TypeOK, SizeBound, setting, place
<1>2. ASSUME NEW u \in Threads PROVE LogKnows(u)'
  <2>1. CASE u = t
    BY <2>1 DEF LogInv, Lock, Goto, TypeOK, LogKnows, Critical, setting, place
  <2>2. CASE u # t
    <3>1. file_mutex = NoThread /\ NoThread # u /\ file_mutex' = t
      BY ConstantsAssumption DEF Lock
    <3> QED BY <2>2, <3>1 DEF LogInv, Lock, Goto, TypeOK, LogKnows, setting, place
  <2> QED BY <2>1, <2>2
<1> QED BY <1>1, <1>2 DEF LogInv

LEMMA UnlockKeeps ==
  ASSUME LogInv, NEW t \in Threads, Unlock(t)
  PROVE  LogInv'
<1>1. TypeOK' /\ SizeBound'
  <2>1. total' \in [Threads -> 0 .. WRITE_BUF_SIZE - 1]
    <3>1. 0 \in 0 .. WRITE_BUF_SIZE - 1
      BY ConstantsAssumption
    <3> QED BY <3>1 DEF LogInv, TypeOK, Unlock
  <2> QED BY <2>1 DEF LogInv, Unlock, Goto, TypeOK, SizeBound, setting, place
<1>2. file_mutex = t /\ NoThread # t
  BY ConstantsAssumption DEF Unlock, LogInv, LogKnows, Critical
<1>3. LogKnows(t)'
  BY <1>2 DEF LogInv, Unlock, Goto, TypeOK, LogKnows, Critical
<1>4. ASSUME NEW u \in Threads, u # t PROVE LogKnows(u)'
  BY <1>2, <1>4, OtherThreads DEF LogInv, Unlock, Goto, TypeOK, setting
<1> QED BY <1>1, <1>3, <1>4 DEF LogInv

LEMMA FormatKeeps ==
  ASSUME LogInv, NEW t \in Threads, Format(t)
  PROVE  LogInv'
<1>1. /\ file_mutex = t /\ fp /\ record[t] \in Records /\ total[t] = 0
      /\ pc[t] = "format"
  BY DEF Format, LogInv, LogKnows, Critical
<1>2. PICK r \in Records :
        /\ record' = [record EXCEPT ![t] = r] /\ buffer' = r
        /\ pc' = [pc EXCEPT ![t] = IF LengthOf[r] \in 1 .. WRITE_BUF_SIZE - 1
                                   THEN "place" ELSE "unlock"]
  BY <1>1, ConstantsAssumption DEF Format, Goto
<1>3. UNCHANGED <<log_level, fp, max_size, old_size, file_size, log_offset, start, lap,
                  file_mutex, file, total>>
  BY DEF Format, setting, place
<1>4. TypeOK' /\ SizeBound'
  BY <1>2, <1>3 DEF LogInv, TypeOK, SizeBound
<1>5. LogKnows(t)'
  <2>1. record'[t] = r /\ pc'[t] \in {"place", "unlock"}
    BY <1>2 DEF LogInv, TypeOK
  <2>2. pc'[t] = "place" => LengthOf[r] \in 1 .. WRITE_BUF_SIZE - 1
    BY <1>2 DEF LogInv, TypeOK
  <2> QED BY <1>1, <1>2, <1>3, <2>1, <2>2 DEF LogKnows, Critical
<1>6. ASSUME NEW u \in Threads, u # t PROVE LogKnows(u)'
  BY <1>1, <1>2, <1>3, <1>6, OtherThreads DEF LogInv, TypeOK
<1> QED BY <1>4, <1>5, <1>6 DEF LogInv

LEMMA RewindKeeps ==
  ASSUME LogInv, NEW t \in Threads, Rewind(t)
  PROVE  LogInv'
<1>1. /\ file_mutex = t /\ fp /\ record[t] \in Records /\ total[t] = 0
      /\ buffer = record[t] /\ LengthOf[record[t]] \in 1 .. WRITE_BUF_SIZE - 1
  BY DEF Rewind, LogInv, LogKnows, Critical
<1>2. /\ pc' = [pc EXCEPT ![t] = "write"]
      /\ UNCHANGED <<log_level, fp, max_size, old_size, buffer, file_mutex, file,
                     record, total>>
  BY DEF Rewind, Goto, setting
<1>3. /\ TypeOK'
      /\ \/ file_size' = 0 /\ log_offset' = 0
         \/ file_size' + log_offset' + LengthOf[record'[t]] < max_size'
  <2>1. CASE file_size + log_offset + LengthOf[record[t]] >= max_size
    <3>1. file_size' = 0 /\ log_offset' = 0 /\ start' = 0 /\ lap' = <<>>
      BY <2>1 DEF Rewind
    <3> QED BY <1>2, <3>1 DEF LogInv, TypeOK
  <2>2. CASE ~(file_size + log_offset + LengthOf[record[t]] >= max_size)
    <3>1. UNCHANGED place
      BY <2>2 DEF Rewind
    <3>2. TypeOK'
      BY <1>2, <3>1 DEF LogInv, TypeOK, place
    <3>3. file_size \in Nat /\ log_offset \in Nat /\ max_size \in Nat
      BY DEF LogInv, TypeOK
    <3>4. file_size' + log_offset' + LengthOf[record'[t]] < max_size'
      BY <1>1, <1>2, <2>2, <3>1, <3>3 DEF place
    <3> QED BY <3>2, <3>4
  <2> QED BY <2>1, <2>2
<1>4. SizeBound'
  BY <1>2 DEF LogInv, SizeBound
<1>5. LogKnows(t)'
  <2>1. pc'[t] = "write" /\ total'[t] = 0 /\ record'[t] = record[t]
    BY <1>1, <1>2 DEF LogInv, TypeOK
  <2> QED BY <1>1, <1>2, <1>3, <2>1 DEF LogKnows, Critical
<1>6. ASSUME NEW u \in Threads, u # t PROVE LogKnows(u)'
  BY <1>1, <1>2, <1>6, OtherThreads DEF LogInv, TypeOK
<1> QED BY <1>3, <1>4, <1>5, <1>6 DEF LogInv

(* The bytes written end where the record does, which the rewind has made  *)
(* room for.                                                               *)
LEMMA PwriteKeeps ==
  ASSUME LogInv, NEW t \in Threads, Pwrite(t)
  PROVE  LogInv'
<1>1. /\ file_mutex = t /\ fp /\ record[t] \in Records /\ buffer = record[t]
      /\ LengthOf[record[t]] \in 1 .. WRITE_BUF_SIZE - 1 /\ pc[t] = "write"
      /\ \/ file_size + log_offset + LengthOf[record[t]] < max_size
         \/ file_size = 0 /\ log_offset = 0
  BY DEF Pwrite, LogInv, LogKnows, Critical
<1>2. /\ file_size \in Nat /\ log_offset \in Nat /\ max_size \in Nat
      /\ total[t] \in Nat /\ file \in Seq(Chars) /\ WRITE_BUF_SIZE \in Nat
      /\ LengthOf[record[t]] \in Nat
  BY <1>1, ConstantsAssumption DEF LogInv, TypeOK, Chars
<1>3. PICK n \in 1 .. LengthOf[record[t]] - total[t] :
        /\ file' = Written([k \in 1 .. n |-> Byte(buffer, total[t] + k)],
                           file_size + log_offset + total[t])
        /\ total' = [total EXCEPT ![t] = total[t] + n]
  BY DEF Pwrite
<1>4. UNCHANGED <<log_level, fp, max_size, old_size, file_size, log_offset, start, lap,
                  buffer, file_mutex, pc, record>>
  BY DEF Pwrite, setting, place
<1> DEFINE bytes == [k \in 1 .. n |-> Byte(buffer, total[t] + k)]
           offset == file_size + log_offset + total[t]
<1>5. n \in Nat /\ total[t] + n <= LengthOf[record[t]] /\ total[t] + n \in 0 .. WRITE_BUF_SIZE - 1
  BY <1>1, <1>2
<1>6. bytes \in Seq(Chars) /\ Len(bytes) = n /\ offset \in Nat /\ Zero \in Chars
  <2>1. \A k \in 1 .. n : Byte(buffer, total[t] + k) \in Chars
    <3> TAKE k \in 1 .. n
    <3>1. buffer \in Records /\ total[t] + k \in 1 .. WRITE_BUF_SIZE - 1
      BY <1>1, <1>2, <1>5
    <3>2. \A r \in Records, m \in 1 .. WRITE_BUF_SIZE - 1 : Byte(r, m) \in Chars
      BY DEF Chars
    <3> HIDE DEF bytes, offset
    <3> QED BY <3>1, <3>2
  <2>2. bytes \in [1 .. n -> Chars]
    BY <2>1
  <2>3. bytes \in Seq(Chars) /\ Len(bytes) = n
    <3> HIDE DEF bytes
    <3> QED BY <1>5, <2>2
  <2>4. offset \in Nat
    BY <1>2
  <2>5. Zero \in Chars
    BY DEF Chars
  <2> QED BY <2>3, <2>4, <2>5
<1>7. /\ file' \in Seq(Chars)
      /\ Len(file') = IF offset + n > Len(file) THEN offset + n ELSE Len(file)
  <2> HIDE DEF bytes, offset
  <2>1. file' = Written(bytes, offset)
    BY <1>3 DEF bytes, offset
  <2> QED BY <1>2, <1>6, <2>1, WrittenIs
<1>8. SizeBound'
  <2>1. CASE Len(file') = Len(file)
    BY <1>4, <2>1 DEF LogInv, SizeBound
  <2>2. CASE Len(file') = offset + n
    <3>1. offset + n < max_size \/ offset + n < WRITE_BUF_SIZE
      BY <1>1, <1>2, <1>5
    <3> QED BY <1>4, <2>2, <3>1 DEF SizeBound
  <2> QED BY <1>7, <2>1, <2>2
<1>9. TypeOK'
  <2>1. total' \in [Threads -> 0 .. WRITE_BUF_SIZE - 1]
    BY <1>3, <1>5 DEF LogInv, TypeOK
  <2> QED BY <1>4, <1>7, <2>1 DEF LogInv, TypeOK, Chars
<1>10. LogKnows(t)'
  <2>1. total'[t] = total[t] + n
    BY <1>3 DEF LogInv, TypeOK
  <2> QED BY <1>1, <1>4, <1>5, <2>1 DEF LogKnows, Critical
<1>11. ASSUME NEW u \in Threads, u # t PROVE LogKnows(u)'
  BY <1>1, <1>3, <1>4, <1>11, OtherThreads DEF LogInv, TypeOK
<1> QED BY <1>8, <1>9, <1>10, <1>11 DEF LogInv

LEMMA LeaveKeeps ==
  ASSUME LogInv, NEW t \in Threads, PwriteFails(t) \/ Advance(t)
  PROVE  LogInv'
<1>1. /\ file_mutex = t /\ fp /\ record[t] \in Records /\ total[t] \in Nat
  BY ConstantsAssumption DEF PwriteFails, Advance, LogInv, LogKnows, Critical, TypeOK
<1>2. /\ pc' = [pc EXCEPT ![t] = "unlock"]
      /\ UNCHANGED <<log_level, fp, max_size, old_size, file_size, start, buffer,
                     file_mutex, file, record, total>>
  BY DEF PwriteFails, Advance, Goto, setting, place
<1>3. log_offset' \in Nat /\ lap' \in Seq(Records)
  <2>1. log_offset \in Nat /\ lap \in Seq(Records)
    BY DEF LogInv, TypeOK
  <2>2. CASE PwriteFails(t)
    BY <2>1, <2>2 DEF PwriteFails, place
  <2>3. CASE Advance(t)
    BY <1>1, <2>1, <2>3 DEF Advance
  <2> QED BY <2>2, <2>3
<1>4. TypeOK' /\ SizeBound'
  BY <1>2, <1>3 DEF LogInv, TypeOK, SizeBound
<1>5. LogKnows(t)'
  <2>1. pc'[t] = "unlock"
    BY <1>2 DEF LogInv, TypeOK
  <2> QED BY <1>1, <1>2, <2>1 DEF LogKnows, Critical
<1>6. ASSUME NEW u \in Threads, u # t PROVE LogKnows(u)'
  BY <1>1, <1>2, <1>6, OtherThreads DEF LogInv, TypeOK
<1> QED BY <1>4, <1>5, <1>6 DEF LogInv

-----------------------------------------------------------------------------
(* The inductive invariant: what a thread of log_printf knows while it     *)
(* holds file_mutex.                                                       *)
THEOREM LogInvariant == Spec => []LogInv
<1>1. LogInv /\ [Next]_vars => LogInv'
  <2> SUFFICES ASSUME LogInv, [Next]_vars PROVE LogInv'
    OBVIOUS
  <2>1. ASSUME NEW t \in Threads, log_printf(t) PROVE LogInv'
    BY <2>1, BeginKeeps, LockKeeps, FormatKeeps, RewindKeeps, PwriteKeeps, LeaveKeeps,
       UnlockKeeps DEF log_printf
  <2>2. CASE UNCHANGED vars
    BY <2>2 DEF vars, setting, place, LogInv, LogKnows, TypeOK, SizeBound
  <2> QED BY <2>1, <2>2, SettingKeeps, DisableKeeps DEF Next
<1> QED BY <1>1, InitLog, PTL DEF Spec

(* log_util.c's state keeps its types: no more of a record is written than *)
(* the buffer holds.                                                       *)
THEOREM TypeCorrect == Spec => []TypeOK
BY LogInvariant, PTL DEF LogInv

(* The file does not grow past what it was, max_size or one record.        *)
THEOREM FileIsBounded == Spec => []SizeBound
BY LogInvariant, PTL DEF LogInv

-----------------------------------------------------------------------------
(* The records of a lap.                                                   *)

(* Where the next record goes.                                             *)
Place == file_size + log_offset

(* The lap lies in the file up to that place, and behind it what the       *)
(* thread that writes has written; no lap begins without a file.           *)
LapInv ==
  /\ LapIntact
  /\ start <= Place /\ Place <= Len(file)
  /\ ~fp => log_offset = 0 /\ lap = <<>>
  /\ \A t \in Threads : pc[t] = "write" =>
       /\ Place + total[t] <= Len(file)
       /\ \A k \in 1 .. total[t] : file[Place + k] = Byte(record[t], k)

(* What pwrite leaves in the file, byte by byte.                           *)
LEMMA WrittenHolds ==
  ASSUME NEW bytes, NEW offset \in Nat, Len(bytes) \in Nat, Len(file) \in Nat
  PROVE  LET end == offset + Len(bytes)
         IN \A k \in 1 .. IF end > Len(file) THEN end ELSE Len(file) :
              Written(bytes, offset)[k] =
                IF k \in offset + 1 .. end THEN bytes[k - offset]
                ELSE IF k <= Len(file) THEN file[k] ELSE Zero
BY DEF Written

(* A part of a sequence, position by position.                             *)
LEMMA PartIs ==
  ASSUME NEW S, NEW s \in Seq(S), NEW m \in Nat, NEW n \in Nat, m <= n, n <= Len(s)
  PROVE  /\ SubSeq(s, m + 1, n) \in Seq(S)
         /\ Len(SubSeq(s, m + 1, n)) = n - m
         /\ \A k \in 1 .. n - m : SubSeq(s, m + 1, n)[k] = s[m + k]
OBVIOUS

(* A sequence lies in another one behind a place.                          *)
Behind(t, s, n) == n + Len(t) <= Len(s) /\ \A k \in 1 .. Len(t) : s[n + k] = t[k]

(* The part that ends behind it is the part before it with it appended.    *)
Grown(s, m, n, t) == SubSeq(s, m + 1, n + Len(t)) = SubSeq(s, m + 1, n) \o t

(* A longer part is the shorter one and what lies behind it.               *)
LEMMA PartGrows ==
  ASSUME NEW S, NEW s \in Seq(S), NEW m \in Nat, NEW n \in Nat, m <= n,
         NEW t \in Seq(S), Behind(t, s, n)
  PROVE  Grown(s, m, n, t)
<1> DEFINE a == SubSeq(s, m + 1, n)
           b == SubSeq(s, m + 1, n + Len(t))
<1>1. /\ Len(t) \in Nat /\ Len(s) \in Nat /\ n <= Len(s) /\ m <= n + Len(t)
      /\ n + Len(t) <= Len(s) /\ \A k \in 1 .. Len(t) : s[n + k] = t[k]
  BY DEF Behind
<1>2. a \in Seq(S) /\ Len(a) = n - m /\ \A k \in 1 .. n - m : a[k] = s[m + k]
  BY <1>1, PartIs
<1>3. PICK e \in Nat : e = n + Len(t)
  BY <1>1
<1>4. /\ b \in Seq(S) /\ Len(b) = e - m
      /\ \A k \in 1 .. e - m : b[k] = s[m + k]
  BY <1>1, <1>3, PartIs
<1> HIDE DEF a, b
<1>5. /\ a \o t \in Seq(S) /\ Len(a \o t) = Len(a) + Len(t)
      /\ \A k \in 1 .. Len(a) + Len(t) :
           (a \o t)[k] = IF k <= Len(a) THEN a[k] ELSE t[k - Len(a)]
  <2>1. a \o t \in Seq(S) /\ Len(a \o t) = Len(a) + Len(t)
    BY <1>2, ConcatProperties
  <2>2. \A k \in 1 .. Len(a) + Len(t) :
          (a \o t)[k] = IF k <= Len(a) THEN a[k] ELSE t[k - Len(a)]
    BY <1>2
  <2> QED BY <2>1, <2>2
<1>6. Len(b) = Len(a \o t)
  BY <1>1, <1>2, <1>3, <1>4, <1>5
<1>7. ASSUME NEW k \in 1 .. Len(b) PROVE b[k] = (a \o t)[k]
  <2>1. k \in Nat /\ 1 <= k /\ k <= e - m /\ b[k] = s[m + k]
    BY <1>4, <1>7
  <2>2. CASE k <= n - m
    BY <1>1, <1>2, <1>3, <1>5, <2>1, <2>2
  <2>3. CASE k > n - m
    <3>1. k - (n - m) \in 1 .. Len(t) /\ n + (k - (n - m)) = m + k
      BY <1>1, <1>3, <2>1, <2>3
    <3>2. s[m + k] = t[k - (n - m)]
      BY <1>1, <3>1
    <3> QED BY <1>1, <1>2, <1>3, <1>5, <2>1, <2>3, <3>2
  <2>4. k <= n - m \/ k > n - m
    BY <2>1
  <2> QED BY <2>2, <2>3, <2>4
<1>8. b = a \o t
  BY <1>4, <1>5, <1>6, <1>7, SeqEqual
<1> QED BY <1>8 DEF a, b, Grown

(* Two files that agree up to a place have the same parts there.           *)
LEMMA PartStays ==
  ASSUME NEW S, NEW s \in Seq(S), NEW u \in Seq(S), NEW m \in Nat, NEW n \in Nat,
         m <= n, n <= Len(s), n <= Len(u), \A k \in 1 .. n : u[k] = s[k]
  PROVE  SubSeq(u, m + 1, n) = SubSeq(s, m + 1, n)
<1> DEFINE a == SubSeq(s, m + 1, n)
           b == SubSeq(u, m + 1, n)
<1>1. /\ a \in Seq(S) /\ Len(a) = n - m /\ \A k \in 1 .. n - m : a[k] = s[m + k]
      /\ b \in Seq(S) /\ Len(b) = n - m /\ \A k \in 1 .. n - m : b[k] = u[m + k]
  BY PartIs
<1> HIDE DEF a, b
<1>2. \A k \in 1 .. n - m : m + k \in 1 .. n
  OBVIOUS
<1>3. \A k \in 1 .. n - m : a[k] = b[k]
  BY <1>1, <1>2
<1>4. a = b
  BY <1>1, <1>3, SeqEqual
<1> QED BY <1>4 DEF a, b

(* The bytes of the records of a lap.                                      *)
LapBytes == [k \in DOMAIN lap |-> Bytes(lap[k])]

AllBytes == Chars \cup {Byte(r, k) : r \in Records, k \in Nat}

LEMMA BytesAre ==
  ASSUME NEW r \in Records
  PROVE  /\ Bytes(r) \in Seq(AllBytes) /\ Len(Bytes(r)) = LengthOf[r]
         /\ \A k \in 1 .. LengthOf[r] : Bytes(r)[k] = Byte(r, k)
<1>1. LengthOf[r] \in Nat
  BY ConstantsAssumption
<1>2. \A k \in 1 .. LengthOf[r] : Byte(r, k) \in AllBytes
  BY <1>1 DEF AllBytes
<1>3. Bytes(r) \in [1 .. LengthOf[r] -> AllBytes]
  BY <1>2 DEF Bytes
<1>4. \A k \in 1 .. LengthOf[r] : Bytes(r)[k] = Byte(r, k)
  BY DEF Bytes
<1> HIDE DEF Bytes
<1> QED BY <1>1, <1>3, <1>4

LEMMA LapBytesAre ==
  ASSUME lap \in Seq(Records)
  PROVE  LapBytes \in Seq(Seq(AllBytes)) /\ (lap = <<>> => LapBytes = <<>>)
<1>1. DOMAIN lap = 1 .. Len(lap) /\ Len(lap) \in Nat
  OBVIOUS
<1>2. \A k \in 1 .. Len(lap) : Bytes(lap[k]) \in Seq(AllBytes)
  BY BytesAre
<1>3. LapBytes \in [1 .. Len(lap) -> Seq(AllBytes)]
  BY <1>1, <1>2 DEF LapBytes
<1>4. LapBytes \in Seq(Seq(AllBytes)) /\ Len(LapBytes) = Len(lap)
  <2> HIDE DEF LapBytes
  <2> QED BY <1>1, <1>3
<1> QED BY <1>4

(* A record more in the lap.                                               *)
LEMMA LapBytesGrow ==
  ASSUME lap \in Seq(Records), NEW r \in Records, lap' = Append(lap, r)
  PROVE  LapBytes' = Append(LapBytes, Bytes(r))
<1> DEFINE n == Len(lap)
           a == Append(LapBytes, Bytes(r))
<1>1. /\ n \in Nat /\ DOMAIN lap = 1 .. n /\ DOMAIN lap' = 1 .. n + 1
      /\ lap'[n + 1] = r /\ \A k \in 1 .. n : lap'[k] = lap[k]
  OBVIOUS
<1>2. LapBytes \in Seq(Seq(AllBytes)) /\ Len(LapBytes) = n
  <2>1. LapBytes \in Seq(Seq(AllBytes)) /\ DOMAIN LapBytes = 1 .. n
    BY <1>1, LapBytesAre DEF LapBytes
  <2> QED BY <1>1, <2>1
<1>3. /\ a \in Seq(Seq(AllBytes)) /\ Len(a) = n + 1 /\ a[n + 1] = Bytes(r)
      /\ \A k \in 1 .. n : a[k] = LapBytes[k]
  <2> HIDE DEF LapBytes
  <2> QED BY <1>1, <1>2, BytesAre
<1>4. LapBytes' = [k \in 1 .. n + 1 |-> Bytes(lap'[k])]
  BY <1>1 DEF LapBytes, Bytes
<1>5. \A k \in 1 .. n : LapBytes[k] = Bytes(lap[k])
  BY <1>1 DEF LapBytes
<1>6. \A k \in 1 .. n + 1 : a[k] = Bytes(lap'[k])
  <2> TAKE k \in 1 .. n + 1
  <2>1. k \in 1 .. n \/ k = n + 1
    BY <1>1
  <2> QED BY <1>1, <1>3, <1>5, <2>1
<1> HIDE DEF a
<1>7. DOMAIN a = 1 .. n + 1 /\ a = [k \in 1 .. n + 1 |-> a[k]]
  BY <1>1, <1>3
<1>8. a = [k \in 1 .. n + 1 |-> Bytes(lap'[k])]
  BY <1>6, <1>7
<1> QED BY <1>4, <1>8 DEF a

(* The thread that holds the mutex is the only one that writes.            *)
LEMMA OneWrites ==
  ASSUME LogInv, NEW t \in Threads, pc[t] \in Critical, NEW u \in Threads, u # t
  PROVE  pc[u] \notin Critical
BY DEF LogInv, LogKnows

LEMMA LapFacts ==
  ASSUME LogInv
  PROVE  /\ file \in Seq(AllBytes) /\ Len(file) \in Nat /\ lap \in Seq(Records)
         /\ start \in Nat /\ Place \in Nat /\ file_size \in Nat /\ log_offset \in Nat
         /\ DOMAIN pc = Threads /\ DOMAIN total = Threads
         /\ \A t \in Threads : total[t] \in Nat
<1>1. /\ file \in Seq(Chars) /\ lap \in Seq(Records) /\ start \in Nat
      /\ file_size \in Nat /\ log_offset \in Nat
      /\ DOMAIN pc = Threads /\ DOMAIN total = Threads
      /\ \A t \in Threads : total[t] \in 0 .. WRITE_BUF_SIZE - 1
  BY DEF LogInv, TypeOK, Chars
<1>2. Chars \subseteq AllBytes
  BY DEF AllBytes
<1>3. file \in Seq(AllBytes)
  <2>1. /\ DOMAIN file = 1 .. Len(file) /\ Len(file) \in Nat
        /\ \A k \in 1 .. Len(file) : file[k] \in AllBytes
        /\ file = [k \in 1 .. Len(file) |-> file[k]]
    BY <1>1, <1>2
  <2>2. file \in [1 .. Len(file) -> AllBytes]
    BY <2>1
  <2> QED BY <2>1, <2>2
<1> QED BY <1>1, <1>3, ConstantsAssumption DEF Place

LEMMA LapIs == LapIntact <=> SubSeq(file, start + 1, Place) = FlattenSeq(LapBytes)
BY DEF LapIntact, Place, LapBytes

(* A step that moves neither the file nor the place keeps the lap.         *)
LEMMA LapStays ==
  ASSUME LogInv, LapInv, UNCHANGED <<file, place>>, fp => fp',
         \A t \in Threads : pc'[t] = "write" =>
            \/ total'[t] = 0
            \/ pc[t] = "write" /\ total'[t] = total[t] /\ record'[t] = record[t]
  PROVE  LapInv'
<1>1. /\ file' = file /\ file_size' = file_size /\ log_offset' = log_offset
      /\ start' = start /\ lap' = lap
  BY DEF place
<1>2. Place' = Place
  BY <1>1 DEF Place
<1>3. LapIntact'
  <2>1. LapBytes' = LapBytes
    BY <1>1 DEF LapBytes, Bytes
  <2>2. SubSeq(file', start' + 1, Place') = FlattenSeq(LapBytes')
    BY <1>1, <1>2, <2>1, LapIs DEF LapInv
  <2> QED BY <2>2 DEF LapIntact, Place, LapBytes
<1>4. ASSUME NEW t \in Threads, pc'[t] = "write"
      PROVE  /\ Place + total'[t] <= Len(file)
             /\ \A k \in 1 .. total'[t] : file[Place + k] = Byte(record'[t], k)
  <2>1. CASE total'[t] = 0
    BY <2>1, LapFacts DEF LapInv
  <2>2. CASE total'[t] # 0
    BY <1>4, <2>2 DEF LapInv
  <2> QED BY <2>1, <2>2
<1> QED BY <1>1, <1>2, <1>3, <1>4 DEF LapInv

LEMMA SettingLap ==
  ASSUME LogInv, LapInv, NEW level \in Levels, NEW max \in MaxSizes, NEW size \in OldSizes,
         Setting(level, max, size)
  PROVE  LapInv'
<1>1. ~fp /\ size \in Nat /\ log_offset = 0 /\ lap = <<>>
  BY ConstantsAssumption DEF Setting, LapInv
<1>2. \A t \in Threads : pc[t] # "write"
  BY <1>1 DEF LogInv, LogKnows
<1>3. UNCHANGED <<pc, record, total>>
  BY DEF Setting
<1>4. CASE UNCHANGED <<fp, max_size, old_size, place, file>>
  BY <1>2, <1>3, <1>4, LapStays
<1>5. CASE /\ fp' = TRUE /\ file' = [k \in 1 .. size |-> Old]
           /\ file_size' = size /\ start' = size
           /\ UNCHANGED <<log_offset, lap>>
  <2>1. Place' = size /\ file' \in Seq(AllBytes) /\ Len(file') = size
    BY <1>1, <1>5 DEF Place, AllBytes, Chars
  <2>2. LapBytes' = <<>>
    BY <1>1, <1>5 DEF LapBytes
  <2>3. SubSeq(file', size + 1, size) = <<>>
    BY <1>1, <2>1
  <2>4. FlattenSeq(<<>>) = <<>>
    BY FlattenAppend, EmptySeq
  <2>5. LapIntact'
    BY <1>5, <2>1, <2>2, <2>3, <2>4 DEF LapIntact, Place, LapBytes
  <2> QED BY <1>1, <1>2, <1>3, <1>5, <2>1, <2>5 DEF LapInv
<1> QED BY <1>4, <1>5 DEF Setting

LEMMA RewindLap ==
  ASSUME LogInv, LapInv, NEW t \in Threads, Rewind(t)
  PROVE  LapInv'
<1>1. /\ pc[t] = "place" /\ total[t] = 0 /\ \A u \in Threads : pc[u] # "write"
  BY OneWrites DEF Rewind, LogInv, LogKnows, Critical
<1>2. /\ pc' = [pc EXCEPT ![t] = "write"] /\ UNCHANGED <<fp, file, record, total>>
  BY DEF Rewind, Goto, setting
<1>3. \A u \in Threads : pc'[u] = "write" => total'[u] = 0
  BY <1>1, <1>2, LapFacts
<1>4. CASE UNCHANGED place
  BY <1>2, <1>3, <1>4, LapStays
<1>5. CASE file_size' = 0 /\ log_offset' = 0 /\ start' = 0 /\ lap' = <<>>
  <2>1. Place' = 0 /\ Len(file) \in Nat /\ file' \in Seq(AllBytes)
    BY <1>2, <1>5, LapFacts DEF Place
  <2>2. LapBytes' = <<>>
    BY <1>5 DEF LapBytes
  <2>3. SubSeq(file', 0 + 1, 0) = <<>>
    BY <2>1
  <2>4. FlattenSeq(<<>>) = <<>>
    BY FlattenAppend, EmptySeq
  <2>5. SubSeq(file', start' + 1, Place') = FlattenSeq(LapBytes')
    BY <1>5, <2>1, <2>2, <2>3, <2>4
  <2>6. LapIntact'
    BY <2>5 DEF LapIntact, Place, LapBytes
  <2> QED BY <1>2, <1>3, <1>5, <2>1, <2>6 DEF LapInv
<1> QED BY <1>4, <1>5 DEF Rewind

(* A turn of full_pwrite writes behind the lap.                            *)
LEMMA PwriteLap ==
  ASSUME LogInv, LapInv, NEW t \in Threads, Pwrite(t)
  PROVE  LapInv'
<1>1. /\ pc[t] = "write" /\ record[t] \in Records /\ buffer = record[t]
      /\ LengthOf[record[t]] \in Nat /\ total[t] \in Nat
      /\ \A u \in Threads : u # t => pc[u] # "write"
  BY OneWrites, LapFacts, ConstantsAssumption DEF Pwrite, LogInv, LogKnows, Critical
<1>2. PICK n \in 1 .. LengthOf[record[t]] - total[t] :
        /\ file' = Written([k \in 1 .. n |-> Byte(buffer, total[t] + k)],
                           file_size + log_offset + total[t])
        /\ total' = [total EXCEPT ![t] = total[t] + n]
  BY DEF Pwrite
<1>3. UNCHANGED <<fp, place, pc, record>>
  BY DEF Pwrite, setting
<1> DEFINE bytes == [k \in 1 .. n |-> Byte(buffer, total[t] + k)]
           offset == Place + total[t]
<1>4. /\ file \in Seq(AllBytes) /\ Len(file) \in Nat /\ Place \in Nat /\ start \in Nat
      /\ n \in Nat /\ offset \in Nat /\ total'[t] = total[t] + n
  BY <1>1, <1>2, LapFacts
<1>5. /\ bytes \in Seq(AllBytes) /\ Len(bytes) = n /\ Zero \in AllBytes
      /\ \A k \in 1 .. n : bytes[k] = Byte(record[t], total[t] + k)
  <2>1. \A k \in 1 .. n : total[t] + k \in Nat
    BY <1>1, <1>4
  <2>2. \A k \in 1 .. n : Byte(buffer, total[t] + k) \in AllBytes
    BY <1>1, <2>1 DEF AllBytes
  <2>3. bytes \in [1 .. n -> AllBytes]
    BY <2>2
  <2>4. \A k \in 1 .. n : bytes[k] = Byte(record[t], total[t] + k)
    BY <1>1
  <2>5. Zero \in AllBytes
    BY DEF AllBytes, Chars
  <2> HIDE DEF bytes
  <2> QED BY <1>4, <2>3, <2>4, <2>5
<1>6. file' = Written(bytes, offset)
  BY <1>2 DEF Place
<1> HIDE DEF bytes
<1>7. /\ file' \in Seq(AllBytes)
      /\ Len(file') = IF offset + n > Len(file) THEN offset + n ELSE Len(file)
      /\ \A k \in 1 .. Len(file') :
           file'[k] = IF k \in offset + 1 .. offset + n THEN bytes[k - offset]
                      ELSE IF k <= Len(file) THEN file[k] ELSE Zero
  <2> HIDE DEF offset
  <2>1. /\ Written(bytes, offset) \in Seq(AllBytes)
        /\ Len(Written(bytes, offset)) = IF offset + n > Len(file) THEN offset + n
                                         ELSE Len(file)
    BY <1>4, <1>5, WrittenIs
  <2>2. \A k \in 1 .. IF offset + n > Len(file) THEN offset + n ELSE Len(file) :
          Written(bytes, offset)[k] =
            IF k \in offset + 1 .. offset + n THEN bytes[k - offset]
            ELSE IF k <= Len(file) THEN file[k] ELSE Zero
    BY <1>4, <1>5, WrittenHolds
  <2> QED BY <1>6, <2>1, <2>2
<1>8. /\ start <= Place /\ Place + total[t] <= Len(file)
      /\ \A k \in 1 .. total[t] : file[Place + k] = Byte(record[t], k)
  BY <1>1 DEF LapInv
<1>9. /\ Place + total[t] + n <= Len(file') /\ Place <= Len(file) /\ Place <= Len(file')
      /\ \A k \in 1 .. Place + total[t] : file'[k] = file[k]
  <2>1. /\ offset + n <= Len(file') /\ Len(file) <= Len(file') /\ Len(file') \in Nat
        /\ offset = Place + total[t]
    BY <1>4, <1>7
  <2>2. ASSUME NEW k \in 1 .. Place + total[t] PROVE file'[k] = file[k]
    <3>1. /\ k \in 1 .. Len(file') /\ k <= Len(file) /\ k \notin offset + 1 .. offset + n
      BY <1>1, <1>4, <1>8, <2>1
    <3> QED BY <1>7, <3>1
  <2> QED BY <1>1, <1>4, <1>8, <2>1, <2>2
<1>10. \A k \in 1 .. total[t] + n : file'[Place + k] = Byte(record[t], k)
  <2> TAKE k \in 1 .. total[t] + n
  <2>0. Len(file') \in Nat
    BY <1>7
  <2>1. CASE k <= total[t]
    <3>1. k \in 1 .. total[t] /\ Place + k \in 1 .. Place + total[t]
      BY <1>1, <1>4, <2>1
    <3> QED BY <1>8, <1>9, <3>1
  <2>2. CASE k > total[t]
    <3>1. /\ k - total[t] \in 1 .. n /\ total[t] + (k - total[t]) = k
          /\ Place + k \in offset + 1 .. offset + n
          /\ (Place + k) - offset = k - total[t]
      <4>1. PICK m \in Nat, p \in Nat : m = total[t] /\ p = Place
        BY <1>1, <1>4
      <4>2. k \in Nat /\ n \in Nat /\ m < k /\ k <= m + n
        BY <1>4, <2>2, <4>1
      <4>3. k - m \in 1 .. n /\ m + (k - m) = k
        BY <4>1, <4>2
      <4>4. p + k \in p + m + 1 .. p + m + n /\ (p + k) - (p + m) = k - m
        BY <4>1, <4>2
      <4> QED BY <4>1, <4>3, <4>4
    <3>2. Place + k \in 1 .. Len(file')
      BY <1>1, <1>4, <1>9, <2>0
    <3>3. file'[Place + k] = bytes[k - total[t]]
      BY <1>7, <3>1, <3>2
    <3> QED BY <1>5, <3>1, <3>3
  <2>3. k <= total[t] \/ k > total[t]
    BY <1>1, <1>4
  <2> QED BY <2>1, <2>2, <2>3
<1>11. /\ file_size' = file_size /\ log_offset' = log_offset /\ start' = start
       /\ lap' = lap /\ Place' = Place
  BY <1>3 DEF place, Place
<1>12. LapIntact'
  <2>1. SubSeq(file', start + 1, Place) = SubSeq(file, start + 1, Place)
    <3>1. \A k \in 1 .. Place : file'[k] = file[k]
      BY <1>1, <1>4, <1>9
    <3>2. PICK f \in Seq(AllBytes) : f = file'
      BY <1>7
    <3>3. PICK m \in Nat, p \in Nat : m = start /\ p = Place
      BY <1>1, <1>4
    <3>4. m <= p /\ p <= Len(file) /\ p <= Len(f) /\ file \in Seq(AllBytes)
      BY <1>1, <1>4, <1>8, <1>9, <3>2, <3>3
    <3>5. \A k \in 1 .. p : f[k] = file[k]
      BY <3>1, <3>2, <3>3
    <3>6. SubSeq(f, m + 1, p) = SubSeq(file, m + 1, p)
      BY <3>4, <3>5, PartStays
    <3> QED BY <3>2, <3>3, <3>6
  <2>2. LapBytes' = LapBytes
    BY <1>11 DEF LapBytes, Bytes
  <2>3. SubSeq(file', start' + 1, Place') = FlattenSeq(LapBytes')
    BY <1>11, <2>1, <2>2, LapIs DEF LapInv
  <2> QED BY <2>3 DEF LapIntact, Place, LapBytes
<1>13. ASSUME NEW u \in Threads, pc'[u] = "write"
       PROVE  /\ Place' + total'[u] <= Len(file')
              /\ \A k \in 1 .. total'[u] : file'[Place' + k] = Byte(record'[u], k)
  <2>1. u = t
    BY <1>1, <1>3, <1>13
  <2>2. Place' + total'[t] <= Len(file')
    BY <1>1, <1>4, <1>9, <1>11
  <2> QED BY <1>3, <1>4, <1>10, <1>11, <2>1, <2>2
<1> QED BY <1>3, <1>8, <1>9, <1>11, <1>12, <1>13 DEF LapInv

(* A record that is written whole becomes the last of the lap.             *)
LEMMA AdvanceLap ==
  ASSUME LogInv, LapInv, NEW t \in Threads, Advance(t)
  PROVE  LapInv'
<1> DEFINE r == record[t]
           n == LengthOf[r]
<1>1. /\ pc[t] = "write" /\ r \in Records /\ total[t] = n /\ n \in Nat
      /\ \A u \in Threads : u # t => pc[u] # "write"
  BY OneWrites, ConstantsAssumption DEF Advance, LogInv, LogKnows, Critical
<1>2. /\ log_offset' = log_offset + n /\ lap' = Append(lap, r)
      /\ pc' = [pc EXCEPT ![t] = "unlock"]
      /\ UNCHANGED <<fp, file_size, start, file, record, total>>
  BY <1>1 DEF Advance, Goto, setting
<1> HIDE DEF n
<1>3. /\ file \in Seq(AllBytes) /\ Len(file) \in Nat /\ Place \in Nat /\ start \in Nat
      /\ lap \in Seq(Records) /\ Place' = Place + n /\ DOMAIN pc = Threads
  BY <1>1, <1>2, LapFacts DEF Place
<1>4. /\ start <= Place /\ Place + n <= Len(file) /\ fp
      /\ \A k \in 1 .. n : file[Place + k] = Byte(r, k)
  BY <1>1 DEF LapInv, LogInv, LogKnows
<1>5. SubSeq(file, start + 1, Place + n) = SubSeq(file, start + 1, Place) \o Bytes(r)
  <2>1. /\ Bytes(r) \in Seq(AllBytes) /\ Len(Bytes(r)) = n
        /\ \A k \in 1 .. n : Bytes(r)[k] = Byte(r, k)
    BY <1>1, BytesAre DEF n
  <2>2. PICK b \in Seq(AllBytes) : b = Bytes(r)
    BY <2>1
  <2>3. /\ Place + Len(b) <= Len(file) /\ Len(b) = n
        /\ \A k \in 1 .. Len(b) : file[Place + k] = b[k]
    BY <1>4, <2>1, <2>2
  <2>4. SubSeq(file, start + 1, Place + Len(b)) = SubSeq(file, start + 1, Place) \o b
    <3>1. Behind(b, file, Place)
      BY <2>3 DEF Behind
    <3>2. Grown(file, start, Place, b)
      BY <1>3, <1>4, <3>1, PartGrows
    <3> QED BY <3>2 DEF Grown
  <2> QED BY <2>2, <2>3, <2>4
<1>6. FlattenSeq(LapBytes') = FlattenSeq(LapBytes) \o Bytes(r)
  <2>1. LapBytes \in Seq(Seq(AllBytes)) /\ Bytes(r) \in Seq(AllBytes)
    BY <1>1, <1>3, LapBytesAre, BytesAre
  <2>2. LapBytes' = Append(LapBytes, Bytes(r))
    BY <1>1, <1>2, <1>3, LapBytesGrow
  <2> QED BY <2>1, <2>2, FlattenAppend
<1>7. SubSeq(file', start' + 1, Place') = FlattenSeq(LapBytes')
  BY <1>2, <1>3, <1>5, <1>6, LapIs DEF LapInv
<1>8. LapIntact'
  BY <1>7 DEF LapIntact, Place, LapBytes
<1>9. \A u \in Threads : pc'[u] # "write"
  BY <1>1, <1>2, <1>3
<1>10. start' <= Place' /\ Place' <= Len(file') /\ fp'
  BY <1>1, <1>2, <1>3, <1>4
<1> QED BY <1>8, <1>9, <1>10 DEF LapInv

(* The other steps move neither.                                           *)
LEMMA QuietLap ==
  ASSUME LogInv, LapInv, NEW t \in Threads,
         \/ \E r \in Records : Begin(t, r)
         \/ Lock(t) \/ Format(t) \/ PwriteFails(t) \/ Unlock(t)
  PROVE  LapInv'
<1>1. UNCHANGED <<fp, file, place>>
  BY DEF Begin, Lock, Format, PwriteFails, Unlock, setting
<1>2. PICK next : next # "write" /\ pc' = [pc EXCEPT ![t] = next]
  <2>1. ASSUME Format(t) PROVE \E next : next # "write" /\ pc' = [pc EXCEPT ![t] = next]
    <3>1. \E r : pc' = [pc EXCEPT ![t] = IF LengthOf[r] \in 1 .. WRITE_BUF_SIZE - 1
                                          THEN "place" ELSE "unlock"]
      BY <2>1 DEF Format, Goto
    <3>2. pc' = [pc EXCEPT ![t] = "place"] \/ pc' = [pc EXCEPT ![t] = "unlock"]
      BY <3>1
    <3> QED BY <3>2
  <2> QED BY <2>1 DEF Begin, Lock, PwriteFails, Unlock, Goto
<1>3. \A u \in Threads : u # t => record'[u] = record[u] /\ total'[u] = total[u]
  BY DEF Begin, Lock, Format, PwriteFails, Unlock, LogInv, TypeOK
<1>4. \A u \in Threads : pc'[u] = "write" => u # t /\ pc[u] = "write"
  BY <1>2, LapFacts
<1> QED BY <1>1, <1>3, <1>4, LapStays

LEMMA InitLap == Init => LapInv
<1> SUFFICES ASSUME Init PROVE LapInv
  OBVIOUS
<1>1. file = <<>> /\ start = 0 /\ Place = 0 /\ log_offset = 0 /\ lap = <<>>
  BY DEF Init, Place
<1>2. SubSeq(file, 0 + 1, 0) = <<>> /\ LapBytes = <<>> /\ Len(file) = 0
  BY <1>1 DEF LapBytes
<1>3. FlattenSeq(<<>>) = <<>>
  BY FlattenAppend, EmptySeq
<1>4. LapIntact
  <2>1. SubSeq(file, start + 1, Place) = FlattenSeq(LapBytes)
    BY <1>1, <1>2, <1>3
  <2> QED BY <2>1, LapIs
<1>5. \A t \in Threads : pc[t] # "write"
  BY DEF Init
<1> QED BY <1>1, <1>2, <1>4, <1>5 DEF LapInv

(* The inductive invariant of the file: the lap lies in it, and what is    *)
(* being written comes behind it (log_printf, full_pwrite).                *)
THEOREM LapInvariant == Spec => [](LogInv /\ LapInv)
<1>1. LogInv /\ LapInv /\ [Next]_vars => LapInv'
  <2> SUFFICES ASSUME LogInv, LapInv, [Next]_vars PROVE LapInv'
    OBVIOUS
  <2>1. ASSUME NEW t \in Threads, log_printf(t) PROVE LapInv'
    BY <2>1, RewindLap, PwriteLap, AdvanceLap, QuietLap DEF log_printf
  <2>2. CASE gw_disable_log
    BY <2>2, LapStays DEF gw_disable_log
  <2>3. CASE UNCHANGED vars
    BY <2>3, LapStays DEF vars, setting
  <2> QED BY <2>1, <2>2, <2>3, SettingLap DEF Next
<1> QED BY <1>1, LogInvariant, InitLap, PTL DEF Spec

(* The records written since the file last started over are in it, whole   *)
(* and without a gap, however threads interleave and wherever writes fail  *)
(* or write in part (log_printf, full_pwrite).                             *)
THEOREM LapsAreIntact == Spec => []LapIntact
BY LapInvariant, PTL DEF LapInv
=============================================================================
