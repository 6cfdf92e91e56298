-------------------------------- MODULE Log --------------------------------
(***************************************************************************)
(* log_util.c: threads append records to one log file that starts over     *)
(* from its beginning when it would grow past max_size.  log_printf        *)
(* formats a record into a buffer that all threads share and writes it     *)
(* with pwrite at file_size + log_offset, both under file_mutex.           *)
(*                                                                         *)
(* gw_log_setting takes no lock: it succeeds once, before any thread logs, *)
(* as example.c has it, so it is one action.  A record is a model value    *)
(* with a length and a level; the file is the sequence of its bytes.  What *)
(* goes to standard output and a malloc that fails are left out.           *)
(***************************************************************************)
EXTENDS Naturals, Sequences, SequencesExt

CONSTANTS
  Threads,
  Records,         \* what threads log
  LengthOf,        \* the number of bytes a record is formatted to
  LevelOf,         \* its level, GW_DEBUG (0) to GW_FATAL (3)
  PrintedAs,       \* what vsnprintf may make of it, see Format
  WRITE_BUF_SIZE,  \* the size of the buffer
  MaxSizes,        \* bound: the max_log_size of gw_log_setting
  OldSizes,        \* bound: the size of the file it finds, 0 if it makes one
  Null

GW_NONE == 4
Levels  == 0 .. GW_NONE   \* local_log_level_t

NoThread == "none"

ASSUME ConstantsAssumption ==
  /\ LengthOf \in [Records -> Nat]
  /\ LevelOf \in [Records -> Levels \ {GW_NONE}]
  /\ PrintedAs \in [Records -> SUBSET Records]
  /\ WRITE_BUF_SIZE \in Nat \ {0}
  /\ MaxSizes \subseteq Nat /\ OldSizes \subseteq Nat
  /\ NoThread \notin Threads
  /\ Null \notin Records

(* A byte of a record, of what the file held before, or of a hole.         *)
Byte(r, k) == <<r, k>>
Old  == <<"old", 0>>
Zero == <<"zero", 0>>

VARIABLES
  log_level, fp,   \* of log_setting; fp is FALSE when NULL
  buffer,          \* the record last formatted
  max_size,
  file_size,       \* the size of the file when it was set, 0 after a rewind
  log_offset,      \* bytes written since
  file_mutex,
  file,            \* the bytes of the file
  pc,              \* where a thread is in log_printf
  record,          \* what it logs, then what it is formatted to
  total,           \* the bytes of it that full_pwrite has written
  old_size,        \* history: the size of the file that was found
  start, lap       \* history: where the records written since the last
                   \* rewind begin, and those records

setting == <<log_level, fp, max_size, old_size>>
place   == <<file_size, log_offset, start, lap>>
vars    == <<setting, place, buffer, file_mutex, file, pc, record, total>>

Init ==
  /\ log_level = 0 /\ fp = FALSE /\ buffer = Null
  /\ max_size = 0 /\ file_size = 0 /\ log_offset = 0
  /\ file_mutex = NoThread
  /\ file = <<>>
  /\ pc = [t \in Threads |-> "idle"]
  /\ record = [t \in Threads |-> Null]
  /\ total = [t \in Threads |-> 0]
  /\ old_size = 0 /\ start = 0 /\ lap = <<>>

-----------------------------------------------------------------------------
(* gw_log_setting: the level is set even if the file cannot be opened.     *)
Setting(level, max, size) ==
  /\ ~fp
  /\ log_level' = level
  /\ \/ UNCHANGED <<fp, max_size, old_size, place, file>>
     \/ /\ fp' = TRUE
        /\ file' = [k \in 1 .. size |-> Old]
        /\ file_size' = size /\ start' = size /\ old_size' = size
        /\ max_size' = max
        /\ UNCHANGED <<log_offset, lap>>
  /\ UNCHANGED <<buffer, file_mutex, pc, record, total>>

gw_disable_log ==
  /\ log_level' = GW_NONE
  /\ UNCHANGED <<fp, max_size, old_size, place, buffer, file_mutex, file, pc,
                 record, total>>

-----------------------------------------------------------------------------
Goto(t, label) == pc' = [pc EXCEPT ![t] = label]

(* log_printf: the level and the file are examined without the mutex.      *)
Begin(t, r) ==
  /\ pc[t] = "idle" /\ fp /\ LevelOf[r] >= log_level
  /\ record' = [record EXCEPT ![t] = r]
  /\ Goto(t, "lock")
  /\ UNCHANGED <<setting, place, buffer, file_mutex, file, total>>

(* Mutant of Lock: the mutex is not waited for.                            *)
LockAnyway(t) ==
  /\ pc[t] = "lock"
  /\ file_mutex' = t
  /\ Goto(t, "format")
  /\ UNCHANGED <<setting, place, buffer, file, record, total>>

Lock(t) ==
  /\ pc[t] = "lock" /\ file_mutex = NoThread
  /\ file_mutex' = t
  /\ Goto(t, "format")
  /\ UNCHANGED <<setting, place, buffer, file, record, total>>

(* Mutant of Format: a record that fills the buffer is not left out.       *)
FormatTruncated(t) ==
  /\ pc[t] = "format"
  /\ \E r \in PrintedAs[record[t]] :
       /\ record' = [record EXCEPT ![t] = r]
       /\ buffer' = r
       /\ Goto(t, IF LengthOf[r] > 0 THEN "place" ELSE "unlock")
  /\ UNCHANGED <<setting, place, file_mutex, file, total>>

(* vsnprintf.  Its ap has been used by vprintf and is indeterminate: unless *)
(* the format has no arguments, another record may come out.  A record     *)
(* that is empty or does not fit is not written.                           *)
Format(t) ==
  /\ pc[t] = "format"
  /\ \E r \in PrintedAs[record[t]] :
       /\ record' = [record EXCEPT ![t] = r]
       /\ buffer' = r
       /\ Goto(t, IF LengthOf[r] \in 1 .. WRITE_BUF_SIZE - 1
                  THEN "place" ELSE "unlock")
  /\ UNCHANGED <<setting, place, file_mutex, file, total>>

(* Mutant of Rewind: the size of the file that was found still counts.     *)
RewindOffset(t) ==
  /\ pc[t] = "place"
  /\ IF file_size + log_offset + LengthOf[record[t]] >= max_size
     THEN log_offset' = 0 /\ start' = file_size /\ lap' = <<>>
          /\ UNCHANGED file_size
     ELSE UNCHANGED place
  /\ Goto(t, "write")
  /\ UNCHANGED <<setting, buffer, file_mutex, file, record, total>>

(* Where the record goes: the file starts over when it would be full.      *)
Rewind(t) ==
  /\ pc[t] = "place"
  /\ IF file_size + log_offset + LengthOf[record[t]] >= max_size
     THEN file_size' = 0 /\ log_offset' = 0 /\ start' = 0 /\ lap' = <<>>
     ELSE UNCHANGED place
  /\ Goto(t, "write")
  /\ UNCHANGED <<setting, buffer, file_mutex, file, record, total>>

(* pwrite(2) of n bytes at an offset, past the end of the file or not.     *)
Written(bytes, offset) ==
  LET end == offset + Len(bytes)
  IN [k \in 1 .. IF end > Len(file) THEN end ELSE Len(file) |->
        IF k \in offset + 1 .. end THEN bytes[k - offset]
        ELSE IF k <= Len(file) THEN file[k] ELSE Zero]

(* full_pwrite: one turn of its loop, which may write a part.              *)
Pwrite(t) ==
  /\ pc[t] = "write" /\ total[t] < LengthOf[record[t]]
  /\ \E n \in 1 .. LengthOf[record[t]] - total[t] :
       /\ file' = Written([k \in 1 .. n |-> Byte(buffer, total[t] + k)],
                          file_size + log_offset + total[t])
       /\ total' = [total EXCEPT ![t] = @ + n]
  /\ UNCHANGED <<setting, place, buffer, file_mutex, pc, record>>

(* An error ends it: what was written will be overwritten.                 *)
PwriteFails(t) ==
  /\ pc[t] = "write" /\ total[t] < LengthOf[record[t]]
  /\ Goto(t, "unlock")
  /\ UNCHANGED <<setting, place, buffer, file_mutex, file, record, total>>

(* All is written.                                                         *)
Advance(t) ==
  /\ pc[t] = "write" /\ total[t] = LengthOf[record[t]]
  /\ log_offset' = log_offset + total[t]
  /\ lap' = Append(lap, record[t])
  /\ Goto(t, "unlock")
  /\ UNCHANGED <<setting, file_size, start, buffer, file_mutex, file, record,
                 total>>

Unlock(t) ==
  /\ pc[t] = "unlock"
  /\ file_mutex' = NoThread
  /\ record' = [record EXCEPT ![t] = Null]
  /\ total' = [total EXCEPT ![t] = 0]
  /\ Goto(t, "idle")
  /\ UNCHANGED <<setting, place, buffer, file>>

-----------------------------------------------------------------------------
log_printf(t) ==
  \/ \E r \in Records : Begin(t, r)
  \/ Lock(t) \/ Format(t) \/ Rewind(t)
  \/ Pwrite(t) \/ PwriteFails(t) \/ Advance(t) \/ Unlock(t)

Next ==
  \/ \E level \in Levels, max \in MaxSizes, size \in OldSizes :
       Setting(level, max, size)
  \/ gw_disable_log
  \/ \E t \in Threads : log_printf(t)

Spec == Init /\ [][Next]_vars

-----------------------------------------------------------------------------
(* Properties.                                                             *)

(* Type invariant of log_util.c's state: no more bytes of a record are     *)
(* written than the buffer holds.                                          *)
TypeOK ==
  /\ log_level \in Levels /\ fp \in BOOLEAN
  /\ buffer \in Records \cup {Null}
  /\ max_size \in Nat /\ file_size \in Nat /\ log_offset \in Nat
  /\ file_mutex \in Threads \cup {NoThread}
  /\ file \in Seq({Old, Zero} \cup {Byte(r, k) : r \in Records,
                                                 k \in 1 .. WRITE_BUF_SIZE - 1})
  /\ pc \in [Threads -> {"idle", "lock", "format", "place", "write", "unlock"}]
  /\ record \in [Threads -> Records \cup {Null}]
  /\ total \in [Threads -> 0 .. WRITE_BUF_SIZE - 1]
  /\ old_size \in Nat /\ start \in Nat
  /\ lap \in Seq(Records)

(* The records written since the file last started over are in it, whole,  *)
(* one after the other and without a gap, up to the place where the next   *)
(* one goes, whatever threads log at once and whatever writes fail.        *)
Bytes(r) == [k \in 1 .. LengthOf[r] |-> Byte(r, k)]

LapIntact ==
  SubSeq(file, start + 1, file_size + log_offset)
    = FlattenSeq([k \in DOMAIN lap |-> Bytes(lap[k])])

(* The file does not grow: it is never longer than what was found, what    *)
(* max_size allows or one record (the rewind of log_printf).               *)
SizeBound ==
  \/ Len(file) <= old_size
  \/ Len(file) < max_size
  \/ Len(file) < WRITE_BUF_SIZE
=============================================================================
