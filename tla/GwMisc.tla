------------------------------- MODULE GwMisc -------------------------------
(***************************************************************************)
(* gw_misc.c: sem_timedwait_ms waits for a semaphore for at most msecs     *)
(* milliseconds.  The absolute time-out that sem_timedwait wants is        *)
(* computed from the real-time clock in the type long, which has 32 bits   *)
(* on the smallest targets.  One thread waits; others post the semaphore   *)
(* and the clock goes on, until a signal, the post or the time-out ends    *)
(* the wait.                                                               *)
(***************************************************************************)
EXTENDS Integers

CONSTANTS
  Instants,   \* bound: what the clock may show, seconds and nanoseconds
  Delays      \* bound: the msecs it is called with

Second      == 1000 * 1000 * 1000   \* in nanoseconds
Millisecond == 1000 * 1000
LONG_MAX    == 2147483647

(* A delay is a long, and ends before the clock's seconds run out.         *)
ASSUME TimeAssumption ==
  /\ Instants \subseteq [tv_sec : Nat, tv_nsec : 0 .. Second - 1]
  /\ Delays \subseteq 0 .. LONG_MAX
  /\ \A now \in Instants, ms \in Delays : now.tv_sec + ms \div 1000 < LONG_MAX

VARIABLES
  clock,         \* CLOCK_REALTIME
  sem,           \* the value of the semaphore
  waiting,       \* a wait is under way, or what it returned
  ts,            \* the time-out of the wait
  begun, msecs   \* history: when it began, for how long

misc_vars == <<clock, sem, waiting, ts, begun, msecs>>

NotAfter(a, b) == \/ a.tv_sec < b.tv_sec
                  \/ a.tv_sec = b.tv_sec /\ a.tv_nsec <= b.tv_nsec

MiscInit ==
  /\ clock \in Instants
  /\ sem = 0
  /\ waiting = "none"
  /\ ts = clock /\ begun = clock /\ msecs = 0

-----------------------------------------------------------------------------
(* What is added to the nanoseconds, before the carry.                     *)
Nanoseconds(now, ms) == (ms % 1000) * Millisecond + now.tv_nsec

(* Mutant of Timeout: the carry is forgotten.                              *)
TimeoutNoCarry(now, ms) ==
  [tv_sec |-> now.tv_sec + ms \div 1000, tv_nsec |-> Nanoseconds(now, ms) % Second]

Timeout(now, ms) ==
  [tv_sec |-> now.tv_sec + Nanoseconds(now, ms) \div Second + ms \div 1000,
   tv_nsec |-> Nanoseconds(now, ms) % Second]

sem_timedwait_ms(ms) ==
  /\ waiting # "waits"
  /\ waiting' = "waits"
  /\ ts' = Timeout(clock, ms)
  /\ begun' = clock /\ msecs' = ms
  /\ UNCHANGED <<clock, sem>>

(* sem_timedwait takes the semaphore even after the time-out.              *)
Taken ==
  /\ waiting = "waits" /\ sem > 0
  /\ sem' = sem - 1 /\ waiting' = "0"
  /\ UNCHANGED <<clock, ts, begun, msecs>>

TimedOut ==
  /\ waiting = "waits" /\ sem = 0 /\ NotAfter(ts, clock)
  /\ waiting' = "ETIMEDOUT"
  /\ UNCHANGED <<clock, sem, ts, begun, msecs>>

Interrupted ==
  /\ waiting = "waits" /\ sem = 0
  /\ waiting' = "EINTR"
  /\ UNCHANGED <<clock, sem, ts, begun, msecs>>

(* The other threads, bounded to a value of 1, and the clock.              *)
Post == /\ sem = 0
        /\ sem' = 1
        /\ UNCHANGED <<clock, waiting, ts, begun, msecs>>

Tick == /\ clock' \in {i \in Instants : NotAfter(clock, i)}
        /\ UNCHANGED <<sem, waiting, ts, begun, msecs>>

MiscNext == \/ \E ms \in Delays : sem_timedwait_ms(ms)
            \/ Taken \/ TimedOut \/ Interrupted \/ Post \/ Tick

MiscSpec == MiscInit /\ [][MiscNext]_misc_vars

-----------------------------------------------------------------------------
(* Properties.                                                             *)

(* The time-out is msecs milliseconds after the call, to the nanosecond,   *)
(* its nanoseconds are what sem_timedwait accepts, and nothing overflows   *)
(* on the way (sem_timedwait_ms).  The distance is stated without a        *)
(* product that does not fit in 32 bits.                                   *)
DeadlineExact ==
  waiting = "waits" =>
    /\ Nanoseconds(begun, msecs) <= LONG_MAX /\ ts.tv_sec <= LONG_MAX
    /\ ts.tv_nsec \in 0 .. Second - 1
    /\ ts.tv_nsec - begun.tv_nsec
         = Millisecond * (msecs - 1000 * (ts.tv_sec - begun.tv_sec))
=============================================================================
