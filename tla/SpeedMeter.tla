------------------------------ MODULE SpeedMeter ------------------------------
(***************************************************************************)
(* The figures of the disk benchmark (diskbench/diskbench.c): the blocks   *)
(* the test thread counts in gOperationsCount, the speed SecondsCounterProc*)
(* makes of them, its extremes and the labels that show them, and the CPU  *)
(* figures of CpuUsageUpdateProc.                                          *)
(*                                                                         *)
(* SecondsCounterProc runs on the dialog's thread, as a timer callback     *)
(* every 250 ms, and once more on the test thread when the transfer loop   *)
(* is over, with nothing to keep the two apart.  Each of its accesses to a *)
(* global is a step of its own.  When the test thread sets a label it      *)
(* waits until the dialog's thread is back in its message loop.            *)
(* Speeds are counted in blocks per window.                                *)
(***************************************************************************)
EXTENDS Integers, FiniteSets

CONSTANTS
  MaxBlocks,     \* bound: blocks a test transfers
  MaxTicks,      \* bound: samples before the timer is no longer modelled
  MaxTests,      \* bound: tests begun
  WarmUp,        \* samples before the CPU figures are taken (7 in the code)
  CpuUsages,     \* what GetCpuUsage can answer
  Word           \* size of the 32-bit product of blocks and block size

ASSUME ConstantsAssumption ==
  /\ MaxBlocks \in Nat /\ MaxTicks \in Nat /\ MaxTests \in Nat
  /\ WarmUp \in Nat
  /\ CpuUsages \subseteq Nat
  /\ Word \in Nat \ {0}

Callers == {"dialog", "test"}

VARIABLES
  \* the globals
  gOperationsCount, gMaxSpeed, gMinSpeed, SecondsCount,
  gCurrentCpuUsage, gMaxCpuUsage, gMinCpuUsage,
  \* the labels IDC_DISK_MINIMUM and IDC_DISK_MAXIMUM
  shownMin, shownMax,
  \* the timers are set
  timers,
  \* the test thread: what it does, blocks left, gOperationsCount as it read
  \* it for the ++
  test, left, operations,
  \* each caller's place in SecondsCounterProc, its speed, and SecondsCount
  \* as it read it for the ++
  at, speed, seconds,
  \* history: tests begun; blocks moved since a sample last read the counter
  \* (those moved while one was between its read and its = 0 apart); samples
  \* taken since SecondsCount was 1; two callers were inside at once; Clear
  \* was pressed during the test
  tests, unread, samples, overlapped, cleared

counters == <<gOperationsCount, SecondsCount>>
extremes == <<gMaxSpeed, gMinSpeed>>
cpu      == <<gCurrentCpuUsage, gMaxCpuUsage, gMinCpuUsage>>
labels   == <<shownMin, shownMax>>
thread   == <<test, left, operations>>
proc     == <<at, speed, seconds>>
history  == <<tests, unread, samples, overlapped, cleared>>
vars == <<counters, extremes, cpu, labels, timers, thread, proc, history>>

Init ==
  /\ gOperationsCount = 0 /\ SecondsCount = 0
  /\ gMaxSpeed = 0 /\ gMinSpeed = 0
  /\ gCurrentCpuUsage = 0 /\ gMaxCpuUsage = 0 /\ gMinCpuUsage = 0
  /\ shownMin = 0 /\ shownMax = 0
  /\ timers = FALSE
  /\ test = "idle" /\ left = 0 /\ operations = 0
  /\ at = [c \in Callers |-> "out"]
  /\ speed = [c \in Callers |-> 0]
  /\ seconds = [c \in Callers |-> 0]
  /\ tests = 0 /\ unread = 0 /\ samples = {}
  /\ overlapped = FALSE /\ cleared = FALSE

-----------------------------------------------------------------------------
(* The test thread. *)

\* The figures are reset, the timers set and the CPU usage taken once; the
\* labels keep what they show.
StartTest ==
  /\ test = "idle" /\ tests < MaxTests
  /\ test' = "run"
  /\ tests' = tests + 1
  /\ left' \in 1 .. MaxBlocks
  /\ gMaxSpeed' = 0 /\ gMinSpeed' = 0
  /\ gMinCpuUsage' \in {1} \union (CpuUsages \ {0})
  /\ gMaxCpuUsage' = 0 /\ gCurrentCpuUsage' = 0
  /\ SecondsCount' = 0
  /\ timers' = TRUE
  /\ samples' = {} /\ overlapped' = (at["dialog"] # "out")
  /\ cleared' = FALSE
  /\ UNCHANGED <<gOperationsCount, labels, operations, proc, unread>>

\* Mutant: the loop keeps the counter in a register.
ReadCountKept ==
  /\ test = "run" /\ left > 0
  /\ test' = "counting"
  /\ UNCHANGED <<counters, extremes, cpu, labels, timers, left, operations,
                 proc, history>>

\* gOperationsCount++ is a read and a write.
ReadCount ==
  /\ test = "run" /\ left > 0
  /\ test' = "counting"
  /\ operations' = gOperationsCount
  /\ UNCHANGED <<counters, extremes, cpu, labels, timers, left, proc,
                 history>>

\* A sample has read the counter and is yet to set it to 0.
Sampling == \E c \in Callers : at[c] \notin {"out", "speed"}

WriteCount ==
  /\ test = "counting"
  /\ test' = "run"
  /\ gOperationsCount' = operations + 1
  /\ left' = left - 1
  /\ unread' = IF Sampling THEN unread ELSE unread + 1
  /\ UNCHANGED <<SecondsCount, extremes, cpu, labels, timers, operations,
                 proc, tests, samples, overlapped, cleared>>

\* The loop is over, or was stopped: the last sample, taken here.
EndLoop ==
  /\ test = "run"
  /\ test' = "sample"
  /\ at' = [at EXCEPT !["test"] = "speed"]
  /\ overlapped' = (overlapped \/ at["dialog"] # "out")
  /\ UNCHANGED <<counters, extremes, cpu, labels, timers, left, operations,
                 speed, seconds, tests, unread, samples, cleared>>

\* KillTimer, once the sample is taken.
EndTest ==
  /\ test = "sample" /\ at["test"] = "out"
  /\ test' = "idle"
  /\ timers' = FALSE
  /\ UNCHANGED <<counters, extremes, cpu, labels, left, operations, proc,
                 history>>

-----------------------------------------------------------------------------
(* SecondsCounterProc, for each of its two callers. *)

Go(c, from, to) == at[c] = from /\ at' = [at EXCEPT ![c] = to]

\* The WM_TIMER of the dialog, in its message loop.
Tick ==
  /\ timers /\ SecondsCount < MaxTicks
  /\ Go("dialog", "out", "speed")
  /\ overlapped' = (overlapped \/ at["test"] # "out")
  /\ UNCHANGED <<counters, extremes, cpu, labels, timers, thread, speed,
                 seconds, tests, unread, samples, cleared>>

\* A label is set on the dialog's thread, or when that thread is free.
CanShow(c) == c = "dialog" \/ at["dialog"] = "out"

\* The product of the operations and the block size is 32 bits wide.
Speed(c) ==
  /\ Go(c, "speed", "max")
  /\ CanShow(c)
  /\ speed' = [speed EXCEPT ![c] = gOperationsCount % Word]
  /\ unread' = 0
  /\ samples' = IF SecondsCount >= 1 THEN samples \union {speed'[c]}
                ELSE samples
  /\ UNCHANGED <<counters, extremes, cpu, labels, timers, thread, seconds,
                 tests, overlapped, cleared>>

\* Mutant: the label is left for the next sample.
MaximumUnshown(c) ==
  /\ Go(c, "max", "min")
  /\ gMaxSpeed' = IF speed[c] > gMaxSpeed THEN speed[c] ELSE gMaxSpeed
  /\ UNCHANGED <<counters, gMinSpeed, cpu, labels, timers, thread, speed,
                 seconds, history>>

Maximum(c) ==
  /\ Go(c, "max", IF speed[c] > gMaxSpeed THEN "showmax" ELSE "min")
  /\ gMaxSpeed' = IF speed[c] > gMaxSpeed THEN speed[c] ELSE gMaxSpeed
  /\ UNCHANGED <<counters, gMinSpeed, cpu, labels, timers, thread, speed,
                 seconds, history>>

ShowMaximum(c) ==
  /\ Go(c, "showmax", "min")
  /\ CanShow(c)
  /\ shownMax' = gMaxSpeed
  /\ UNCHANGED <<counters, extremes, cpu, shownMin, timers, thread, speed,
                 seconds, history>>

Minimum(c) ==
  /\ Go(c, "min", IF speed[c] < gMinSpeed THEN "showmin" ELSE "first")
  /\ gMinSpeed' = IF speed[c] < gMinSpeed THEN speed[c] ELSE gMinSpeed
  /\ UNCHANGED <<counters, gMaxSpeed, cpu, labels, timers, thread, speed,
                 seconds, history>>

ShowMinimum(c) ==
  /\ Go(c, "showmin", "first")
  /\ CanShow(c)
  /\ shownMin' = gMinSpeed
  /\ UNCHANGED <<counters, extremes, cpu, shownMax, timers, thread, speed,
                 seconds, history>>

\* Mutant: the first three samples are.
FirstThree(c) ==
  /\ Go(c, "first", IF SecondsCount < 3 THEN "firstmax" ELSE "read")
  /\ gMinSpeed' = IF SecondsCount < 3 THEN speed[c] ELSE gMinSpeed
  /\ UNCHANGED <<counters, gMaxSpeed, cpu, labels, timers, thread, speed,
                 seconds, history>>

\* The first two samples of a test are its extremes, whatever came before.
FirstMinimum(c) ==
  /\ Go(c, "first", IF SecondsCount < 2 THEN "firstmax" ELSE "read")
  /\ gMinSpeed' = IF SecondsCount < 2 THEN speed[c] ELSE gMinSpeed
  /\ UNCHANGED <<counters, gMaxSpeed, cpu, labels, timers, thread, speed,
                 seconds, history>>

FirstMaximum(c) ==
  /\ Go(c, "firstmax", "read")
  /\ gMaxSpeed' = speed[c]
  /\ UNCHANGED <<counters, gMinSpeed, cpu, labels, timers, thread, speed,
                 seconds, history>>

\* SecondsCount++ is a read and a write.
ReadSeconds(c) ==
  /\ Go(c, "read", "write")
  /\ seconds' = [seconds EXCEPT ![c] = SecondsCount]
  /\ UNCHANGED <<counters, extremes, cpu, labels, timers, thread, speed,
                 history>>

WriteSeconds(c) ==
  /\ Go(c, "write", "zero")
  /\ SecondsCount' = seconds[c] + 1
  /\ UNCHANGED <<gOperationsCount, extremes, cpu, labels, timers, thread,
                 speed, seconds, history>>

Zero(c) ==
  /\ Go(c, "zero", "out")
  /\ gOperationsCount' = 0
  /\ UNCHANGED <<SecondsCount, extremes, cpu, labels, timers, thread, speed,
                 seconds, history>>

SecondsCounterProc(c) ==
  \/ Speed(c) \/ Maximum(c) \/ ShowMaximum(c) \/ Minimum(c) \/ ShowMinimum(c)
  \/ FirstMinimum(c) \/ FirstMaximum(c)
  \/ ReadSeconds(c) \/ WriteSeconds(c) \/ Zero(c)

-----------------------------------------------------------------------------
(* The rest of the dialog's thread. *)

\* Mutant: a new minimum is not looked at as a maximum.
CpuUsageElse(usage) ==
  /\ timers /\ at["dialog"] = "out"
  /\ usage # 0
  /\ IF SecondsCount < WarmUp
     THEN gMinCpuUsage' = usage /\ UNCHANGED <<gCurrentCpuUsage, gMaxCpuUsage>>
     ELSE /\ gCurrentCpuUsage' = usage
          /\ IF usage < gMinCpuUsage
             THEN gMinCpuUsage' = usage /\ UNCHANGED gMaxCpuUsage
             ELSE /\ gMaxCpuUsage' = IF usage > gMaxCpuUsage THEN usage
                                     ELSE gMaxCpuUsage
                  /\ UNCHANGED gMinCpuUsage
  /\ UNCHANGED <<counters, extremes, labels, timers, thread, proc, history>>

\* CpuUsageUpdateProc: nothing at 0 %; the minimum follows the usage until
\* the warm-up is over, and then the extremes are kept.
CpuUsageUpdateProc(usage) ==
  /\ timers /\ at["dialog"] = "out"
  /\ usage # 0
  /\ IF SecondsCount < WarmUp
     THEN gMinCpuUsage' = usage /\ UNCHANGED <<gCurrentCpuUsage, gMaxCpuUsage>>
     ELSE /\ gCurrentCpuUsage' = usage
          /\ gMinCpuUsage' = IF usage < gMinCpuUsage THEN usage
                             ELSE gMinCpuUsage
          /\ gMaxCpuUsage' = IF usage > gMaxCpuUsage THEN usage
                             ELSE gMaxCpuUsage
  /\ UNCHANGED <<counters, extremes, labels, timers, thread, proc, history>>

\* ID_DISK_CLEAR: the labels and the sample count, but none of the extremes.
Clear ==
  /\ at["dialog"] = "out"
  /\ shownMin' = 0 /\ shownMax' = 0
  /\ SecondsCount' = 0
  /\ samples' = {} /\ cleared' = TRUE
  /\ overlapped' = (overlapped \/ at["test"] # "out")
  /\ UNCHANGED <<gOperationsCount, extremes, cpu, timers, thread, proc, tests,
                 unread>>

Next ==
  \/ StartTest \/ ReadCount \/ WriteCount \/ EndLoop \/ EndTest
  \/ Tick \/ Clear
  \/ \E c \in Callers : SecondsCounterProc(c)
  \/ \E usage \in CpuUsages : CpuUsageUpdateProc(usage)

Spec == Init /\ [][Next]_vars

-----------------------------------------------------------------------------
(* Correctness. *)

Places == {"out", "speed", "max", "showmax", "min", "showmin", "first",
           "firstmax", "read", "write", "zero"}

\* Every figure, label and place has a value of its type.
TypeOK ==
  /\ gOperationsCount \in Nat /\ SecondsCount \in Nat
  /\ gMaxSpeed \in Nat /\ gMinSpeed \in Nat
  /\ gCurrentCpuUsage \in Nat /\ gMaxCpuUsage \in Nat /\ gMinCpuUsage \in Nat
  /\ shownMin \in Nat /\ shownMax \in Nat
  /\ timers \in BOOLEAN
  /\ test \in {"idle", "run", "counting", "sample"}
  /\ left \in 0 .. MaxBlocks /\ operations \in Nat
  /\ at \in [Callers -> Places]
  /\ speed \in [Callers -> Nat] /\ seconds \in [Callers -> Nat]
  /\ tests \in 0 .. MaxTests /\ unread \in Nat
  /\ samples \subseteq Nat
  /\ overlapped \in BOOLEAN /\ cleared \in BOOLEAN

Quiet == \A c \in Callers : at[c] = "out"

\* Between samples, and as long as no two callers (or a caller and Clear)
\* met inside SecondsCounterProc: every sample from the second one on lies
\* between gMinSpeed and gMaxSpeed.
ExtremesBoundSamples ==
  Quiet /\ ~overlapped
    => \A s \in samples : gMinSpeed <= s /\ s <= gMaxSpeed

\* The maximum the dialog shows is not below gMaxSpeed, unless Clear has
\* emptied the label or samples met.
MaximumIsShown ==
  Quiet /\ ~overlapped /\ ~cleared => shownMax >= gMaxSpeed

\* The CPU figures are in order once one was taken, unless the warm-up was
\* restarted, by Clear or by two samples that met and lost a count.
CpuInOrder ==
  gCurrentCpuUsage # 0 /\ ~cleared /\ ~overlapped
    => gMinCpuUsage <= gCurrentCpuUsage /\ gCurrentCpuUsage <= gMaxCpuUsage

\* A block is lost only when it is moved while a sample is on its way from
\* reading the counter to setting it to 0.  Every other block moved since the
\* counter was last read is in it, though a = 0 falls between the read and the
\* write of a ++; the counter may then hold blocks besides that a sample read.
OnlySamplingLosesBlocks == gOperationsCount >= unread
=============================================================================
