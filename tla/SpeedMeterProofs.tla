--------------------------- MODULE SpeedMeterProofs ---------------------------
(***************************************************************************)
(* Theorems about SpeedMeter, for any number of tests, blocks and samples, *)
(* and any width of the product.                                           *)
(***************************************************************************)
EXTENDS SpeedMeter, TLAPS

-----------------------------------------------------------------------------
(* Types. *)

\* A block that is counted is one of those left.
TypeInv == TypeOK /\ (test = "counting" => left > 0)

LEMMA CallersAre == "dialog" \in Callers /\ "test" \in Callers
BY DEF Callers

LEMMA GoType ==
  ASSUME TypeOK, NEW c \in Callers, NEW from, NEW to \in Places, Go(c, from, to)
  PROVE  at' \in [Callers -> Places]
BY DEF TypeOK, Go

LEMMA SpeedType ==
  ASSUME ConstantsAssumption, TypeOK, NEW c \in Callers, Speed(c)
  PROVE  speed' \in [Callers -> Nat] /\ samples' \subseteq Nat
<1>1. gOperationsCount % Word \in Nat
  BY DEF ConstantsAssumption, TypeOK
<1>2. speed' = [speed EXCEPT ![c] = gOperationsCount % Word]
  BY DEF Speed
<1>3. speed' \in [Callers -> Nat]
  BY <1>1, <1>2 DEF TypeOK
<1> QED
  BY <1>3 DEF Speed, TypeOK

LEMMA ProcType ==
  ASSUME ConstantsAssumption, TypeInv, NEW c \in Callers, SecondsCounterProc(c)
  PROVE  TypeInv'
<1> USE GoType DEF TypeInv, Places
<1>1. CASE Speed(c)
  <2>1. speed' \in [Callers -> Nat] /\ samples' \subseteq Nat
    BY <1>1, SpeedType
  <2>2. at' \in [Callers -> Places]
    BY <1>1 DEF Speed
  <2> QED
    BY <1>1, <2>1, <2>2 DEF Speed, TypeOK, counters, extremes, cpu, labels, thread
<1>2. CASE Maximum(c) \/ Minimum(c) \/ FirstMinimum(c)
  <2>1. at' \in [Callers -> Places]
    BY <1>2 DEF Maximum, Minimum, FirstMinimum
  <2>2. gMaxSpeed' \in Nat /\ gMinSpeed' \in Nat
    BY <1>2 DEF Maximum, Minimum, FirstMinimum, TypeOK
  <2> QED
    BY <1>2, <2>1, <2>2 DEF Maximum, Minimum, FirstMinimum, TypeOK, counters,
                            cpu, labels, thread, history
<1>3. CASE ShowMaximum(c) \/ ShowMinimum(c)
  <2>1. at' \in [Callers -> Places]
    BY <1>3 DEF ShowMaximum, ShowMinimum
  <2> QED
    BY <1>3, <2>1 DEF ShowMaximum, ShowMinimum, TypeOK, counters, extremes,
                      cpu, thread, history
<1>4. CASE FirstMaximum(c)
  <2>1. at' \in [Callers -> Places]
    BY <1>4 DEF FirstMaximum
  <2> QED
    BY <1>4, <2>1 DEF FirstMaximum, TypeOK, counters, cpu, labels, thread, history
<1>5. CASE ReadSeconds(c) \/ WriteSeconds(c)
  <2>1. at' \in [Callers -> Places]
    BY <1>5 DEF ReadSeconds, WriteSeconds
  <2>2. SecondsCount' \in Nat /\ seconds' \in [Callers -> Nat]
    BY <1>5 DEF ReadSeconds, WriteSeconds, TypeOK, counters
  <2> QED
    BY <1>5, <2>1, <2>2 DEF ReadSeconds, WriteSeconds, TypeOK, counters,
                            extremes, cpu, labels, thread, history
<1>6. CASE Zero(c)
  <2>1. at' \in [Callers -> Places]
    BY <1>6 DEF Zero
  <2> QED
    BY <1>6, <2>1 DEF Zero, TypeOK, extremes, cpu, labels, thread, history
<1> QED
  BY <1>1, <1>2, <1>3, <1>4, <1>5, <1>6 DEF SecondsCounterProc

LEMMA TypeStep ==
  ASSUME ConstantsAssumption, TypeInv, [Next]_vars
  PROVE  TypeInv'
<1> USE CallersAre DEF TypeInv
<1>1. CASE StartTest
  <2>1. gMinCpuUsage' \in Nat /\ overlapped' \in BOOLEAN
    BY <1>1 DEF StartTest, ConstantsAssumption
  <2>2. left' \in 0 .. MaxBlocks /\ tests' \in 0 .. MaxTests
    BY <1>1 DEF StartTest, TypeOK, ConstantsAssumption
  <2> QED
    BY <1>1, <2>1, <2>2 DEF StartTest, TypeOK, labels, proc
<1>2. CASE ReadCount
  BY <1>2 DEF ReadCount, TypeOK, counters, extremes, cpu, labels, proc, history
<1>3. CASE WriteCount
  BY <1>3 DEF WriteCount, TypeOK, extremes, cpu, labels, proc
<1>4. CASE EndLoop \/ Tick
  <2>1. at' \in [Callers -> Places]
    BY <1>4, GoType DEF EndLoop, Tick, TypeOK, Places
  <2>2. overlapped' \in BOOLEAN
    BY <1>4 DEF EndLoop, Tick, TypeOK
  <2> QED
    BY <1>4, <2>1, <2>2 DEF EndLoop, Tick, TypeOK, counters, extremes, cpu,
                            labels, thread
<1>5. CASE EndTest
  BY <1>5 DEF EndTest, TypeOK, counters, extremes, cpu, labels, proc, history
<1>6. CASE Clear
  <2>1. overlapped' \in BOOLEAN
    BY <1>6 DEF Clear, TypeOK
  <2> QED
    BY <1>6, <2>1 DEF Clear, TypeOK, extremes, cpu, thread, proc
<1>7. ASSUME NEW c \in Callers, SecondsCounterProc(c) PROVE TypeInv'
  BY <1>7, ProcType
<1>8. ASSUME NEW usage \in CpuUsages, CpuUsageUpdateProc(usage) PROVE TypeInv'
  <2>1. usage \in Nat
    BY DEF ConstantsAssumption
  <2>2. gCurrentCpuUsage' \in Nat /\ gMaxCpuUsage' \in Nat /\ gMinCpuUsage' \in Nat
    BY <1>8, <2>1 DEF CpuUsageUpdateProc, TypeOK
  <2> QED
    BY <1>8, <2>2 DEF CpuUsageUpdateProc, TypeOK, counters, extremes, labels,
                      thread, proc, history
<1>9. CASE UNCHANGED vars
  BY <1>9 DEF vars, TypeOK, counters, extremes, cpu, labels, thread, proc, history
<1> QED
  BY <1>1, <1>2, <1>3, <1>4, <1>5, <1>6, <1>7, <1>8, <1>9 DEF Next

LEMMA TypeInit == ASSUME ConstantsAssumption, Init PROVE TypeInv
<1>1. timers \in BOOLEAN /\ overlapped \in BOOLEAN /\ cleared \in BOOLEAN
  BY DEF Init
<1>2. /\ at \in [Callers -> Places]
      /\ speed \in [Callers -> Nat] /\ seconds \in [Callers -> Nat]
  BY DEF Init, Places
<1>3. 0 \in 0 .. MaxBlocks /\ 0 \in 0 .. MaxTests
  BY DEF ConstantsAssumption
<1> QED
  BY <1>1, <1>2, <1>3 DEF Init, TypeInv, TypeOK

LEMMA TypeKept == Spec => []TypeInv
<1>1. Init => TypeInv
  BY ConstantsAssumption, TypeInit
<1>2. TypeInv /\ [Next]_vars => TypeInv'
  BY ConstantsAssumption, TypeStep
<1> QED
  BY <1>1, <1>2, PTL DEF Spec

\* Every figure, label and place keeps its type, whatever the samples meet.
THEOREM TypeCorrect == Spec => []TypeOK
<1>1. TypeInv => TypeOK
  BY DEF TypeInv
<1> QED
  BY <1>1, TypeKept, PTL

-----------------------------------------------------------------------------
(* The counter of operations. *)

\* Neither the counter nor what the test thread read of it is behind, and a
\* caller about to set it to 0 has read all there was.
CountInv ==
  /\ OnlySamplingLosesBlocks
  /\ test = "counting" => operations >= unread
  /\ Sampling => unread = 0

LEMMA CountStep == ASSUME TypeOK, CountInv, [Next]_vars PROVE CountInv'
<1> USE DEF CountInv, OnlySamplingLosesBlocks
<1>1. CASE StartTest \/ ReadCount \/ WriteCount \/ EndTest
  BY <1>1 DEF StartTest, ReadCount, WriteCount, EndTest, TypeOK, Sampling,
              counters, proc, history
<1>2. CASE EndLoop \/ Tick
  BY <1>2 DEF EndLoop, Tick, Go, Sampling, TypeOK, counters, thread
<1>3. CASE Clear \/ \E usage \in CpuUsages : CpuUsageUpdateProc(usage)
  BY <1>3 DEF Clear, CpuUsageUpdateProc, Sampling, counters, thread, proc, history
<1>4. ASSUME NEW c \in Callers, SecondsCounterProc(c) PROVE CountInv'
  <2>1. CASE Speed(c)
    BY <2>1 DEF Speed, TypeOK, counters, thread
  <2>2. CASE Zero(c)
    BY <2>2 DEF Zero, Go, Sampling, TypeOK, thread, history
  <2>3. CASE ~(Speed(c) \/ Zero(c))
    <3>1. Sampling /\ UNCHANGED <<gOperationsCount, thread, unread>>
      BY <1>4, <2>3 DEF SecondsCounterProc, Maximum, ShowMaximum, Minimum,
                        ShowMinimum, FirstMinimum, FirstMaximum, ReadSeconds,
                        WriteSeconds, Go, Sampling, counters, history
    <3> QED
      BY <3>1 DEF thread
  <2> QED
    BY <2>1, <2>2, <2>3
<1>5. CASE UNCHANGED vars
  BY <1>5 DEF vars, Sampling, counters, thread, proc, history
<1> QED
  BY <1>1, <1>2, <1>3, <1>4, <1>5 DEF Next

\* Wherever a sample comes between the read and the write of a ++: the counter
\* holds every block moved since it was last read, but those moved while the
\* sample was on its way to set it to 0.
THEOREM OnlySamplingLoses == Spec => []OnlySamplingLosesBlocks
<1>1. Init => CountInv
  BY DEF Init, CountInv, OnlySamplingLosesBlocks, Sampling
<1>2. CountInv => OnlySamplingLosesBlocks
  BY DEF CountInv
<1>3. TypeOK /\ CountInv /\ [Next]_vars => CountInv'
  BY CountStep
<1> QED
  BY <1>1, <1>2, <1>3, TypeCorrect, PTL DEF Spec

-----------------------------------------------------------------------------
(* Samples that do not meet. *)

Other(c) == IF c = "dialog" THEN "test" ELSE "dialog"

\* The test thread is inside only at the end of a test, and no two are unless
\* that was noticed.
AloneInv ==
  /\ test # "sample" => at["test"] = "out"
  /\ ~overlapped => at["dialog"] = "out" \/ at["test"] = "out"

Bounded(S) == \A s \in S : gMinSpeed <= s /\ s <= gMaxSpeed

\* What holds while c is the only caller inside, place by place: the samples
\* but the one it takes are between the extremes, of the first two no earlier
\* one is in the way, and the count it read is the count.
SampleInv(c) ==
  /\ SecondsCount = 0 => samples = {}
  /\ at[c] \in {"out", "speed", "zero"} => (SecondsCount <= 1 => samples = {})
  /\ at[c] \notin {"out", "speed", "zero"} =>
       (SecondsCount <= 1 => samples \subseteq {speed[c]})
  /\ at[c] \in {"out", "speed", "read", "write", "zero"} => Bounded(samples)
  /\ at[c] \in {"max", "showmax", "min", "showmin", "first"} =>
       (SecondsCount >= 2 => Bounded(samples \ {speed[c]}))
  /\ at[c] \in {"showmax", "min", "showmin", "first", "firstmax"} =>
       speed[c] <= gMaxSpeed
  /\ at[c] \in {"showmin", "first", "firstmax"} => gMinSpeed <= speed[c]
  /\ at[c] = "firstmax" => SecondsCount <= 1
  /\ at[c] = "write" => seconds[c] = SecondsCount

SamplesInv == ~overlapped => \A c \in Callers : at[Other(c)] = "out" => SampleInv(c)

MeterInv == TypeOK /\ AloneInv /\ SamplesInv

\* The steps of a caller that is alone inside.
LEMMA SpeedSample ==
  ASSUME TypeOK, ~overlapped, NEW c \in Callers, SampleInv(c),
         Speed(c) \/ Maximum(c) \/ ShowMaximum(c) \/ Minimum(c) \/ ShowMinimum(c)
  PROVE  SampleInv(c)'
<1>0. /\ SecondsCount \in Nat /\ gMaxSpeed \in Nat /\ gMinSpeed \in Nat
      /\ speed[c] \in Nat /\ samples \subseteq Nat
  BY DEF TypeOK
<1>10. SecondsCount = 0 => samples = {}
  BY DEF SampleInv
<1> USE DEF SampleInv
<1>1. CASE Speed(c)
  <2>1. at'[c] = "max"
    BY <1>1 DEF TypeOK, Go, Speed
  <2>2. samples' = IF SecondsCount >= 1 THEN samples \union {speed'[c]} ELSE samples
    BY <1>1 DEF TypeOK, Go, Speed
  <2>3. UNCHANGED <<SecondsCount, gMaxSpeed, gMinSpeed>>
    BY <1>1 DEF TypeOK, Go, Speed, counters, extremes
  <2>4. Bounded(samples) /\ (SecondsCount <= 1 => samples = {})
    BY <1>1 DEF TypeOK, Go, Speed
  <2>5. SecondsCount >= 2 => Bounded(samples \ {speed[c]})'
    BY <2>2, <2>3, <2>4 DEF Bounded
  <2>6. SecondsCount <= 1 => samples' \subseteq {speed'[c]}
    BY <2>2, <2>4
  <2>7. SecondsCount = 0 => samples' = {}
    BY <1>10, <2>2
  <2> QED
    BY <2>1, <2>3, <2>5, <2>6, <2>7
<1>2. CASE Maximum(c)
  <2>1. /\ at'[c] \in {"showmax", "min"} /\ speed' = speed
        /\ UNCHANGED <<SecondsCount, samples, gMinSpeed>>
    BY <1>2 DEF TypeOK, Go, Maximum, counters, history
  <2>2. gMaxSpeed' >= gMaxSpeed /\ gMaxSpeed' >= speed[c]
    BY <1>2 DEF TypeOK, Go, Maximum
  <2>3. /\ SecondsCount <= 1 => samples \subseteq {speed[c]}
        /\ SecondsCount >= 2 => Bounded(samples \ {speed[c]})
    BY <1>2 DEF TypeOK, Go, Maximum
  <2>4. gMaxSpeed' \in Nat
    BY <1>2 DEF TypeOK, Go, Maximum
  <2>5. ASSUME SecondsCount >= 2, NEW s \in (samples \ {speed[c]})'
        PROVE  gMinSpeed' <= s /\ s <= gMaxSpeed'
    <3>1. s \in Nat /\ gMinSpeed <= s /\ s <= gMaxSpeed
      BY <1>0, <2>1, <2>3, <2>5 DEF Bounded
    <3> QED
      BY <1>0, <2>1, <2>2, <2>4, <3>1
  <2>6. SecondsCount >= 2 => Bounded(samples \ {speed[c]})'
    BY <2>5 DEF Bounded
  <2> QED
    BY <1>10, <2>1, <2>2, <2>3, <2>6
<1>3. CASE ShowMaximum(c)
  BY <1>3 DEF TypeOK, Go, Bounded, ShowMaximum, counters, extremes, history
<1>4. CASE Minimum(c)
  <2>1. /\ at'[c] \in {"showmin", "first"} /\ speed' = speed
        /\ UNCHANGED <<SecondsCount, samples, gMaxSpeed>>
    BY <1>4 DEF TypeOK, Go, Minimum, counters, history
  <2>2. gMinSpeed' <= gMinSpeed /\ gMinSpeed' <= speed[c]
    BY <1>4 DEF TypeOK, Go, Minimum
  <2>3. /\ SecondsCount <= 1 => samples \subseteq {speed[c]}
        /\ SecondsCount >= 2 => Bounded(samples \ {speed[c]})
        /\ speed[c] <= gMaxSpeed
    BY <1>4 DEF TypeOK, Go, Minimum
  <2>4. gMinSpeed' \in Nat
    BY <1>4 DEF TypeOK, Go, Minimum
  <2>5. ASSUME SecondsCount >= 2, NEW s \in (samples \ {speed[c]})'
        PROVE  gMinSpeed' <= s /\ s <= gMaxSpeed'
    <3>1. s \in Nat /\ gMinSpeed <= s /\ s <= gMaxSpeed
      BY <1>0, <2>1, <2>3, <2>5 DEF Bounded
    <3> QED
      BY <1>0, <2>1, <2>2, <2>4, <3>1
  <2>6. SecondsCount >= 2 => Bounded(samples \ {speed[c]})'
    BY <2>5 DEF Bounded
  <2>7. speed'[c] <= gMaxSpeed' /\ gMinSpeed' <= speed'[c]
    BY <1>0, <2>1, <2>2, <2>3
  <2> QED
    BY <1>10, <2>1, <2>3, <2>6, <2>7
<1>5. CASE ShowMinimum(c)
  BY <1>5 DEF TypeOK, Go, Bounded, ShowMinimum, counters, extremes, history
<1> QED
  BY <1>1, <1>2, <1>3, <1>4, <1>5

LEMMA CountSample ==
  ASSUME TypeOK, ~overlapped, NEW c \in Callers, SampleInv(c),
         \/ FirstMinimum(c) \/ FirstMaximum(c)
         \/ ReadSeconds(c) \/ WriteSeconds(c) \/ Zero(c)
  PROVE  SampleInv(c)'
<1>0. /\ SecondsCount \in Nat /\ gMaxSpeed \in Nat /\ gMinSpeed \in Nat
      /\ speed[c] \in Nat /\ samples \subseteq Nat
  BY DEF TypeOK
<1>10. SecondsCount = 0 => samples = {}
  BY DEF SampleInv
<1> USE DEF SampleInv
<1>1. CASE FirstMinimum(c)
  <2>1. /\ speed' = speed /\ UNCHANGED <<SecondsCount, samples, gMaxSpeed>>
    BY <1>1 DEF TypeOK, Go, FirstMinimum, counters, history
  <2>2. /\ SecondsCount <= 1 => samples \subseteq {speed[c]}
        /\ SecondsCount >= 2 => Bounded(samples \ {speed[c]})
        /\ gMinSpeed <= speed[c] /\ speed[c] <= gMaxSpeed
    BY <1>1 DEF TypeOK, Go, FirstMinimum
  <2>3. CASE SecondsCount < 2
    <3>1. at'[c] = "firstmax" /\ gMinSpeed' = speed[c]
      BY <1>1, <2>3 DEF TypeOK, Go, FirstMinimum
    <3>2. gMinSpeed' <= speed'[c] /\ speed'[c] <= gMaxSpeed'
      BY <1>0, <2>1, <2>2, <3>1
    <3> QED
      BY <1>0, <1>10, <2>1, <2>2, <2>3, <3>1, <3>2
  <2>4. CASE SecondsCount >= 2
    <3>1. at'[c] = "read" /\ gMinSpeed' = gMinSpeed
      BY <1>1, <2>4 DEF TypeOK, Go, FirstMinimum
    <3>2. Bounded(samples)'
      BY <2>1, <2>2, <2>4, <3>1 DEF Bounded
    <3> QED
      BY <1>0, <2>1, <2>4, <3>1, <3>2
  <2> QED
    BY <1>0, <2>3, <2>4
<1>2. CASE FirstMaximum(c)
  <2>1. /\ at'[c] = "read" /\ speed' = speed /\ gMaxSpeed' = speed[c]
        /\ UNCHANGED <<SecondsCount, samples, gMinSpeed>>
    BY <1>2 DEF TypeOK, Go, FirstMaximum, counters, history
  <2>2. /\ SecondsCount <= 1 /\ samples \subseteq {speed[c]}
        /\ gMinSpeed <= speed[c]
    BY <1>2 DEF TypeOK, Go, FirstMaximum
  <2>3. \A s \in samples : gMinSpeed <= s /\ s <= speed[c]
    BY <1>0, <2>2
  <2>4. Bounded(samples)'
    BY <2>1, <2>3 DEF Bounded
  <2> QED
    BY <1>10, <2>1, <2>2, <2>4
<1>3. CASE ReadSeconds(c)
  BY <1>3 DEF TypeOK, Go, Bounded, ReadSeconds, counters, extremes, history
<1>4. CASE WriteSeconds(c)
  <2>1. /\ at'[c] = "zero" /\ SecondsCount' = SecondsCount + 1
        /\ UNCHANGED <<samples, gMaxSpeed, gMinSpeed>>
    BY <1>4 DEF TypeOK, Go, WriteSeconds, extremes, history
  <2>2. Bounded(samples) /\ (SecondsCount = 0 => samples = {})
    BY <1>4 DEF TypeOK, Go, WriteSeconds
  <2>3. Bounded(samples)'
    BY <2>1, <2>2 DEF Bounded
  <2>4. SecondsCount' # 0 /\ (SecondsCount' <= 1 => samples' = {})
    BY <1>0, <2>1, <2>2
  <2> QED
    BY <2>1, <2>3, <2>4
<1>5. CASE Zero(c)
  BY <1>5 DEF TypeOK, Go, Bounded, Zero, extremes, history
<1> QED
  BY <1>1, <1>2, <1>3, <1>4, <1>5

\* A caller that comes out leaves what holds for the other one, too.
LEMMA OwnStep ==
  ASSUME MeterInv, NEW c \in Callers, SecondsCounterProc(c)
  PROVE  SamplesInv'
<1>1. Callers = {c, Other(c)} /\ Other(c) # c /\ Other(Other(c)) = c
  BY DEF Callers, Other
<1>2. \E to \in Places : /\ at[c] # "out" /\ at' = [at EXCEPT ![c] = to]
                         /\ overlapped' = overlapped
  BY DEF SecondsCounterProc, Speed, Maximum, ShowMaximum, Minimum, ShowMinimum,
         FirstMinimum, FirstMaximum, ReadSeconds, WriteSeconds, Zero, Go,
         Places, history
<1> SUFFICES ASSUME ~overlapped
             PROVE  SampleInv(c)' /\ (at'[c] = "out" => SampleInv(Other(c))')
  BY <1>1, <1>2 DEF SamplesInv
<1>3. at[Other(c)] = "out"
  BY <1>2 DEF MeterInv, AloneInv, Other, Callers
<1>4. SampleInv(c)
  BY <1>3 DEF MeterInv, SamplesInv
<1>5. SampleInv(c)'
  BY <1>4, SpeedSample, CountSample DEF MeterInv, SecondsCounterProc
<1>6. at'[Other(c)] = "out"
  BY <1>1, <1>2, <1>3 DEF MeterInv, TypeOK
<1>7. at'[c] = "out" => SampleInv(Other(c))'
  BY <1>5, <1>6 DEF SampleInv
<1> QED
  BY <1>5, <1>7

LEMMA AloneStep == ASSUME TypeOK, AloneInv, [Next]_vars PROVE AloneInv'
<1> USE DEF AloneInv
<1>1. CASE StartTest \/ ReadCount \/ WriteCount \/ EndTest
  BY <1>1 DEF StartTest, ReadCount, WriteCount, EndTest, proc, history
<1>2. CASE EndLoop \/ Tick \/ Clear
  BY <1>2 DEF EndLoop, Tick, Clear, Go, TypeOK, Callers, proc, thread
<1>3. ASSUME NEW c \in Callers, SecondsCounterProc(c) PROVE AloneInv'
  <2>1. /\ at[c] # "out" /\ \E to : at' = [at EXCEPT ![c] = to]
        /\ overlapped' = overlapped /\ test' = test
    BY <1>3 DEF SecondsCounterProc, Speed, Maximum, ShowMaximum, Minimum,
                ShowMinimum, FirstMinimum, FirstMaximum, ReadSeconds,
                WriteSeconds, Zero, Go, history, thread
  <2> QED
    BY <2>1 DEF TypeOK, Callers
<1>4. ASSUME NEW usage \in CpuUsages, CpuUsageUpdateProc(usage) PROVE AloneInv'
  BY <1>4 DEF CpuUsageUpdateProc, proc, thread, history
<1>5. CASE UNCHANGED vars
  BY <1>5 DEF vars, proc, thread, history
<1> QED
  BY <1>1, <1>2, <1>3, <1>4, <1>5 DEF Next

\* With nobody inside, and no samples.
LEMMA NoSamples ==
  ASSUME samples' = {}, SecondsCount' \in Nat, at'["dialog"] = "out", at'["test"] = "out"
  PROVE  SamplesInv'
BY DEF SamplesInv, SampleInv, Bounded, Callers

LEMMA SamplesStep == ASSUME MeterInv, [Next]_vars PROVE SamplesInv'
<1>1. CASE StartTest
  BY <1>1, NoSamples DEF StartTest, SamplesInv, MeterInv, AloneInv, proc
<1>2. CASE Clear
  BY <1>2, NoSamples DEF Clear, SamplesInv, proc
<1>3. CASE EndLoop \/ Tick
  <2> SUFFICES ASSUME ~overlapped'
               PROVE  \A c \in Callers : at'[Other(c)] = "out" => SampleInv(c)'
    BY DEF SamplesInv
  <2>1. /\ at["dialog"] = "out" /\ at["test"] = "out" /\ ~overlapped
        /\ \E c \in Callers : at' = [at EXCEPT ![c] = "speed"]
        /\ UNCHANGED <<SecondsCount, extremes, speed, seconds, samples>>
    BY <1>3 DEF EndLoop, Tick, Go, MeterInv, AloneInv, Callers, counters
  <2>2. \A c \in Callers : at'[c] \in {"out", "speed"}
    BY <2>1 DEF MeterInv, TypeOK, Callers
  <2>3. \A c \in Callers : SampleInv(c)
    BY <2>1 DEF MeterInv, SamplesInv, Callers, Other
  <2> QED
    BY <2>1, <2>2, <2>3 DEF SampleInv, Bounded, Callers, extremes
<1>4. ASSUME NEW c \in Callers, SecondsCounterProc(c) PROVE SamplesInv'
  BY <1>4, OwnStep
<1>5. CASE \/ ReadCount \/ WriteCount \/ EndTest \/ UNCHANGED vars
           \/ \E usage \in CpuUsages : CpuUsageUpdateProc(usage)
  <2>1. UNCHANGED <<SecondsCount, extremes, proc, samples, overlapped>>
    BY <1>5 DEF ReadCount, WriteCount, EndTest, CpuUsageUpdateProc, vars,
                counters, history
  <2> QED
    BY <2>1 DEF MeterInv, SamplesInv, SampleInv, Bounded, extremes, proc
<1> QED
  BY <1>1, <1>2, <1>3, <1>4, <1>5 DEF Next

LEMMA MeterKept == Spec => []MeterInv
<1>1. Init => AloneInv /\ SamplesInv
  BY DEF Init, AloneInv, SamplesInv, SampleInv, Bounded, Callers
<1>2. TypeOK /\ AloneInv /\ SamplesInv /\ [Next]_vars => AloneInv' /\ SamplesInv'
  BY AloneStep, SamplesStep DEF MeterInv
<1>3. TypeOK /\ AloneInv /\ SamplesInv => MeterInv
  BY DEF MeterInv
<1> QED
  BY <1>1, <1>2, <1>3, TypeCorrect, PTL DEF Spec

\* However many samples are taken on the two threads, as long as no two meet
\* inside SecondsCounterProc: between samples the minimum and the maximum
\* bound every sample but the first of a test.
THEOREM SamplesAreBounded == Spec => []ExtremesBoundSamples
<1>1. MeterInv => ExtremesBoundSamples
  BY CallersAre DEF MeterInv, SamplesInv, SampleInv, Bounded, ExtremesBoundSamples,
                    Quiet, Other
<1> QED
  BY <1>1, MeterKept, PTL

-----------------------------------------------------------------------------
(* The label of the maximum. *)

\* A maximum that is not shown yet is about to be.
ShownInv ==
  ~overlapped /\ ~cleared =>
    shownMax >= gMaxSpeed \/ \E c \in Callers : at[c] = "showmax"

LEMMA ShownStep ==
  ASSUME MeterInv, ShownInv, [Next]_vars
  PROVE  ShownInv'
<1> USE DEF ShownInv
<1>0. shownMax \in Nat /\ gMaxSpeed \in Nat /\ speed \in [Callers -> Nat]
      /\ at \in [Callers -> Places]
  BY DEF MeterInv, TypeOK
<1>1. CASE StartTest
  BY <1>0, <1>1 DEF StartTest, labels
<1>2. CASE Clear
  BY <1>2 DEF Clear
<1>3. CASE EndLoop \/ Tick
  <2>1. UNCHANGED <<shownMax, gMaxSpeed, cleared>> /\ (overlapped => overlapped')
    BY <1>3 DEF EndLoop, Tick, labels, extremes
  <2>2. \A c \in Callers : at[c] = "showmax" => at'[c] = "showmax"
    BY <1>0, <1>3 DEF EndLoop, Tick, Go, MeterInv, AloneInv
  <2> QED
    BY <2>1, <2>2
<1>4. ASSUME NEW c \in Callers, SecondsCounterProc(c) PROVE ShownInv'
  <2>0. /\ UNCHANGED <<overlapped, cleared>>
        /\ \A d \in Callers : d # c => at'[d] = at[d]
    BY <1>0, <1>4 DEF SecondsCounterProc, Speed, Maximum, ShowMaximum, Minimum,
                ShowMinimum, FirstMinimum, FirstMaximum, ReadSeconds,
                WriteSeconds, Zero, Go, history
  <2>1. CASE Maximum(c)
    <3>1. CASE speed[c] > gMaxSpeed
      BY <1>0, <2>1, <3>1 DEF Maximum, Go
    <3>2. CASE ~(speed[c] > gMaxSpeed)
      BY <1>0, <2>0, <2>1, <3>2 DEF Maximum, Go, labels
    <3> QED
      BY <3>1, <3>2
  <2>2. CASE ShowMaximum(c)
    BY <1>0, <2>2 DEF ShowMaximum, extremes
  <2>3. CASE FirstMaximum(c)
    <3>1. ~overlapped => gMaxSpeed' <= gMaxSpeed
      <4>1. ~overlapped => at[Other(c)] = "out"
        BY <2>3 DEF FirstMaximum, Go, MeterInv, AloneInv, Other, Callers
      <4> QED
        BY <2>3, <4>1 DEF FirstMaximum, Go, MeterInv, SamplesInv, SampleInv
    <3>2. gMaxSpeed' \in Nat /\ shownMax' = shownMax /\ at[c] = "firstmax"
      BY <1>0, <2>3 DEF FirstMaximum, Go, labels
    <3> QED
      BY <1>0, <2>0, <3>1, <3>2
  <2>4. CASE ~(Maximum(c) \/ ShowMaximum(c) \/ FirstMaximum(c))
    <3>1. UNCHANGED <<shownMax, gMaxSpeed>> /\ at[c] # "showmax"
      BY <1>4, <2>4 DEF SecondsCounterProc, Speed, Minimum, ShowMinimum,
                        FirstMinimum, ReadSeconds, WriteSeconds, Zero, Go,
                        labels, extremes
    <3> QED
      BY <2>0, <3>1
  <2> QED
    BY <2>1, <2>2, <2>3, <2>4
<1>5. CASE \/ ReadCount \/ WriteCount \/ EndTest \/ UNCHANGED vars
           \/ \E usage \in CpuUsages : CpuUsageUpdateProc(usage)
  BY <1>5 DEF ReadCount, WriteCount, EndTest, CpuUsageUpdateProc, vars, labels,
              extremes, proc, history
<1> QED
  BY <1>1, <1>2, <1>3, <1>4, <1>5 DEF Next

\* Unless samples met or Clear was pressed: between samples the dialog shows
\* a maximum that is not below the one measured.
THEOREM MaximumShown == Spec => []MaximumIsShown
<1>1. Init => ShownInv
  BY DEF Init, ShownInv
<1>2. MeterInv /\ ShownInv /\ [Next]_vars => ShownInv'
  BY ShownStep
<1>3. ShownInv => MaximumIsShown
  BY DEF ShownInv, MaximumIsShown, Quiet
<1> QED
  BY <1>1, <1>2, <1>3, MeterKept, PTL DEF Spec

-----------------------------------------------------------------------------
(* The CPU figures. *)

\* Once a figure was taken the warm-up is over.
CpuInv ==
  gCurrentCpuUsage # 0 /\ ~cleared /\ ~overlapped =>
    /\ SecondsCount >= WarmUp
    /\ gMinCpuUsage <= gCurrentCpuUsage /\ gCurrentCpuUsage <= gMaxCpuUsage

LEMMA CpuStep ==
  ASSUME ConstantsAssumption, MeterInv, CpuInv, [Next]_vars
  PROVE  CpuInv'
<1> USE DEF CpuInv
<1>1. CASE StartTest \/ Clear
  BY <1>1 DEF StartTest, Clear
<1>2. CASE \/ ReadCount \/ WriteCount \/ EndLoop \/ EndTest \/ Tick
           \/ UNCHANGED vars
  BY <1>2 DEF ReadCount, WriteCount, EndLoop, EndTest, Tick, vars, counters,
              cpu, history
<1>3. ASSUME NEW c \in Callers, SecondsCounterProc(c) PROVE CpuInv'
  <2>1. CASE WriteSeconds(c)
    <3>1. ~overlapped => at[Other(c)] = "out"
      BY <2>1 DEF WriteSeconds, Go, MeterInv, AloneInv, Other, Callers
    <3>2. ~overlapped => SecondsCount' = SecondsCount + 1
      BY <2>1, <3>1 DEF WriteSeconds, Go, MeterInv, SamplesInv, SampleInv
    <3>3. SecondsCount \in Nat /\ WarmUp \in Nat
      BY DEF MeterInv, TypeOK, ConstantsAssumption
    <3> QED
      BY <2>1, <3>2, <3>3 DEF WriteSeconds, cpu, history
  <2>2. CASE ~WriteSeconds(c)
    BY <1>3, <2>2 DEF SecondsCounterProc, Speed, Maximum, ShowMaximum, Minimum,
                      ShowMinimum, FirstMinimum, FirstMaximum, ReadSeconds,
                      Zero, counters, cpu, history
  <2> QED
    BY <2>1, <2>2
<1>4. ASSUME NEW usage \in CpuUsages, CpuUsageUpdateProc(usage) PROVE CpuInv'
  <2>1. usage \in Nat /\ WarmUp \in Nat /\ SecondsCount \in Nat
        /\ gMinCpuUsage \in Nat /\ gMaxCpuUsage \in Nat
    BY DEF ConstantsAssumption, MeterInv, TypeOK
  <2>2. UNCHANGED <<SecondsCount, cleared, overlapped>>
    BY <1>4 DEF CpuUsageUpdateProc, counters, history
  <2>3. CASE SecondsCount < WarmUp
    BY <1>4, <2>1, <2>2, <2>3 DEF CpuUsageUpdateProc
  <2>4. CASE ~(SecondsCount < WarmUp)
    <3>1. /\ gCurrentCpuUsage' = usage
          /\ gMinCpuUsage' = IF usage < gMinCpuUsage THEN usage ELSE gMinCpuUsage
          /\ gMaxCpuUsage' = IF usage > gMaxCpuUsage THEN usage ELSE gMaxCpuUsage
      BY <1>4, <2>4 DEF CpuUsageUpdateProc
    <3> QED
      BY <2>1, <2>2, <2>4, <3>1
  <2> QED
    BY <2>3, <2>4
<1> QED
  BY <1>1, <1>2, <1>3, <1>4 DEF Next

\* Unless the warm-up was begun again: the CPU figures are in order.
THEOREM CpuFiguresInOrder == Spec => []CpuInOrder
<1>1. Init => CpuInv
  BY DEF Init, CpuInv
<1>2. MeterInv /\ CpuInv /\ [Next]_vars => CpuInv'
  BY ConstantsAssumption, CpuStep
<1>3. CpuInv => CpuInOrder
  BY DEF CpuInv, CpuInOrder
<1> QED
  BY <1>1, <1>2, <1>3, MeterKept, PTL DEF Spec
=============================================================================
