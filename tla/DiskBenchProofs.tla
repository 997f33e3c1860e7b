--------------------------- MODULE DiskBenchProofs ---------------------------
(***************************************************************************)
(* Theorems about DiskBench, for any number of test threads, handles,      *)
(* address ranges, file names and blocks, and whatever calls may fail: the *)
(* types, and the steps a stopped test can take.                           *)
(***************************************************************************)
EXTENDS DiskBench, TLAPS

\* The search for a name stops at the last one: what makes szFilePath, which
\* is set from the loop counter, a name.
NameBound == \A t \in Threads : pc[t] \in {"reset", "name"} => i[t] < NameLimit

\* No file is created or opened before a name was chosen.
NameChosen ==
  szFilePath = NoName =>
    \A t \in Threads : pc[t] \in {"idle", "begin", "reset", "name", "enable"}

TypeInv == TypeOK /\ NameBound /\ NameChosen

\* A test goes on by itself, or because its message box was answered.
TestStep(t) == TestThread(t) \/ Dismiss(t)

LEMMA TypeInit == Init => TypeInv
<1> SUFFICES ASSUME Init PROVE TypeInv
  OBVIOUS
<1>1. pc \in [Threads -> ThreadStates] /\ ui \in DialogStates
  BY DEF Init, ThreadStates, DialogStates
<1>2. type \in [Threads -> TestTypes \union {NoTest}]
  BY DEF Init
<1>3. path \in [Handles -> Names \union {NoName}] /\ szFilePath = NoName
  BY DEF Init
<1>4. late \in [Threads -> 0 .. 2] /\ i \in [Threads -> Nat]
  BY DEF Init
<1>8. stopped \in [Threads -> {"no", "pressed", "in time"}]
  BY DEF Init
<1>5. TypeOK
  BY <1>1, <1>2, <1>3, <1>4, <1>8 DEF Init, TypeOK
<1>6. NameBound
  BY DEF Init, NameBound
<1>7. NameChosen
  BY DEF Init, NameChosen
<1> QED
  BY <1>5, <1>6, <1>7 DEF TypeInv

\* What CloseHandle and VirtualFree leave is well typed.
LEMMA CloseType ==
  ASSUME TypeOK, NEW h, CloseHandle(h)
  PROVE  path' \in [Handles -> Names \union {NoName}] /\ sole' \subseteq Handles
BY DEF TypeOK, CloseHandle

LEMMA FreeType ==
  ASSUME TypeOK, NEW p, VirtualFree(p)
  PROVE  mem' \in [Regions -> {"free", "megabyte", "block", "reserved"}]
BY DEF TypeOK, VirtualFree

LEMMA MegabyteType ==
  ASSUME TypeOK, NEW p, FreeMegabyte(p)
  PROVE  mem' \in [Regions -> {"free", "megabyte", "block", "reserved"}]
BY FreeType DEF TypeOK, FreeMegabyte

LEMMA AllocType ==
  ASSUME TypeOK, NEW state \in {"megabyte", "block"}, VirtualAlloc(state)
  PROVE  /\ mem' \in [Regions -> {"free", "megabyte", "block", "reserved"}]
         /\ pData' \in Regions \union {NULL}
BY DEF TypeOK, VirtualAlloc

LEMMA DeleteType ==
  ASSUME TypeOK, NEW p, DeleteFile(p)
  PROVE  files' \subseteq Names /\ kept' \subseteq Names
BY DEF TypeOK, DeleteFile

LEMMA LeaveType ==
  ASSUME TypeOK, LeaveFile
  PROVE  kept' \subseteq Names
BY DEF TypeOK, LeaveFile

LEMMA RefusedType ==
  ASSUME TypeOK, NEW call, NEW p, NEW alone,
         OpenRefused(call, p, alone)
  PROVE  /\ path' \in [Handles -> Names \union {NoName}]
         /\ sole' \subseteq Handles
         /\ hFileHandle' \in Handles \union {INVALID_HANDLE_VALUE}
BY DEF TypeOK, OpenRefused

LEMMA OpenType ==
  ASSUME TypeOK, NEW h \in Handles, NEW p \in Names \union {NoName},
         NEW alone, OpenFile(h, p, alone)
  PROVE  /\ path' \in [Handles -> Names \union {NoName}]
         /\ sole' \subseteq Handles
         /\ hFileHandle' \in Handles \union {INVALID_HANDLE_VALUE}
BY DEF TypeOK, OpenFile

\* The count of blocks moved after Stop stays in its range.
LEMMA OneMore == \A n \in 0 .. 2 : n < 2 => n + 1 \in 0 .. 2
OBVIOUS

LEMMA MovedType ==
  ASSUME TypeOK, NEW t \in Threads, Moved(t)
  PROVE  late' \in [Threads -> 0 .. 2]
<1> DEFINE n == IF stopped[t] = "in time" /\ late[t] < 2
                THEN late[t] + 1 ELSE late[t]
<1>1. late[t] \in 0 .. 2 /\ late \in [Threads -> 0 .. 2]
  BY DEF TypeOK
<1>2. n \in 0 .. 2
  <2>1. CASE stopped[t] = "in time" /\ late[t] < 2
    <3>1. late[t] + 1 \in 0 .. 2
      BY <1>1, <2>1, OneMore
    <3> QED
      BY <2>1, <3>1, Zenon
  <2>2. CASE ~(stopped[t] = "in time" /\ late[t] < 2)
    BY <1>1, <2>2, Zenon
  <2> QED
    BY <2>1, <2>2
<1>3. late' = [late EXCEPT ![t] = n]
  BY DEF Moved
<1> HIDE DEF n
<1> QED
  BY <1>1, <1>2, <1>3

\* The loop counter and the name made from it.
LEMMA CounterType ==
  ASSUME TypeInv, NEW t \in Threads
  PROVE  /\ [i EXCEPT ![t] = i[t] + 1] \in [Threads -> Nat]
         /\ [i EXCEPT ![t] = 0] \in [Threads -> Nat]
         /\ [late EXCEPT ![t] = 0] \in [Threads -> 0 .. 2]
         /\ 0 < NameLimit
         /\ pc[t] = "name" => i[t] + 1 \in Names /\ i[t] + 1 # NoName
<1>4. late \in [Threads -> 0 .. 2]
  BY DEF TypeInv, TypeOK
<1>5. 0 \in 0 .. 2
  OBVIOUS
<1>3. [late EXCEPT ![t] = 0] \in [Threads -> 0 .. 2]
  BY <1>4, <1>5
<1>1. i \in [Threads -> Nat] /\ i[t] \in Nat
  BY DEF TypeInv, TypeOK
<1>2. pc[t] = "name" => i[t] < NameLimit
  BY DEF TypeInv, NameBound
<1> QED
  BY <1>1, <1>2, <1>3, ConstantsAssumption DEF Names, NoName

\* A test thread keeps the types.
LEMMA ThreadType ==
  ASSUME TypeInv, NEW t \in Threads, TestStep(t)
  PROVE  TypeInv'
<1> USE DEF TypeInv, TypeOK, NameBound, NameChosen, At, ThreadStates, dialog,
        globals, local, system, history
<1>1. CASE Begin(t)
  <2>1. selected \in TestTypes \union {NoTest}
    BY SelectableAssumption
  <2>2. type' \in [Threads -> TestTypes \union {NoTest}]
    BY <1>1, <2>1 DEF Begin
  <2>3. pc' \in [Threads -> ThreadStates] /\ i' \in [Threads -> Nat]
    BY <1>1 DEF Begin
  <2>4. NameBound' /\ NameChosen'
    BY <1>1, CounterType DEF Begin
  <2>5. UNCHANGED <<ui, selected, timers, globals, system, history>>
        /\ combosEnabled' \in BOOLEAN
    BY <1>1 DEF Begin
  <2> QED
    BY <2>2, <2>3, <2>4, <2>5
<1>2. CASE Reset(t)
  BY <1>2 DEF Reset
<1>3. CASE NextName(t)
  <2>1. szFilePath' \in Names /\ szFilePath' # NoName
    BY <1>3, CounterType DEF NextName
  <2>2. i' \in [Threads -> Nat] /\ pc' \in [Threads -> ThreadStates]
    BY <1>3, CounterType DEF NextName
  <2>3. NameBound'
    BY <1>3 DEF NextName
  <2> QED
    BY <1>3, <2>1, <2>2, <2>3 DEF NextName
<1>4. CASE LookUp(t)
  BY <1>4 DEF LookUp
<1>5. CASE Create(t)
  <2>1. /\ path' \in [Handles -> Names \union {NoName}]
        /\ sole' \subseteq Handles
        /\ hFileHandle' \in Handles \union {INVALID_HANDLE_VALUE}
    BY <1>5, OpenType, RefusedType DEF Create
  <2>2. files' \subseteq Names /\ kept' \subseteq Names
    BY <1>5 DEF Create, NoName
  <2> QED
    BY <1>5, <2>1, <2>2 DEF Create
<1>28. CASE Dismiss(t)
  BY <1>28 DEF Dismiss
<1>6. CASE Volume(t)
  BY <1>6 DEF Volume
<1>7. CASE AllocFill(t)
  BY <1>7, AllocType DEF AllocFill
<1>8. CASE Memset(t)
  BY <1>8 DEF Memset
<1>9. CASE Fill(t)
  BY <1>9 DEF Fill
<1>10. CASE FillBlock(t)
  <2>1. late' \in [Threads -> 0 .. 2]
    BY <1>10, MovedType DEF FillBlock
  <2>2. i' \in [Threads -> Nat] /\ pc' \in [Threads -> ThreadStates]
    BY <1>10, CounterType DEF FillBlock
  <2>3. NameBound' /\ NameChosen'
    BY <1>10 DEF FillBlock
  <2> QED
    BY <1>10, <2>1, <2>2, <2>3 DEF FillBlock
<1>11. CASE FreeFill(t)
  BY <1>11, MegabyteType DEF FreeFill
<1>12. CASE CloseFill(t)
  BY <1>12, CloseType DEF CloseFill
<1>13. CASE FailFree(t)
  BY <1>13, MegabyteType DEF FailFree
<1>14. CASE FailClose(t)
  BY <1>14, CloseType DEF FailClose
<1>15. CASE FailDelete(t)
  BY <1>15, DeleteType DEF FailDelete
<1>16. CASE DeleteFailed(t)
  BY <1>16, DeleteType DEF DeleteFailed
<1>17. CASE Reopen(t)
  <2>1. /\ path' \in [Handles -> Names \union {NoName}]
        /\ sole' \subseteq Handles
        /\ hFileHandle' \in Handles \union {INVALID_HANDLE_VALUE}
    BY <1>17, OpenType, RefusedType DEF Reopen
  <2>2. pc' \in [Threads -> ThreadStates]
    BY <1>17 DEF Reopen
  <2>3. NameBound' /\ NameChosen'
    BY <1>17 DEF Reopen
  <2>5. kept' \subseteq Names
    BY <1>17, LeaveType DEF Reopen
  <2>4. UNCHANGED <<dialog, szFilePath, pData, IsTestCanceled, type, i, files,
                    mem, stopped, late>>
    BY <1>17 DEF Reopen
  <2> QED
    BY <2>1, <2>2, <2>3, <2>4, <2>5
<1>18. CASE Alloc(t)
  BY <1>18, AllocType DEF Alloc
<1>19. CASE CloseLeave(t)
  BY <1>19, CloseType, LeaveType DEF CloseLeave
<1>20. CASE Arm(t)
  BY <1>20 DEF Arm
<1>21. CASE Loop(t)
  BY <1>21 DEF Loop
<1>22. CASE CountBlock(t)
  <2>1. late' \in [Threads -> 0 .. 2]
    BY <1>22, MovedType DEF CountBlock
  <2>2. i' \in [Threads -> Nat]
    BY <1>22, CounterType DEF CountBlock
  <2>3. pc' \in [Threads -> ThreadStates]
    BY <1>22 DEF CountBlock
  <2>4. NameBound' /\ NameChosen'
    BY <1>22 DEF CountBlock
  <2>5. UNCHANGED <<dialog, globals, type, system, stopped, kept>>
    BY <1>22 DEF CountBlock
  <2> QED
    BY <2>1, <2>2, <2>3, <2>4, <2>5
<1>29. CASE SeekRefused(t) \/ SequentialError(t)
  BY <1>29 DEF SeekRefused, SequentialError
<1>30. CASE Transfer(t)
  BY <1>22, <1>29, <1>30 DEF Transfer, RandomBlock, SequentialBlock
<1>23. CASE FreeBlock(t)
  BY <1>23, FreeType DEF FreeBlock
<1>24. CASE KillTimers(t)
  BY <1>24 DEF KillTimers
<1>25. CASE CloseTest(t)
  BY <1>25, CloseType DEF CloseTest
<1>26. CASE DeleteTest(t)
  BY <1>26, DeleteType DEF DeleteTest
<1>27. CASE Enable(t)
  <2>1. late' \in [Threads -> 0 .. 2]
    BY <1>27, CounterType DEF Enable
  <2>3. i' \in [Threads -> Nat]
    BY <1>27, CounterType DEF Enable
  <2>2. NameBound' /\ NameChosen'
    BY <1>27 DEF Enable
  <2> QED
    BY <1>27, <2>1, <2>2, <2>3 DEF Enable
<1> QED
  BY <1>1, <1>2, <1>3, <1>4, <1>5, <1>6, <1>7, <1>8, <1>9, <1>10, <1>11,
     <1>12, <1>13, <1>14, <1>15, <1>16, <1>17, <1>18, <1>19, <1>20, <1>21,
     <1>23, <1>24, <1>25, <1>26, <1>27, <1>28, <1>30 DEF TestStep, TestThread

\* The end of the process, however it comes, leaves well-typed variables.
LEMMA EndType ==
  ASSUME TypeInv, NEW how \in DialogStates, EndProcess(how)
  PROVE  TypeInv'
<1>1. pc' \in [Threads -> ThreadStates] /\ ui' \in DialogStates
  BY DEF EndProcess, ThreadStates
<1>2. type' \in [Threads -> TestTypes \union {NoTest}]
  BY DEF EndProcess
<1>3. path' \in [Handles -> Names \union {NoName}] /\ szFilePath' = NoName
  BY DEF EndProcess
<1>4. late' \in [Threads -> 0 .. 2] /\ i' \in [Threads -> Nat]
  BY DEF EndProcess
<1>5. UNCHANGED <<selected, files>> /\ sole' = {} /\ timers' = {}
  BY DEF EndProcess
<1>9. /\ stopped' \in [Threads -> {"no", "pressed", "in time"}]
      /\ kept' \subseteq Names
  BY DEF EndProcess, TypeInv, TypeOK
<1>6. mem' \in [Regions -> {"free", "megabyte", "block", "reserved"}]
  BY DEF EndProcess
<1>7. TypeOK'
  BY <1>1, <1>2, <1>3, <1>4, <1>5, <1>6, <1>9 DEF EndProcess, TypeInv, TypeOK
<1>8. NameBound' /\ NameChosen'
  BY DEF EndProcess, NameBound, NameChosen
<1> QED
  BY <1>7, <1>8 DEF TypeInv

\* So do the commands and the closing of the dialog.
LEMMA DialogType ==
  ASSUME TypeInv,
         \/ \E t \in Threads : Start(t)
         \/ \E x \in Selectable : Select(x)
         \/ Stop \/ Close \/ CloseDelete \/ CloseKill \/ CloseFree \/ Launch
  PROVE  TypeInv'
<1> USE DEF TypeInv, TypeOK, NameBound, NameChosen, DialogStates, dialog,
        globals, local, system, history
<1>1. ASSUME NEW t \in Threads, Start(t) PROVE TypeInv'
  BY <1>1 DEF Start, At, ThreadStates
<1>2. ASSUME NEW x \in Selectable, Select(x) PROVE TypeInv'
  BY <1>2 DEF Select
<1>3. CASE Stop
  BY <1>3 DEF Stop
<1>4. CASE Close
  BY <1>4, CloseType DEF Close
<1>5. CASE CloseDelete
  BY <1>5, DeleteType DEF CloseDelete
<1>6. CASE CloseKill
  BY <1>6 DEF CloseKill
<1>7. CASE CloseFree
  BY <1>7, MegabyteType DEF CloseFree
<1>8. CASE Launch
  BY <1>8 DEF Launch
<1> QED
  BY <1>1, <1>2, <1>3, <1>4, <1>5, <1>6, <1>7, <1>8

LEMMA TypeStep == TypeInv /\ [Next]_vars => TypeInv'
<1> SUFFICES ASSUME TypeInv, [Next]_vars PROVE TypeInv'
  OBVIOUS
<1>1. CASE \E t \in Threads : TestStep(t)
  BY <1>1, ThreadType
<1>2. CASE Exit \/ Kill \/ \E t \in Threads : Fault(t)
  <2>1. \E how \in DialogStates : EndProcess(how)
    BY <1>2 DEF Exit, Kill, Fault, DialogStates
  <2> QED
    BY <2>1, EndType
<1>3. CASE UNCHANGED vars
  BY <1>3 DEF vars, dialog, globals, local, system, history, TypeInv, TypeOK,
              NameBound, NameChosen
<1> QED
  BY <1>1, <1>2, <1>3, DialogType DEF Next, Dialog, TestStep

\* Whatever the user does, whatever fails and however many tests run at
\* once, every variable keeps its type; in particular szFilePath never gets
\* past the last name the code tries.
THEOREM TypeCorrect == Spec => []TypeOK
<1>1. TypeInv => TypeOK
  BY DEF TypeInv
<1> QED
  BY TypeInit, TypeStep, <1>1, PTL DEF Spec
-----------------------------------------------------------------------------
(* How soon a test ends when Stop was pressed.                             *)

\* The most steps a test takes with IsTestCanceled set.
MaxStopSteps == 2 * NameLimit + 19

\* The steps a test at place p may still take after n names were tried.
StopStepsFrom(p, n) ==
  CASE p = "begin"        -> 2 * NameLimit + 19
    [] p = "reset"        -> 2 * NameLimit + 18
    [] p = "name"         -> 2 * (NameLimit - n) + 18
    [] p = "lookup"       -> IF n < NameLimit THEN 2 * (NameLimit - n) + 19
                             ELSE 19
    [] p = "create"       -> 18
    [] p = "volume"       -> 17
    [] p = "allocfill"    -> 16
    [] p = "memset"       -> 15
    [] p = "fillblock"    -> 14
    [] p = "fill"         -> 13
    [] p = "freefill"     -> 12
    [] p = "closefill"    -> 11
    [] p = "reopen"       -> 10
    [] p = "alloc"        -> 9
    [] p = "arm"          -> 8
    [] p = "transfer"     -> 7
    [] p = "loop"         -> 6
    [] p = "free"         -> 5
    [] p = "failfree"     -> 5
    [] p = "kill"         -> 4
    [] p = "failclose"    -> 4
    [] p = "close"        -> 3
    [] p = "faildelete"   -> 3
    [] p = "delete"       -> 2
    [] p = "message"      -> 3
    [] p = "deletefailed" -> 2
    [] p = "closeleave"   -> 2
    [] p = "enable"       -> 1
    [] p = "idle"         -> 0

StopStepsLeft(t) == StopStepsFrom(pc[t], i[t])

\* With Stop in force a test never has more than MaxStopSteps steps before it.
StopStepsBounded == \A t \in Threads : StopStepsLeft(t) \in 0 .. MaxStopSteps

\* While Stop stays in force every step of a test leaves it fewer steps, and
\* no step of another test or of the dialog gives it more.
StopStepsDecrease ==
  [][IsTestCanceled /\ IsTestCanceled' =>
       \A t \in Threads :
         /\ TestStep(t) => StopStepsLeft(t)' < StopStepsLeft(t)
         /\ pc[t] # "idle" => StopStepsLeft(t)' <= StopStepsLeft(t)]_vars

LEMMA NameLimitType == NameLimit \in Nat /\ NameLimit > 0
BY ConstantsAssumption

\* The steps left at a place where no names are counted.
Fixed == {"create", "volume", "allocfill", "memset", "fillblock", "fill",
          "freefill", "closefill", "reopen", "alloc", "arm", "transfer",
          "loop", "free", "failfree", "kill", "failclose", "close",
          "faildelete", "delete", "deletefailed", "closeleave", "enable",
          "idle", "message"}

LEMMA FixedSteps ==
  /\ \A n : /\ StopStepsFrom("create", n) = 18
            /\ StopStepsFrom("volume", n) = 17
            /\ StopStepsFrom("allocfill", n) = 16
            /\ StopStepsFrom("memset", n) = 15
            /\ StopStepsFrom("fillblock", n) = 14
            /\ StopStepsFrom("fill", n) = 13
  /\ \A n : /\ StopStepsFrom("freefill", n) = 12
            /\ StopStepsFrom("closefill", n) = 11
            /\ StopStepsFrom("reopen", n) = 10
            /\ StopStepsFrom("alloc", n) = 9
            /\ StopStepsFrom("arm", n) = 8
            /\ StopStepsFrom("transfer", n) = 7
  /\ \A n : /\ StopStepsFrom("loop", n) = 6
            /\ StopStepsFrom("free", n) = 5
            /\ StopStepsFrom("failfree", n) = 5
            /\ StopStepsFrom("kill", n) = 4
            /\ StopStepsFrom("failclose", n) = 4
            /\ StopStepsFrom("close", n) = 3
  /\ \A n : /\ StopStepsFrom("faildelete", n) = 3
            /\ StopStepsFrom("delete", n) = 2
            /\ StopStepsFrom("deletefailed", n) = 2
            /\ StopStepsFrom("closeleave", n) = 2
            /\ StopStepsFrom("message", n) = 3
            /\ StopStepsFrom("enable", n) = 1
            /\ StopStepsFrom("idle", n) = 0
BY DEF StopStepsFrom

LEMMA CountedSteps ==
  ASSUME NEW n
  PROVE  /\ StopStepsFrom("begin", n) = 2 * NameLimit + 19
         /\ StopStepsFrom("reset", n) = 2 * NameLimit + 18
         /\ StopStepsFrom("name", n) = 2 * (NameLimit - n) + 18
         /\ n < NameLimit =>
              StopStepsFrom("lookup", n) = 2 * (NameLimit - n) + 19
         /\ ~(n < NameLimit) => StopStepsFrom("lookup", n) = 19
BY DEF StopStepsFrom

LEMMA FixedBound ==
  ASSUME NEW p \in Fixed, NEW n
  PROVE  StopStepsFrom(p, n) \in 0 .. 18
BY FixedSteps DEF Fixed

LEMMA StopStepsType ==
  ASSUME NEW p \in ThreadStates, NEW n \in Nat, p = "name" => n < NameLimit
  PROVE  /\ StopStepsFrom(p, n) \in 0 .. MaxStopSteps
         /\ p # "idle" => StopStepsFrom(p, n) > 0
<1>1. MaxStopSteps \in Nat /\ MaxStopSteps >= 19
  BY NameLimitType DEF MaxStopSteps
<1>2. CASE p \in Fixed
  <2>1. StopStepsFrom(p, n) \in 0 .. 18
    BY <1>2, FixedBound
  <2>2. p # "idle" => StopStepsFrom(p, n) > 0
    BY <1>2, FixedSteps DEF Fixed
  <2> QED
    BY <1>1, <2>1, <2>2
<1>3. CASE p = "name"
  BY <1>3, NameLimitType, CountedSteps DEF MaxStopSteps
<1>4. CASE p = "lookup"
  BY <1>4, NameLimitType, CountedSteps DEF MaxStopSteps
<1>5. CASE p \in {"begin", "reset"}
  BY <1>5, NameLimitType, CountedSteps DEF MaxStopSteps
<1> QED
  BY <1>2, <1>3, <1>4, <1>5 DEF ThreadStates, Fixed

\* A step of a stopped test, by the place it is taken at.
LEMMA StoppedStep ==
  ASSUME TypeInv, NEW t \in Threads, TestStep(t),
         IsTestCanceled, IsTestCanceled'
  PROVE  \/ pc[t] = "begin" /\ pc'[t] \in {"reset", "enable"}
         \/ pc[t] = "begin" /\ pc'[t] = "name" /\ i'[t] = 0
         \/ pc[t] = "name" /\ pc'[t] = "lookup" /\ i'[t] = i[t] + 1
         \/ /\ pc[t] = "lookup" /\ pc'[t] = "name"
            /\ i'[t] = i[t] /\ i[t] < NameLimit
         \/ pc[t] = "lookup" /\ pc'[t] = "create"
         \/ <<pc[t], pc'[t]>> \in
              {<<"create", "deletefailed">>, <<"create", "volume">>,
               <<"create", "message">>, <<"message", "deletefailed">>,
               <<"volume", "allocfill">>, <<"volume", "failfree">>,
               <<"allocfill", "failfree">>, <<"allocfill", "memset">>,
               <<"memset", "fill">>, <<"fill", "freefill">>,
               <<"fill", "failfree">>, <<"fillblock", "fill">>}
         \/ <<pc[t], pc'[t]>> \in
              {<<"freefill", "closefill">>, <<"closefill", "reopen">>,
               <<"failfree", "failclose">>, <<"failclose", "faildelete">>,
               <<"faildelete", "deletefailed">>, <<"deletefailed", "enable">>,
               <<"reopen", "deletefailed">>, <<"reopen", "enable">>,
               <<"reopen", "alloc">>, <<"alloc", "arm">>,
               <<"alloc", "closeleave">>, <<"alloc", "free">>}
         \/ <<pc[t], pc'[t]>> \in
              {<<"closeleave", "enable">>, <<"arm", "loop">>,
               <<"loop", "free">>, <<"transfer", "loop">>,
               <<"transfer", "free">>, <<"free", "kill">>,
               <<"kill", "close">>, <<"close", "delete">>,
               <<"delete", "enable">>, <<"enable", "idle">>}
<1> USE DEF TypeInv, TypeOK, At
<1>1. CASE Begin(t)
  BY <1>1 DEF Begin
<1>2. CASE NextName(t)
  BY <1>2 DEF NextName
<1>3. CASE LookUp(t)
  BY <1>3 DEF LookUp
<1>4. CASE Create(t)
  BY <1>4 DEF Create
<1>5. CASE Volume(t)
  BY <1>5 DEF Volume
<1>6. CASE AllocFill(t)
  BY <1>6 DEF AllocFill
<1>7. CASE Memset(t) \/ Fill(t) \/ FillBlock(t)
  BY <1>7 DEF Memset, Fill, FillBlock
<1>8. CASE FreeFill(t) \/ CloseFill(t) \/ FailFree(t) \/ FailClose(t)
  BY <1>8 DEF FreeFill, CloseFill, FailFree, FailClose
<1>9. CASE FailDelete(t) \/ DeleteFailed(t)
  BY <1>9 DEF FailDelete, DeleteFailed
<1>10. CASE Reopen(t)
  BY <1>10 DEF Reopen
<1>11. CASE Alloc(t)
  BY <1>11 DEF Alloc
<1>12. CASE CloseLeave(t) \/ Arm(t)
  BY <1>12 DEF CloseLeave, Arm
<1>13. CASE Loop(t) \/ Transfer(t)
  BY <1>13 DEF Loop, Transfer, RandomBlock, SequentialBlock, CountBlock,
               SeekRefused, SequentialError
<1>17. CASE Dismiss(t)
  BY <1>17 DEF Dismiss
<1>14. CASE FreeBlock(t) \/ KillTimers(t) \/ CloseTest(t) \/ DeleteTest(t)
  BY <1>14 DEF FreeBlock, KillTimers, CloseTest, DeleteTest
<1>15. CASE Enable(t)
  BY <1>15 DEF Enable
<1>16. ~Reset(t)
  BY DEF Reset
<1> QED
  BY <1>1, <1>2, <1>3, <1>4, <1>5, <1>6, <1>7, <1>8, <1>9, <1>10, <1>11,
     <1>12, <1>13, <1>14, <1>15, <1>16, <1>17 DEF TestStep, TestThread

LEMMA StoppedDecreases ==
  ASSUME TypeInv, NEW t \in Threads, TestStep(t),
         IsTestCanceled, IsTestCanceled'
  PROVE  /\ StopStepsLeft(t)' \in Nat
         /\ StopStepsLeft(t)' < StopStepsLeft(t)
<1> DEFINE p == pc[t]
           q == pc'[t]
           n == i[t]
           m == i'[t]
<1>1. n \in Nat /\ (p = "name" => n < NameLimit)
  BY DEF TypeInv, TypeOK, NameBound
<1>2. /\ StopStepsFrom(q, m) \in Nat
      /\ StopStepsFrom(q, m) < StopStepsFrom(p, n)
  <2>1. CASE p = "begin" /\ q \in {"reset", "enable"}
    BY <2>1, NameLimitType, CountedSteps, FixedSteps
  <2>2. CASE p = "begin" /\ q = "name" /\ m = 0
    BY <2>2, NameLimitType, CountedSteps
  <2>3. CASE p = "name" /\ q = "lookup" /\ m = n + 1
    <3>1. CASE n + 1 < NameLimit
      BY <1>1, <2>3, <3>1, NameLimitType, CountedSteps
    <3>2. CASE ~(n + 1 < NameLimit)
      BY <1>1, <2>3, <3>2, NameLimitType, CountedSteps
    <3> QED
      BY <3>1, <3>2
  <2>4. CASE p = "lookup" /\ q = "name" /\ m = n /\ n < NameLimit
    BY <1>1, <2>4, NameLimitType, CountedSteps
  <2>5. CASE p = "lookup" /\ q = "create"
    BY <1>1, <2>5, NameLimitType, CountedSteps, FixedSteps
  <2>6. CASE p \in Fixed /\ q \in Fixed
    BY <2>6, StoppedStep, FixedSteps DEF Fixed
  <2> QED
    BY <2>1, <2>2, <2>3, <2>4, <2>5, <2>6, StoppedStep DEF Fixed
<1> QED
  BY <1>2 DEF StopStepsLeft, StopStepsFrom

\* What a step does to a test that does not take it.
LEMMA StepOfTest ==
  ASSUME TypeInv, [Next]_vars, NEW t \in Threads
  PROVE  \/ TestStep(t)
         \/ pc'[t] = pc[t] /\ i'[t] = i[t]
         \/ pc'[t] = "idle"
         \/ pc[t] = "idle" /\ pc'[t] = "begin"
<1> USE DEF TypeInv, TypeOK
<1>1. ASSUME NEW s \in Threads, TestStep(s), s # t
      PROVE  pc'[t] = pc[t] /\ i'[t] = i[t]
  <2> USE DEF At
  <2>1. CASE \/ Begin(s) \/ Reset(s) \/ NextName(s) \/ LookUp(s) \/ Create(s)
             \/ Volume(s) \/ AllocFill(s) \/ Memset(s)
    BY <1>1, <2>1 DEF Begin, Reset, NextName, LookUp, Create, Volume,
                      AllocFill, Memset
  <2>2. CASE \/ Fill(s) \/ FillBlock(s) \/ FreeFill(s) \/ CloseFill(s)
             \/ FailFree(s) \/ FailClose(s) \/ FailDelete(s)
             \/ DeleteFailed(s)
    BY <1>1, <2>2 DEF Fill, FillBlock, FreeFill, CloseFill, FailFree,
                      FailClose, FailDelete, DeleteFailed
  <2>3. CASE Reopen(s) \/ Alloc(s) \/ CloseLeave(s) \/ Arm(s) \/ Loop(s)
    BY <1>1, <2>3 DEF Reopen, Alloc, CloseLeave, Arm, Loop
  <2>4. CASE \/ FreeBlock(s) \/ KillTimers(s) \/ CloseTest(s)
             \/ DeleteTest(s) \/ Enable(s) \/ Dismiss(s)
    BY <1>1, <2>4 DEF FreeBlock, KillTimers, CloseTest, DeleteTest, Enable,
                      Dismiss
  <2>5. CASE Transfer(s)
    BY <1>1, <2>5 DEF Transfer, RandomBlock, SequentialBlock, CountBlock,
                      SeekRefused, SequentialError
  <2> QED
    BY <1>1, <2>1, <2>2, <2>3, <2>4, <2>5 DEF TestStep, TestThread
<1>2. ASSUME NEW s \in Threads, Start(s)
      PROVE  \/ pc'[t] = pc[t] /\ i'[t] = i[t]
             \/ pc[t] = "idle" /\ pc'[t] = "begin"
  BY <1>2 DEF Start, At
<1>3. CASE \/ \E x \in Selectable : Select(x)
           \/ Stop \/ Close \/ CloseDelete \/ CloseKill \/ CloseFree \/ Launch
           \/ UNCHANGED vars
  BY <1>3 DEF Select, Stop, Close, CloseDelete, CloseKill, CloseFree, Launch,
              vars, local
<1>4. CASE Exit \/ Kill \/ \E s \in Threads : Fault(s)
  <2>1. \E how : EndProcess(how)
    BY <1>4 DEF Exit, Kill, Fault
  <2>2. pc' = [s \in Threads |-> "idle"]
    BY <2>1 DEF EndProcess
  <2> QED
    BY <2>2
<1> QED
  BY <1>1, <1>2, <1>3, <1>4 DEF Next, Dialog, TestStep

\* However many tests run and whatever they do to each other's file, handle
\* and buffer: while Stop stays in force, every step of a test leaves it fewer
\* steps and nobody gives it more, so it ends after at most MaxStopSteps.
THEOREM StoppedTestsEnd == Spec => []StopStepsBounded /\ StopStepsDecrease
<1> DEFINE Decrease ==
             IsTestCanceled /\ IsTestCanceled' =>
               \A t \in Threads :
                 /\ TestStep(t) => StopStepsLeft(t)' < StopStepsLeft(t)
                 /\ pc[t] # "idle" => StopStepsLeft(t)' <= StopStepsLeft(t)
<1>1. TypeInv => \A t \in Threads :
                   /\ StopStepsLeft(t) \in 0 .. MaxStopSteps
                   /\ pc[t] # "idle" => StopStepsLeft(t) > 0
  BY StopStepsType DEF StopStepsLeft, TypeInv, TypeOK, NameBound
<1>2. TypeInv => StopStepsBounded
  BY <1>1 DEF StopStepsBounded
<1>3. TypeInv /\ [Next]_vars => [Decrease]_vars
  <2> SUFFICES ASSUME TypeInv, [Next]_vars, IsTestCanceled, IsTestCanceled',
                      NEW t \in Threads
               PROVE  /\ TestStep(t) => StopStepsLeft(t)' < StopStepsLeft(t)
                      /\ pc[t] # "idle" =>
                           StopStepsLeft(t)' <= StopStepsLeft(t)
    OBVIOUS
  <2>1. StopStepsLeft(t) \in Nat
    BY <1>1, NameLimitType DEF MaxStopSteps
  <2>2. CASE TestStep(t)
    <3>1. StopStepsLeft(t)' \in Nat /\ StopStepsLeft(t)' < StopStepsLeft(t)
      BY <2>2, StoppedDecreases
    <3> QED
      BY <2>1, <3>1
  <2>3. CASE ~TestStep(t) /\ pc'[t] = pc[t] /\ i'[t] = i[t]
    <3>1. StopStepsLeft(t)' = StopStepsLeft(t)
      BY <2>3 DEF StopStepsLeft, StopStepsFrom
    <3> QED
      BY <2>1, <2>3, <3>1
  <2>4. CASE ~TestStep(t) /\ pc'[t] = "idle"
    <3>1. StopStepsLeft(t)' = 0
      BY <2>4 DEF StopStepsLeft, StopStepsFrom
    <3> QED
      BY <2>1, <2>4, <3>1
  <2> QED
    BY <2>2, <2>3, <2>4, StepOfTest
<1>4. StopStepsDecrease <=> [][Decrease]_vars
  BY DEF StopStepsDecrease
<1>5. Init => TypeInv
  BY TypeInit
<1>6. TypeInv /\ [Next]_vars => TypeInv'
  BY TypeStep
<1> HIDE DEF Decrease
<1> QED
  BY <1>2, <1>3, <1>4, <1>5, <1>6, PTL DEF Spec
=============================================================================
