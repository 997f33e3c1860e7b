------------------------------ MODULE DiskBench ------------------------------
(***************************************************************************)
(* The disk benchmark (diskbench/diskbench.c): the dialog's thread, the    *)
(* test threads its Start button begins, and the process globals they all  *)
(* share without a lock: hFileHandle, szFilePath, pData, IsTestCanceled.   *)
(*                                                                         *)
(* A test creates a file, fills it, reopens it, transfers blocks, and      *)
(* cleans up.  Every step that reads or writes a shared global, or calls   *)
(* into Windows with one, is an action of its own, so that the dialog and  *)
(* other tests can run between any two of them.  Of Windows the model      *)
(* keeps what the code relies on: the handle table with its share modes,   *)
(* the files on the tested drive, and the states of reserved memory.       *)
(* The speed and CPU statistics are in SpeedMeter.                         *)
(***************************************************************************)
EXTENDS Integers, FiniteSets

CONSTANTS
  Threads,               \* test threads that can be alive at once
  Handles,               \* handle values the process can hold
  INVALID_HANDLE_VALUE,
  Regions,               \* address ranges VirtualAlloc can hand out
  NULL,
  NameLimit,             \* file names tried (101 in the code)
  FillCount,             \* blocks written when the file is created
  BlockCount,            \* blocks transferred by a test
  Selectable,            \* what the combo boxes can show
  MayFail                \* the system calls that may fail by themselves

ASSUME ConstantsAssumption ==
  /\ INVALID_HANDLE_VALUE \notin Handles
  /\ NULL \notin Regions
  /\ NameLimit \in Nat \ {0}
  /\ FillCount \in Nat \ {0}
  /\ BlockCount \in Nat \ {0}

\* TEST_TYPE_RAMDOM_READ .. TEST_TYPE_SEQ_WRITE, and an empty combo box.
ReadTests  == {"random read", "sequential read"}
WriteTests == {"random write", "sequential write"}
TestTypes  == ReadTests \union WriteTests
RandomTests == {"random read", "random write"}
NoTest == "none"

ASSUME SelectableAssumption == Selectable \subseteq TestTypes \union {NoTest}

Names == 1 .. NameLimit    \* aspia_read_test-1, aspia_read_test-2, ...
NoName == 0                \* the empty szFilePath

VARIABLES
  \* the dialog's thread
  ui, selected, combosEnabled, timers,
  \* the globals
  hFileHandle, szFilePath, pData, IsTestCanceled,
  \* the test threads: where they are, their TestType, their loop counter
  pc, type, i,
  \* Windows: the name each open handle is for, the handles opened with no
  \* sharing, the files on the drive, the state of each address range
  path, sole, files, mem,
  \* history: whether Stop was pressed during this test, and where the test
  \* would see it; the blocks it moved since; the files that may stay
  stopped, late, kept

dialog  == <<ui, selected, combosEnabled, timers>>
globals == <<hFileHandle, szFilePath, pData, IsTestCanceled>>
local   == <<pc, type, i>>
system  == <<path, sole, files, mem>>
history == <<stopped, late, kept>>
vars == <<dialog, globals, local, system, history>>

-----------------------------------------------------------------------------
(* What the code uses of Windows. *)

Open == {h \in Handles : path[h] # NoName}

\* A file can be opened for reading and writing by those who share it if
\* nobody holds it alone, and alone if nobody holds it.
Shareable(p) == \A h \in Open : path[h] = p => h \notin sole
Unused(p)    == \A h \in Open : path[h] # p

\* CreateFile: a free handle value (values are recycled) for the file.
OpenFile(h, p, alone) ==
  /\ h \in Handles \ Open
  /\ IF alone THEN Unused(p) ELSE Shareable(p)
  /\ path' = [path EXCEPT ![h] = p]
  /\ sole' = IF alone THEN sole \union {h} ELSE sole
  /\ hFileHandle' = h

\* CreateFile answers INVALID_HANDLE_VALUE when the open is refused.
OpenRefused(call, p, alone) ==
  /\ \/ call \in MayFail
     \/ Handles = Open
     \/ IF alone THEN ~Unused(p) ELSE ~Shareable(p)
  /\ hFileHandle' = INVALID_HANDLE_VALUE
  /\ UNCHANGED <<path, sole>>

\* CloseHandle of a value that is no open handle fails and changes nothing.
CloseHandle(h) ==
  /\ path' = [x \in Handles |-> IF x = h THEN NoName ELSE path[x]]
  /\ sole' = sole \ {h}

\* Nobody opens the file with FILE_SHARE_DELETE, so an open file stays.  The
\* system may refuse to delete any file; the code never looks at the answer.
DeleteFile(p) ==
  \/ /\ Unused(p)
     /\ files' = files \ {p}
     /\ kept' = kept \ {p}
  \/ ~Unused(p) /\ UNCHANGED <<files, kept>>
  \/ /\ "DeleteFile" \in MayFail
     /\ kept' = kept \union ({p} \intersect files)
     /\ UNCHANGED files

\* VirtualAlloc reserves and commits a range that was never handed out;
\* the ranges the code gives back (MEM_DECOMMIT) stay reserved.
VirtualAlloc(state) ==
  \/ \E r \in Regions : /\ mem[r] = "free"
                        /\ mem' = [mem EXCEPT ![r] = state]
                        /\ pData' = r
  \/ /\ \/ "VirtualAlloc" \in MayFail
        \/ \A r \in Regions : mem[r] # "free"
     /\ pData' = NULL
     /\ UNCHANGED mem

VirtualFree(p) ==
  mem' = [r \in Regions |-> IF r = p /\ mem[r] # "free"
                            THEN "reserved" ELSE mem[r]]

\* The first megabyte from p: refused when the range is smaller.
FreeMegabyte(p) ==
  \/ VirtualFree(p)
  \/ /\ p = NULL \/ (p \in Regions /\ mem[p] = "block")
     /\ UNCHANGED mem

\* The program has been started; the drive has no test files.
Init ==
  /\ ui = "open"
  /\ selected \in Selectable
  /\ timers = {}
  /\ combosEnabled = TRUE
  /\ hFileHandle = INVALID_HANDLE_VALUE
  /\ szFilePath = NoName
  /\ pData = NULL
  /\ IsTestCanceled = FALSE
  /\ pc = [t \in Threads |-> "idle"]
  /\ type = [t \in Threads |-> NoTest]
  /\ i = [t \in Threads |-> 0]
  /\ path = [h \in Handles |-> NoName]
  /\ sole = {}
  /\ files = {}
  /\ mem = [r \in Regions |-> "free"]
  /\ stopped = [t \in Threads |-> "no"]
  /\ late = [t \in Threads |-> 0]
  /\ kept = {}

-----------------------------------------------------------------------------
(* TestThread, ReadDiskTest and WriteDiskTest, step by step. *)

At(t, from, to) == pc[t] = from /\ pc' = [pc EXCEPT ![t] = to]

\* The combo boxes are read, by messages that wait for the dialog's thread;
\* with no usable selection, or no dialog, the test ends at once.
Begin(t) ==
  /\ pc[t] = "begin"
  /\ ui \in {"open", "ended"}
  /\ IF selected = NoTest \/ ui = "ended"
     THEN /\ pc' = [pc EXCEPT ![t] = "enable"]
          /\ UNCHANGED <<type, combosEnabled>>
     ELSE /\ type' = [type EXCEPT ![t] = selected]
          /\ combosEnabled' = FALSE
          /\ pc' = [pc EXCEPT ![t] = IF selected \in ReadTests
                                     THEN "reset" ELSE "name"]
  /\ i' = [i EXCEPT ![t] = 0]
  /\ UNCHANGED <<ui, selected, timers, globals, system, history>>

\* Mutant: the flag is not reset.
ResetNothing(t) ==
  /\ At(t, "reset", "name")
  /\ UNCHANGED <<dialog, globals, type, i, system, history>>

\* A read test forgets an earlier Stop before it does anything.
Reset(t) ==
  /\ At(t, "reset", "name")
  /\ IsTestCanceled' = FALSE
  /\ UNCHANGED <<dialog, hFileHandle, szFilePath, pData, type, i, system,
                 history>>

\* CreateFilePathForReadingTest: the next name is put in the shared path,
\* and then the shared path is looked up.
NextName(t) ==
  /\ At(t, "name", "lookup")
  /\ i' = [i EXCEPT ![t] = @ + 1]
  /\ szFilePath' = i[t] + 1
  /\ UNCHANGED <<dialog, hFileHandle, pData, IsTestCanceled, type, system,
                 history>>

\* Mutant: one name too many is tried.
LookUpOneMore(t) ==
  /\ pc[t] = "lookup"
  /\ LET again == szFilePath \in files /\ i[t] <= NameLimit
     IN  /\ pc' = [pc EXCEPT ![t] = IF again THEN "name" ELSE "create"]
         /\ i' = [i EXCEPT ![t] = IF again THEN @ ELSE 0]
  /\ UNCHANGED <<dialog, globals, type, system, history>>

LookUp(t) ==
  /\ pc[t] = "lookup"
  /\ LET again == szFilePath \in files /\ i[t] < NameLimit
     IN  /\ pc' = [pc EXCEPT ![t] = IF again THEN "name" ELSE "create"]
         /\ i' = [i EXCEPT ![t] = IF again THEN @ ELSE 0]
  /\ UNCHANGED <<dialog, globals, type, system, history>>

\* The drive's name is the dialog's, and is freed with it.
DriveKnown == ui # "ended"

\* CreateFileForTest: the free space is not known or not enough, CREATE_ALWAYS
\* is refused, or the file is there and the test's to remove.
Create(t) ==
  /\ \/ /\ "GetDiskFreeSpaceEx" \in MayFail \/ ~DriveKnown
        /\ At(t, "create", "deletefailed")
        /\ UNCHANGED <<hFileHandle, path, sole, files, kept>>
     \/ /\ "DiskFull" \in MayFail
        /\ At(t, "create", "message")
        /\ UNCHANGED <<hFileHandle, path, sole, files, kept>>
     \/ /\ At(t, "create", "deletefailed")
        /\ OpenRefused("CreateFile", szFilePath, FALSE)
        /\ UNCHANGED <<files, kept>>
     \/ /\ At(t, "create", "volume")
        /\ \E h \in Handles : OpenFile(h, szFilePath, FALSE)
        /\ files' = files \union {szFilePath}
        /\ kept' = kept \ {szFilePath}
  /\ UNCHANGED <<dialog, szFilePath, pData, IsTestCanceled, type, i, mem,
                 stopped, late>>

\* The user closes the message box that says so; until then the test waits.
Dismiss(t) ==
  /\ At(t, "message", "deletefailed")
  /\ UNCHANGED <<dialog, globals, type, i, system, history>>

\* GetVolumeInformation, and the compression of the file switched off.
Volume(t) ==
  /\ \/ At(t, "volume", "allocfill")
     \/ /\ \/ "GetVolumeInformation" \in MayFail
           \/ ~DriveKnown
           \/ hFileHandle \notin Open
        /\ At(t, "volume", "failfree")
  /\ UNCHANGED <<dialog, globals, type, i, system, history>>

AllocFill(t) ==
  /\ VirtualAlloc("megabyte")
  /\ At(t, "allocfill", IF pData' = NULL THEN "failfree" ELSE "memset")
  /\ UNCHANGED <<dialog, hFileHandle, szFilePath, IsTestCanceled, type, i,
                 path, sole, files, history>>

\* memset through the shared pointer: see Fault for the other outcome.
Committed(r) == r \in Regions /\ mem[r] \in {"megabyte", "block"}

Memset(t) ==
  /\ At(t, "memset", "fill")
  /\ Committed(pData)
  /\ UNCHANGED <<dialog, globals, type, i, system, history>>

\* Mutant: the flag is only looked at in the transfer loop.
FillUnstoppable(t) ==
  /\ pc[t] = "fill"
  /\ pc' = [pc EXCEPT ![t] = IF i[t] = FillCount THEN "freefill"
                             ELSE "fillblock"]
  /\ UNCHANGED <<dialog, globals, type, i, system, history>>

\* The fill loop: the flag is looked at, then a block is written and the
\* result is ignored.
Fill(t) ==
  /\ pc[t] = "fill"
  /\ pc' = [pc EXCEPT ![t] = IF i[t] = FillCount THEN "freefill"
                             ELSE IF IsTestCanceled THEN "failfree"
                             ELSE "fillblock"]
  /\ UNCHANGED <<dialog, globals, type, i, system, history>>

\* Blocks moved after a Stop that was in time are counted up to two.
Moved(t) ==
  late' = [late EXCEPT ![t] = IF stopped[t] = "in time" /\ @ < 2
                              THEN @ + 1 ELSE @]

FillBlock(t) ==
  /\ At(t, "fillblock", "fill")
  /\ i' = [i EXCEPT ![t] = @ + 1]
  /\ Moved(t)
  /\ UNCHANGED <<dialog, globals, type, system, stopped, kept>>

FreeFill(t) ==
  /\ At(t, "freefill", "closefill")
  /\ FreeMegabyte(pData)
  /\ UNCHANGED <<dialog, globals, type, i, path, sole, files, history>>

CloseFill(t) ==
  /\ At(t, "closefill", "reopen")
  /\ CloseHandle(hFileHandle)
  /\ UNCHANGED <<dialog, globals, type, i, files, mem, history>>

\* The Cleanup label of CreateFileForTest, and the caller's own DeleteFile.
FailFree(t) ==
  /\ At(t, "failfree", "failclose")
  /\ FreeMegabyte(pData)
  /\ UNCHANGED <<dialog, globals, type, i, path, sole, files, history>>

\* Mutant: the failing file is not closed.
FailCloseNothing(t) ==
  /\ At(t, "failclose", "faildelete")
  /\ UNCHANGED <<dialog, globals, type, i, system, history>>

FailClose(t) ==
  /\ At(t, "failclose", "faildelete")
  /\ CloseHandle(hFileHandle)
  /\ UNCHANGED <<dialog, globals, type, i, files, mem, history>>

FailDelete(t) ==
  /\ At(t, "faildelete", "deletefailed")
  /\ DeleteFile(szFilePath)
  /\ UNCHANGED <<dialog, globals, type, i, path, sole, mem, stopped, late>>

DeleteFailed(t) ==
  /\ At(t, "deletefailed", "enable")
  /\ DeleteFile(szFilePath)
  /\ UNCHANGED <<dialog, globals, type, i, path, sole, mem, stopped, late>>

\* The code gives up the test file without removing it.
LeaveFile == kept' = kept \union ({szFilePath} \intersect files)

\* The file is opened again for the test: alone for a read test, shared for
\* a write test.  A write test whose open is refused leaves the file.
Reopen(t) ==
  LET alone == type[t] \in ReadTests
  IN  /\ \/ /\ At(t, "reopen", IF alone THEN "deletefailed" ELSE "enable")
            /\ \/ OpenRefused("Reopen", szFilePath, alone)
               \/ /\ szFilePath \notin files
                  /\ hFileHandle' = INVALID_HANDLE_VALUE
                  /\ UNCHANGED <<path, sole>>
            /\ IF alone THEN UNCHANGED kept ELSE LeaveFile
         \/ /\ At(t, "reopen", "alloc")
            /\ szFilePath \in files
            /\ \E h \in Handles : OpenFile(h, szFilePath, alone)
            /\ UNCHANGED kept
      /\ UNCHANGED <<dialog, szFilePath, pData, IsTestCanceled, type, i,
                     files, mem, stopped, late>>

\* A read test that gets no buffer closes the file and leaves it there; a
\* write test goes through its whole cleanup.
Alloc(t) ==
  /\ VirtualAlloc("block")
  /\ At(t, "alloc", IF pData' # NULL THEN "arm"
                    ELSE IF type[t] \in ReadTests THEN "closeleave"
                    ELSE "free")
  /\ UNCHANGED <<dialog, hFileHandle, szFilePath, IsTestCanceled, type, i,
                 path, sole, files, history>>

CloseLeave(t) ==
  /\ At(t, "closeleave", "enable")
  /\ CloseHandle(hFileHandle)
  /\ LeaveFile
  /\ UNCHANGED <<dialog, globals, type, i, files, mem, stopped, late>>

\* The timers are set, if the dialog is there to have them; a write test
\* forgets an earlier Stop only here.
Arm(t) ==
  /\ At(t, "arm", "loop")
  /\ timers' = IF ui = "ended" THEN timers
                ELSE {"seconds counter", "cpu usage"}
  /\ IsTestCanceled' = IF type[t] \in WriteTests THEN FALSE
                       ELSE IsTestCanceled
  /\ i' = [i EXCEPT ![t] = 0]
  /\ UNCHANGED <<ui, selected, combosEnabled, hFileHandle, szFilePath, pData,
                 type, system, history>>

\* Mutant: a random test does not look at the flag.
LoopUnlessRandom(t) ==
  /\ At(t, "loop", IF IsTestCanceled /\ type[t] \notin RandomTests
                   THEN "free" ELSE "transfer")
  /\ UNCHANGED <<dialog, globals, type, i, system, history>>

Loop(t) ==
  /\ At(t, "loop", IF IsTestCanceled THEN "free" ELSE "transfer")
  /\ UNCHANGED <<dialog, globals, type, i, system, history>>

\* One block is moved and counted.  A random test ignores the answer of
\* ReadFile and WriteFile, a sequential one needs the handle and the buffer.
CountBlock(t) ==
  /\ hFileHandle \in Open
  /\ At(t, "transfer", IF i[t] + 1 < BlockCount THEN "loop" ELSE "free")
  /\ i' = [i EXCEPT ![t] = @ + 1]
  /\ Moved(t)
  /\ UNCHANGED <<dialog, globals, type, system, stopped, kept>>

RandomBlock(t) == type[t] \in RandomTests /\ CountBlock(t)

SequentialBlock(t) ==
  type[t] \notin RandomTests /\ Committed(pData) /\ CountBlock(t)

\* A file without buffering takes no offset that is not a whole number of
\* sectors, and a closed handle takes none: a random test draws again.
SeekRefused(t) ==
  /\ type[t] \in RandomTests
  /\ "SetFilePointerEx" \in MayFail \/ hFileHandle \notin Open
  /\ At(t, "transfer", "loop")
  /\ UNCHANGED <<dialog, globals, type, i, system, history>>

TransferFails ==
  "ReadFile" \in MayFail \/ hFileHandle \notin Open \/ ~Committed(pData)

\* Mutant: a sequential test tries again after an error.
SequentialErrorAgain(t) ==
  /\ type[t] \notin RandomTests /\ TransferFails
  /\ At(t, "transfer", "loop")
  /\ UNCHANGED <<dialog, globals, type, i, system, history>>

\* A sequential test ends at the first error.
SequentialError(t) ==
  /\ type[t] \notin RandomTests /\ TransferFails
  /\ At(t, "transfer", "free")
  /\ UNCHANGED <<dialog, globals, type, i, system, history>>

Transfer(t) == \/ RandomBlock(t) \/ SeekRefused(t)
               \/ SequentialBlock(t) \/ SequentialError(t)

\* The cleanup of a test that has run.
FreeBlock(t) ==
  /\ At(t, "free", "kill")
  /\ VirtualFree(pData)
  /\ UNCHANGED <<dialog, globals, type, i, path, sole, files, history>>

\* Mutant: only the timer of the seconds is killed.
KillOneTimer(t) ==
  /\ At(t, "kill", "close")
  /\ timers' = timers \ {"seconds counter"}
  /\ UNCHANGED <<ui, selected, combosEnabled, globals, type, i, system,
                 history>>

KillTimers(t) ==
  /\ At(t, "kill", "close")
  /\ timers' = {}
  /\ UNCHANGED <<ui, selected, combosEnabled, globals, type, i, system,
                 history>>

CloseTest(t) ==
  /\ At(t, "close", "delete")
  /\ CloseHandle(hFileHandle)
  /\ UNCHANGED <<dialog, globals, type, i, files, mem, history>>

\* Mutant: a test that was stopped keeps its file.
DeleteTestUnlessStopped(t) ==
  /\ At(t, "delete", "enable")
  /\ IF IsTestCanceled THEN UNCHANGED <<files, kept>>
                       ELSE DeleteFile(szFilePath)
  /\ UNCHANGED <<dialog, globals, type, i, path, sole, mem, stopped, late>>

DeleteTest(t) ==
  /\ At(t, "delete", "enable")
  /\ DeleteFile(szFilePath)
  /\ UNCHANGED <<dialog, globals, type, i, path, sole, mem, stopped, late>>

\* The Cleanup label of TestThread, and _endthread.
Enable(t) ==
  /\ At(t, "enable", "idle")
  /\ combosEnabled' = TRUE
  /\ type' = [type EXCEPT ![t] = NoTest]
  /\ i' = [i EXCEPT ![t] = 0]
  /\ stopped' = [stopped EXCEPT ![t] = "no"]
  /\ late' = [late EXCEPT ![t] = 0]
  /\ UNCHANGED <<ui, selected, timers, globals, system, kept>>

TestThread(t) ==
  \/ Begin(t) \/ Reset(t) \/ NextName(t) \/ LookUp(t) \/ Create(t)
  \/ Volume(t) \/ AllocFill(t) \/ Memset(t) \/ Fill(t) \/ FillBlock(t)
  \/ FreeFill(t) \/ CloseFill(t)
  \/ FailFree(t) \/ FailClose(t) \/ FailDelete(t) \/ DeleteFailed(t)
  \/ Reopen(t) \/ Alloc(t) \/ CloseLeave(t) \/ Arm(t)
  \/ Loop(t) \/ Transfer(t)
  \/ FreeBlock(t) \/ KillTimers(t) \/ CloseTest(t) \/ DeleteTest(t)
  \/ Enable(t)

-----------------------------------------------------------------------------
(* DiskBenchDlgProc, and the end of the process. *)

Select(x) ==
  /\ ui = "open" /\ combosEnabled /\ x # selected
  /\ selected' = x
  /\ UNCHANGED <<ui, combosEnabled, timers, globals, local, system, history>>

\* ID_DISK_START: nothing asks whether a test is running.
Start(t) ==
  /\ ui = "open"
  /\ At(t, "idle", "begin")
  /\ UNCHANGED <<dialog, globals, type, i, system, history>>

\* A read test forgets what was pressed before Reset was over.
Started(t) == pc[t] \notin {"idle", "begin", "reset"}

\* A write test forgets, when it arms, what was pressed after its fill loop
\* looked at the flag for the last time.
Overlooks(t) ==
  /\ type[t] \in WriteTests
  /\ \/ pc[t] = "fillblock" /\ i[t] + 1 = FillCount
     \/ pc[t] = "fill" /\ i[t] = FillCount
     \/ pc[t] \in {"freefill", "closefill", "reopen", "alloc", "arm"}

\* ID_DISK_STOP.
Stop ==
  /\ ui = "open"
  /\ IsTestCanceled' = TRUE
  /\ stopped' = [t \in Threads |->
                   IF Started(t) /\ ~Overlooks(t) THEN "in time"
                   ELSE IF pc[t] # "idle" /\ stopped[t] = "no" THEN "pressed"
                   ELSE stopped[t]]
  /\ UNCHANGED <<dialog, hFileHandle, szFilePath, pData, local, system, late,
                 kept>>

\* WM_CLOSE, call by call; the test threads keep running.
Close ==
  /\ ui = "open"
  /\ IF hFileHandle # INVALID_HANDLE_VALUE
     THEN ui' = "deleting" /\ CloseHandle(hFileHandle)
     ELSE ui' = "killing" /\ UNCHANGED <<path, sole>>
  /\ UNCHANGED <<selected, combosEnabled, timers, globals, local, files, mem,
                 history>>

CloseDelete ==
  /\ ui = "deleting" /\ ui' = "killing"
  /\ DeleteFile(szFilePath)
  /\ UNCHANGED <<selected, combosEnabled, timers, globals, local, path, sole,
                 mem, stopped, late>>

CloseKill ==
  /\ ui = "killing" /\ ui' = "freeing"
  /\ timers' = {}
  /\ UNCHANGED <<selected, combosEnabled, globals, local, system, history>>

\* The buffer is given back and the dialog destroyed, with its timers.
CloseFree ==
  /\ ui = "freeing" /\ ui' = "ended"
  /\ FreeMegabyte(pData)
  /\ timers' = {}
  /\ UNCHANGED <<selected, combosEnabled, globals, local, path, sole, files,
                 history>>

\* Whatever the process owned is gone with it; the files are not.  The next
\* one starts from the initial values of the globals.
EndProcess(how) ==
  /\ ui' = how
  /\ timers' = {}
  /\ combosEnabled' = TRUE
  /\ hFileHandle' = INVALID_HANDLE_VALUE
  /\ szFilePath' = NoName
  /\ pData' = NULL
  /\ IsTestCanceled' = FALSE
  /\ pc' = [t \in Threads |-> "idle"]
  /\ type' = [t \in Threads |-> NoTest]
  /\ i' = [t \in Threads |-> 0]
  /\ path' = [h \in Handles |-> NoName]
  /\ sole' = {}
  /\ mem' = [r \in Regions |-> "free"]
  /\ stopped' = [t \in Threads |-> "no"]
  /\ late' = [t \in Threads |-> 0]
  /\ kept' = kept \union files
  /\ UNCHANGED <<selected, files>>

\* wWinMain returns and takes the test threads with it.
Exit == ui = "ended" /\ EndProcess("exited")

\* An access violation, in memset or where the drive's freed name is read,
\* and the process killed from outside.
Fault(t) ==
  /\ \/ pc[t] = "memset" /\ ~Committed(pData)
     \/ pc[t] \in {"name", "create", "volume"} /\ ~DriveKnown
  /\ EndProcess("faulted")

Kill ==
  /\ "Kill" \in MayFail
  /\ ui \notin {"exited", "faulted"}
  /\ EndProcess("exited")

Launch ==
  /\ ui \in {"exited", "faulted"}
  /\ ui' = "open"
  /\ selected' \in Selectable
  /\ UNCHANGED <<combosEnabled, timers, globals, local, system, history>>

Dialog == CloseDelete \/ CloseKill \/ CloseFree \/ Exit

Next ==
  \/ \E t \in Threads : TestThread(t) \/ Dismiss(t) \/ Start(t) \/ Fault(t)
  \/ \E x \in Selectable : Select(x)
  \/ Stop \/ Close \/ Dialog \/ Kill \/ Launch

Spec == Init /\ [][Next]_vars

\* Windows runs every thread that is ready, and the dialog's handler of
\* WM_CLOSE runs to its end once it has started; nobody owes the message box
\* an answer.
FairSpec ==
  /\ Spec
  /\ \A t \in Threads : WF_vars(TestThread(t) \/ Fault(t))
  /\ WF_vars(Dialog)

\* The offsets of a random test come from xor128, whose period goes through
\* all its states: a test that goes on drawing draws an offset the file
\* pointer can be moved to again and again.
FairDrawSpec == FairSpec /\ \A t \in Threads : SF_vars(RandomBlock(t))

-----------------------------------------------------------------------------
(* Correctness. *)

ThreadStates ==
  {"idle", "begin", "reset", "name", "lookup", "create", "message", "volume",
   "allocfill", "memset", "fill", "fillblock", "freefill", "closefill",
   "failfree", "failclose", "faildelete", "deletefailed", "reopen", "alloc",
   "closeleave", "arm", "loop", "transfer", "free", "kill", "close",
   "delete", "enable"}

DialogStates ==
  {"open", "deleting", "killing", "freeing", "ended", "exited", "faulted"}

\* Every variable holds a value of its type in diskbench.c: globals 24-44,
\* the locals of the test functions.
TypeOK ==
  /\ ui \in DialogStates
  /\ selected \in Selectable
  /\ combosEnabled \in BOOLEAN
  /\ timers \subseteq {"seconds counter", "cpu usage"}
  /\ hFileHandle \in Handles \union {INVALID_HANDLE_VALUE}
  /\ szFilePath \in Names \union {NoName}
  /\ pData \in Regions \union {NULL}
  /\ IsTestCanceled \in BOOLEAN
  /\ pc \in [Threads -> ThreadStates]
  /\ type \in [Threads -> TestTypes \union {NoTest}]
  /\ i \in [Threads -> Nat]
  /\ path \in [Handles -> Names \union {NoName}]
  /\ sole \subseteq Handles
  /\ files \subseteq Names
  /\ mem \in [Regions -> {"free", "megabyte", "block", "reserved"}]
  /\ stopped \in [Threads -> {"no", "pressed", "in time"}]
  /\ late \in [Threads -> 0 .. 2]
  /\ kept \subseteq Names

AllIdle == \A t \in Threads : pc[t] = "idle"

\* One test at a time: when it is over, on whatever path it ended, no handle
\* is open and no memory is committed.
NothingHeld ==
  AllIdle => Open = {} /\ \A r \in Regions : ~Committed(r)

\* One test at a time: a test that is over has removed its file, whether it
\* completed, was stopped or failed.  Kept are only the files of a write test
\* whose reopening was refused and of a read test that got no buffer, those
\* the system refused to delete, and those a process left when it ended under
\* its test.
FileRemoved == AllIdle => files \subseteq kept

\* One test at a time: both timers run all through the transfer loop and
\* neither longer than the test.
TimersFollowTest ==
  ui = "open" =>
    /\ (\E t \in Threads : pc[t] \in {"loop", "transfer"})
         => timers = {"seconds counter", "cpu usage"}
    /\ AllIdle => timers = {}

\* One test at a time: a test moves at most one block after Stop, the one it
\* had begun, in the fill loop and the transfer loop together.  A Stop is only
\* lost before Reset in a read test, and between the last look of the fill
\* loop and Arm in a write test.
StopIsPrompt == \A t \in Threads : late[t] <= 1

\* One test at a time: what cuts a read test short, or the transfer of a write
\* test, is a Stop that was pressed while it ran and never an older one.
StopIsFresh ==
  \A t \in Threads :
    /\ \/ Started(t) /\ type[t] \in ReadTests
       \/ pc[t] \in {"loop", "transfer"}
    /\ IsTestCanceled
    => stopped[t] = "in time"

\* One test at a time: a test that was begun ends with its combo boxes enabled
\* and the process alive, unless the dialog is closed under it or the user
\* leaves the message box standing.
TestEnds ==
  \A t \in Threads :
    []<>(pc[t] # "message") =>
      (pc[t] = "begin" ~>
         \/ pc[t] = "idle" /\ combosEnabled /\ ui # "faulted"
         \/ ui \in {"deleting", "killing", "freeing", "ended"})

\* However many tests run: while Stop stays in force no test goes on for
\* ever, not even a random one whose handle another test has closed.
StopDrains ==
  \A t \in Threads : <>[]IsTestCanceled => []<>(pc[t] = "idle")

-----------------------------------------------------------------------------
(* What the dialog and its comments promise, and the code does not keep.   *)

\* CreateFileForTest writes a file of the size asked for unless it is told to
\* stop.  A write test has not yet reset the flag, and meets a Stop that was
\* pressed before the test was started.
FillsWholeFile ==
  \A t \in Threads : pc[t] = "fill" /\ IsTestCanceled => stopped[t] # "no"
=============================================================================
