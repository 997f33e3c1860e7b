--------------------------- MODULE DiskBenchOneTest ---------------------------
(***************************************************************************)
(* Theorems about DiskBench when tests do not overlap: the user waits for  *)
(* one test to end before he starts the next.  They hold for any number of *)
(* handles, address ranges, names and blocks, whatever calls fail, wherever*)
(* Stop is pressed, the dialog closed or the process killed.               *)
(***************************************************************************)
EXTENDS DiskBenchProofs

\* There is at most one test thread at a time.
OneTest == \A a, b \in Threads : a = b

\* Where a test has a file open, and where it has memory committed.
Holding ==
  {"volume", "allocfill", "memset", "fill", "fillblock", "freefill",
   "closefill", "failfree", "failclose", "alloc", "closeleave", "arm", "loop",
   "transfer", "free", "kill", "close"}

Filling == {"memset", "fill", "fillblock", "freefill", "failfree"}

Buffered == Filling \union {"arm", "loop", "transfer", "free"}

\* The only open handle is the one in hFileHandle, and only while a test has
\* its file open.
HandleInv ==
  /\ Open \subseteq {hFileHandle}
  /\ (\A t \in Threads : pc[t] \notin Holding) => Open = {}

\* The only committed memory is the one pData points to, and only while a
\* test uses it; while the file is filled it is the megabyte.
MemoryInv ==
  /\ \A r \in Regions : Committed(r) => r = pData
  /\ (\A t \in Threads : pc[t] \notin Buffered)
       => \A r \in Regions : ~Committed(r)
  /\ (\E t \in Threads : pc[t] \in Filling)
       => \A r \in Regions : mem[r] # "block"

\* Where the test file is on the drive and the test's to remove.
Owning == Holding \union {"reopen", "faildelete", "delete", "deletefailed"}

\* Every other file on the drive may stay, and this one too when no test has
\* it to remove.
FileInv ==
  /\ files \ {szFilePath} \subseteq kept
  /\ (\A t \in Threads : pc[t] \notin Owning) => files \subseteq kept

-----------------------------------------------------------------------------
(* Handles. *)

\* A step that opens and closes nothing, and leaves no open file behind.
LEMMA HandleSame ==
  ASSUME OneTest, NEW t \in Threads, NEW to, TypeOK, HandleInv,
         pc' = [pc EXCEPT ![t] = to], UNCHANGED <<path, hFileHandle>>,
         pc[t] \in Holding => to \in Holding
  PROVE  HandleInv'
<1>1. Open' = Open
  BY DEF Open
<1>2. \A u \in Threads : u = t
  BY DEF OneTest
<1>3. pc'[t] = to
  BY DEF TypeOK
<1> QED
  BY <1>1, <1>2, <1>3 DEF HandleInv

LEMMA HandleClosed ==
  ASSUME HandleInv, CloseHandle(hFileHandle), hFileHandle' = hFileHandle
  PROVE  HandleInv' /\ Open' = {}
BY DEF HandleInv, CloseHandle, Open, NoName

\* Opening a file when none is open.
LEMMA HandleOpened ==
  ASSUME OneTest, NEW t \in Threads, TypeOK, Open = {},
         NEW h \in Handles, NEW p, NEW alone, OpenFile(h, p, alone),
         pc'[t] \in Holding
  PROVE  HandleInv'
<1>1. Open' \subseteq {h} /\ hFileHandle' = h
  BY DEF OpenFile, Open, TypeOK
<1> QED
  BY <1>1 DEF HandleInv

LEMMA HandleCreate ==
  ASSUME OneTest, NEW t \in Threads, TypeOK, HandleInv, Create(t) \/ Reopen(t)
  PROVE  HandleInv'
<1>1. pc[t] \in {"create", "reopen"} /\ Open = {}
  BY DEF OneTest, Create, Reopen, At, HandleInv, Holding
<1>2. ASSUME NEW h \in Handles, NEW alone, OpenFile(h, szFilePath, alone),
             pc'[t] \in {"volume", "alloc"}
      PROVE  HandleInv'
  BY <1>1, <1>2, HandleOpened DEF Holding
<1>3. CASE path' = path
  BY <1>1, <1>3 DEF HandleInv, Open
<1>4. CASE Create(t)
  <2>1. ASSUME NEW h \in Handles, OpenFile(h, szFilePath, FALSE),
               At(t, "create", "volume")
        PROVE  HandleInv'
    BY <2>1, <1>2 DEF At, TypeOK
  <2> QED
    BY <1>3, <1>4, <2>1 DEF Create, OpenRefused
<1>5. CASE Reopen(t)
  <2>1. ASSUME NEW h \in Handles, At(t, "reopen", "alloc"),
               OpenFile(h, szFilePath, type[t] \in ReadTests)
        PROVE  HandleInv'
    BY <2>1, <1>2 DEF At, TypeOK
  <2> QED
    BY <1>3, <1>5, <2>1 DEF Reopen, OpenRefused
<1> QED
  BY <1>4, <1>5

LEMMA HandleThread ==
  ASSUME OneTest, NEW t \in Threads, TypeOK, HandleInv, TestStep(t)
  PROVE  HandleInv'
<1>1. CASE Create(t) \/ Reopen(t)
  BY <1>1, HandleCreate
<1>2. CASE CloseFill(t) \/ FailClose(t) \/ CloseLeave(t) \/ CloseTest(t)
  BY <1>2, HandleClosed DEF CloseFill, FailClose, CloseLeave, CloseTest,
                            globals
<1>3. CASE Begin(t) \/ Reset(t) \/ NextName(t) \/ LookUp(t) \/ FailDelete(t)
           \/ DeleteFailed(t) \/ DeleteTest(t) \/ Enable(t) \/ Dismiss(t)
  <2>1. /\ \E to : pc' = [pc EXCEPT ![t] = to]
        /\ pc[t] \notin Holding
        /\ UNCHANGED <<path, hFileHandle>>
    BY <1>3 DEF Begin, Reset, NextName, LookUp, FailDelete, DeleteFailed,
                DeleteTest, Enable, Dismiss, At, Holding, globals, system
  <2> QED
    BY <2>1, HandleSame
<1>4. CASE Volume(t) \/ AllocFill(t) \/ Memset(t) \/ Fill(t) \/ FillBlock(t)
           \/ FreeFill(t) \/ FailFree(t) \/ Alloc(t)
  <2>1. /\ \E to \in Holding : pc' = [pc EXCEPT ![t] = to]
        /\ UNCHANGED <<path, hFileHandle>>
    BY <1>4 DEF Volume, AllocFill, Memset, Fill, FillBlock, FreeFill,
                FailFree, Alloc, At, Holding, globals, system
  <2> QED
    BY <2>1, HandleSame
<1>5. CASE Arm(t) \/ Loop(t) \/ Transfer(t) \/ FreeBlock(t) \/ KillTimers(t)
  <2>1. /\ \E to \in Holding : pc' = [pc EXCEPT ![t] = to]
        /\ UNCHANGED <<path, hFileHandle>>
    BY <1>5 DEF Arm, Loop, Transfer, RandomBlock, SequentialBlock, CountBlock,
                SeekRefused, SequentialError, FreeBlock, KillTimers, At,
                Holding, globals, system
  <2> QED
    BY <2>1, HandleSame
<1> QED
  BY <1>1, <1>2, <1>3, <1>4, <1>5 DEF TestStep, TestThread

LEMMA HandleStep ==
  ASSUME OneTest
  PROVE  TypeOK /\ HandleInv /\ [Next]_vars => HandleInv'
<1> SUFFICES ASSUME TypeOK, HandleInv, [Next]_vars PROVE HandleInv'
  OBVIOUS
<1>1. ASSUME NEW t \in Threads, TestStep(t) PROVE HandleInv'
  BY <1>1, HandleThread
<1>2. ASSUME NEW t \in Threads, Start(t) PROVE HandleInv'
  <2>1. /\ pc' = [pc EXCEPT ![t] = "begin"] /\ pc[t] \notin Holding
        /\ UNCHANGED <<path, hFileHandle>>
    BY <1>2 DEF Start, At, Holding, globals, system
  <2> QED
    BY <2>1, HandleSame
<1>3. CASE Exit \/ Kill \/ \E t \in Threads : Fault(t)
  <2>1. path' = [h \in Handles |-> NoName]
    BY <1>3 DEF Exit, Kill, Fault, EndProcess
  <2> QED
    BY <2>1 DEF HandleInv, Open
<1>4. CASE Close
  <2>1. CASE hFileHandle # INVALID_HANDLE_VALUE
    BY <1>4, <2>1, HandleClosed DEF Close, globals
  <2>2. CASE hFileHandle = INVALID_HANDLE_VALUE
    BY <1>4, <2>2 DEF Close, globals, local, HandleInv, Open
  <2> QED
    BY <2>1, <2>2
<1>5. CASE \/ \E x \in Selectable : Select(x)
           \/ Stop \/ CloseDelete \/ CloseKill \/ CloseFree \/ Launch
           \/ UNCHANGED vars
  <2>1. UNCHANGED <<path, hFileHandle, pc>>
    BY <1>5 DEF Select, Stop, CloseDelete, CloseKill, CloseFree, Launch, vars,
                globals, local, system
  <2> QED
    BY <2>1 DEF HandleInv, Open
<1> QED
  BY <1>1, <1>2, <1>3, <1>4, <1>5 DEF Next, Dialog, TestStep

-----------------------------------------------------------------------------
(* Memory. *)

\* A step that leaves memory alone, and no memory behind.
LEMMA MemorySame ==
  ASSUME OneTest, NEW t \in Threads, NEW to, TypeOK, MemoryInv,
         pc' = [pc EXCEPT ![t] = to], UNCHANGED <<mem, pData>>,
         pc[t] \in Buffered => to \in Buffered,
         to \in Filling => pc[t] \in Filling \/ pc[t] \notin Buffered
  PROVE  MemoryInv'
<1>1. \A r : Committed(r)' <=> Committed(r)
  BY DEF Committed
<1>2. \A u \in Threads : u = t
  BY DEF OneTest
<1>3. pc'[t] = to
  BY DEF TypeOK
<1>4. pc[t] \notin Buffered => \A r \in Regions : mem[r] # "block"
  BY <1>2 DEF MemoryInv, Committed
<1>5. to \in Filling => \A r \in Regions : mem'[r] # "block"
  BY <1>2, <1>4 DEF MemoryInv
<1>6. (\A u \in Threads : pc'[u] \notin Buffered)
        => \A r \in Regions : ~Committed(r)'
  BY <1>1, <1>2, <1>3 DEF MemoryInv
<1>7. (\E u \in Threads : pc'[u] \in Filling)
        => \A r \in Regions : mem'[r] # "block"
  BY <1>2, <1>3, <1>5
<1> QED
  BY <1>1, <1>6, <1>7 DEF MemoryInv

\* Giving back what pData points to leaves nothing committed.
LEMMA FreedAll ==
  ASSUME MemoryInv, VirtualFree(pData), pData' = pData
  PROVE  MemoryInv' /\ \A r \in Regions : ~Committed(r)'
<1>1. \A r \in Regions : mem'[r] \notin {"megabyte", "block"}
  BY DEF MemoryInv, VirtualFree, Committed
<1> QED
  BY <1>1 DEF MemoryInv, Committed

\* While the file is filled the megabyte is given back, never refused.
LEMMA FreedMegabyte ==
  ASSUME OneTest, NEW t \in Threads, MemoryInv, TypeOK, pc[t] \in Filling,
         FreeMegabyte(pData), pData' = pData
  PROVE  MemoryInv'
<1>1. CASE VirtualFree(pData)
  BY <1>1, FreedAll
<1>2. CASE pData = NULL /\ UNCHANGED mem
  <2>1. \A r \in Regions : ~Committed(r)
    BY <1>2, ConstantsAssumption DEF MemoryInv
  <2>2. \A r \in Regions : mem'[r] \notin {"megabyte", "block"}
    BY <1>2, <2>1 DEF Committed
  <2> QED
    BY <2>2 DEF MemoryInv, Committed
<1>3. ~(pData \in Regions /\ mem[pData] = "block")
  BY DEF MemoryInv
<1> QED
  BY <1>1, <1>2, <1>3 DEF FreeMegabyte

\* A buffer is taken when nothing is committed.
LEMMA Allocated ==
  ASSUME OneTest, NEW t \in Threads, NEW to, TypeOK, MemoryInv,
         NEW state \in {"megabyte", "block"}, VirtualAlloc(state),
         pc[t] \notin Buffered, pc' = [pc EXCEPT ![t] = to],
         pData' # NULL => to \in Buffered,
         to \in Filling => state = "megabyte" \/ pData' = NULL
  PROVE  MemoryInv'
<1>1. \A u \in Threads : u = t
  BY DEF OneTest
<1>2. pc'[t] = to
  BY DEF TypeOK
<1>3. \A r \in Regions : mem[r] \notin {"megabyte", "block"}
  BY <1>1 DEF MemoryInv, Committed
<1>4. CASE pData' = NULL /\ UNCHANGED mem
  BY <1>3, <1>4 DEF MemoryInv, Committed
<1>5. ASSUME NEW r \in Regions, mem' = [mem EXCEPT ![r] = state], pData' = r
      PROVE  MemoryInv'
  <2>1. \A q \in Regions : mem'[q] \in {"megabyte", "block"} => q = r
    BY <1>3, <1>5 DEF TypeOK
  <2>2. mem'[r] = state
    BY <1>5 DEF TypeOK
  <2>3. to \in Buffered
    BY <1>5, ConstantsAssumption
  <2>4. to \in Filling => \A q \in Regions : mem'[q] # "block"
    BY <1>5, <2>1, <2>2, ConstantsAssumption
  <2>5. \A q \in Regions : Committed(q)' => q = pData'
    BY <1>5, <2>1 DEF Committed
  <2>6. ~ \A u \in Threads : pc'[u] \notin Buffered
    BY <1>2, <2>3
  <2>7. (\E u \in Threads : pc'[u] \in Filling)
          => \A q \in Regions : mem'[q] # "block"
    BY <1>1, <1>2, <2>4
  <2> QED
    BY <2>5, <2>6, <2>7 DEF MemoryInv
<1> QED
  BY <1>4, <1>5 DEF VirtualAlloc

LEMMA MemoryThread ==
  ASSUME OneTest, NEW t \in Threads, TypeOK, MemoryInv, TestStep(t)
  PROVE  MemoryInv'
<1>1. CASE AllocFill(t)
  <2>1. pc[t] \notin Buffered /\ VirtualAlloc("megabyte")
    BY <1>1 DEF AllocFill, At, Buffered, Filling
  <2>2. PICK to \in Filling : pc' = [pc EXCEPT ![t] = to]
    BY <1>1 DEF AllocFill, At, Filling
  <2> QED
    BY <2>1, <2>2, Allocated DEF Buffered
<1>2. CASE Alloc(t)
  <2>1. pc[t] \notin Buffered /\ VirtualAlloc("block")
    BY <1>2 DEF Alloc, At, Buffered, Filling
  <2> DEFINE to == IF pData' # NULL THEN "arm"
                   ELSE IF type[t] \in ReadTests THEN "closeleave" ELSE "free"
  <2>2. pc' = [pc EXCEPT ![t] = to]
    BY <1>2 DEF Alloc, At
  <2>3. to \notin Filling /\ (pData' # NULL => to \in Buffered)
    BY DEF Buffered, Filling
  <2> HIDE DEF to
  <2> QED
    BY <2>1, <2>2, <2>3, Allocated
<1>3. CASE FreeFill(t) \/ FailFree(t)
  <2>1. CASE pc[t] \in Filling
    BY <1>3, <2>1, FreedMegabyte DEF FreeFill, FailFree, globals
  <2> QED
    BY <1>3, <2>1 DEF FreeFill, FailFree, At, Filling
<1>4. CASE FreeBlock(t)
  BY <1>4, FreedAll DEF FreeBlock, globals
<1>5. CASE Begin(t) \/ Reset(t) \/ NextName(t) \/ LookUp(t) \/ Create(t)
           \/ CloseFill(t) \/ FailClose(t)
  <2>1. pc[t] \notin Buffered /\ UNCHANGED <<mem, pData>>
    BY <1>5 DEF Begin, Reset, NextName, LookUp, Create, CloseFill, FailClose,
                At, Buffered, Filling, globals, system
  <2>2. CASE Begin(t) \/ Reset(t) \/ NextName(t) \/ LookUp(t)
    <3>1. \E to : pc' = [pc EXCEPT ![t] = to] /\ to \notin Filling
      BY <2>2 DEF Begin, Reset, NextName, LookUp, At, Filling
    <3> QED
      BY <2>1, <3>1, MemorySame
  <2>3. CASE Create(t) \/ CloseFill(t) \/ FailClose(t)
    <3>1. \E to : pc' = [pc EXCEPT ![t] = to] /\ to \notin Filling
      BY <2>3 DEF Create, CloseFill, FailClose, At, Filling
    <3> QED
      BY <2>1, <3>1, MemorySame
  <2> QED
    BY <1>5, <2>2, <2>3
<1>6. CASE FailDelete(t) \/ DeleteFailed(t) \/ Reopen(t) \/ CloseLeave(t)
           \/ KillTimers(t) \/ CloseTest(t) \/ DeleteTest(t) \/ Enable(t)
           \/ Dismiss(t)
  <2>1. /\ \E to : pc' = [pc EXCEPT ![t] = to] /\ to \notin Filling
        /\ pc[t] \notin Buffered
        /\ UNCHANGED <<mem, pData>>
    BY <1>6 DEF FailDelete, DeleteFailed, Reopen, CloseLeave, KillTimers,
                CloseTest, DeleteTest, Enable, Dismiss, At, Buffered, Filling, globals,
                system
  <2> QED
    BY <2>1, MemorySame
<1>7. CASE Volume(t)
  <2>1. /\ \E to : pc' = [pc EXCEPT ![t] = to]
        /\ pc[t] \notin Buffered
        /\ UNCHANGED <<mem, pData>>
    BY <1>7 DEF Volume, At, Buffered, Filling, globals, system
  <2> QED
    BY <2>1, MemorySame
<1>8. CASE Memset(t) \/ Fill(t) \/ FillBlock(t)
  <2>1. /\ \E to \in Filling : pc' = [pc EXCEPT ![t] = to]
        /\ pc[t] \in Filling
        /\ UNCHANGED <<mem, pData>>
    BY <1>8 DEF Memset, Fill, FillBlock, At, Filling, globals, system
  <2> QED
    BY <2>1, MemorySame DEF Buffered
<1>9. CASE Arm(t) \/ Loop(t) \/ Transfer(t)
  <2>1. /\ \E to \in Buffered : /\ pc' = [pc EXCEPT ![t] = to]
                                /\ to \notin Filling
        /\ UNCHANGED <<mem, pData>>
    BY <1>9 DEF Arm, Loop, Transfer, RandomBlock, SequentialBlock, CountBlock,
                SeekRefused, SequentialError, At, Buffered, Filling, globals,
                system
  <2> QED
    BY <2>1, MemorySame
<1> QED
  BY <1>1, <1>2, <1>3, <1>4, <1>5, <1>6, <1>7, <1>8, <1>9 DEF TestStep, TestThread

LEMMA MemoryStep ==
  ASSUME OneTest
  PROVE  TypeOK /\ MemoryInv /\ [Next]_vars => MemoryInv'
<1> SUFFICES ASSUME TypeOK, MemoryInv, [Next]_vars PROVE MemoryInv'
  OBVIOUS
<1>1. ASSUME NEW t \in Threads, TestStep(t) PROVE MemoryInv'
  BY <1>1, MemoryThread
<1>2. ASSUME NEW t \in Threads, Start(t) PROVE MemoryInv'
  <2>1. /\ pc' = [pc EXCEPT ![t] = "begin"] /\ pc[t] \notin Buffered
        /\ "begin" \notin Filling
        /\ UNCHANGED <<mem, pData>>
    BY <1>2 DEF Start, At, Buffered, Filling, globals, system
  <2> QED
    BY <2>1, MemorySame
<1>3. CASE Exit \/ Kill \/ \E t \in Threads : Fault(t)
  <2>1. mem' = [r \in Regions |-> "free"]
    BY <1>3 DEF Exit, Kill, Fault, EndProcess
  <2> QED
    BY <2>1 DEF MemoryInv, Committed
<1>4. CASE CloseFree
  <2>1. UNCHANGED <<pc, pData>> /\ FreeMegabyte(pData)
    BY <1>4 DEF CloseFree, globals, local
  <2>2. CASE VirtualFree(pData)
    BY <2>1, <2>2, FreedAll
  <2>3. CASE UNCHANGED mem
    BY <2>1, <2>3 DEF MemoryInv, Committed
  <2> QED
    BY <2>1, <2>2, <2>3 DEF FreeMegabyte
<1>5. CASE \/ \E x \in Selectable : Select(x)
           \/ Stop \/ Close \/ CloseDelete \/ CloseKill \/ Launch
           \/ UNCHANGED vars
  <2>1. UNCHANGED <<mem, pData, pc>>
    BY <1>5 DEF Select, Stop, Close, CloseDelete, CloseKill, Launch, vars,
                globals, local, system
  <2> QED
    BY <2>1 DEF MemoryInv, Committed
<1> QED
  BY <1>1, <1>2, <1>3, <1>4, <1>5 DEF Next, Dialog, TestStep

-----------------------------------------------------------------------------
(* The test file. *)

\* A file that no handle is open on goes when it is deleted, or may stay.
LEMMA FileDeleted ==
  ASSUME FileInv, Open = {}, DeleteFile(szFilePath), szFilePath' = szFilePath
  PROVE  files' \subseteq kept'
<1>1. Unused(szFilePath)
  BY DEF Unused
<1>2. \/ files' = files \ {szFilePath} /\ kept' = kept \ {szFilePath}
      \/ files' = files /\ kept' = kept \union ({szFilePath} \intersect files)
  BY <1>1 DEF DeleteFile
<1> QED
  BY <1>2 DEF FileInv

\* So may one the code gives up.
LEMMA FileLeft ==
  ASSUME FileInv, LeaveFile, UNCHANGED <<files, szFilePath>>
  PROVE  FileInv'
BY DEF FileInv, LeaveFile

\* A step that leaves the file to whom it was.
LEMMA FileSame ==
  ASSUME OneTest, NEW t \in Threads, NEW to, TypeOK, FileInv,
         pc' = [pc EXCEPT ![t] = to], UNCHANGED <<szFilePath, files, kept>>,
         pc[t] \in Owning => to \in Owning
  PROVE  FileInv'
<1>1. \A u \in Threads : u = t
  BY DEF OneTest
<1>2. pc'[t] = to
  BY DEF TypeOK
<1> QED
  BY <1>1, <1>2 DEF FileInv

LEMMA FileThread ==
  ASSUME OneTest, NEW t \in Threads, TypeOK, HandleInv, FileInv, TestStep(t)
  PROVE  FileInv'
<1>1. \A u \in Threads : u = t
  BY DEF OneTest
<1>2. CASE NextName(t)
  <2>1. UNCHANGED <<files, kept>> /\ pc[t] \notin Owning
    BY <1>2 DEF NextName, At, Owning, Holding, system, history
  <2> QED
    BY <1>1, <2>1 DEF FileInv
<1>3. CASE DeleteFailed(t) \/ DeleteTest(t)
  <2>1. /\ pc[t] \in {"deletefailed", "delete"}
        /\ DeleteFile(szFilePath) /\ szFilePath' = szFilePath
    BY <1>3 DEF DeleteFailed, DeleteTest, At, globals
  <2>2. Open = {}
    BY <1>1, <2>1 DEF HandleInv, Holding
  <2> QED
    BY <2>1, <2>2, FileDeleted DEF FileInv
<1>4. CASE FailDelete(t)
  <2>1. /\ pc[t] = "faildelete"
        /\ DeleteFile(szFilePath) /\ szFilePath' = szFilePath
    BY <1>4 DEF FailDelete, At, globals
  <2>2. Open = {}
    BY <1>1, <2>1 DEF HandleInv, Holding
  <2> QED
    BY <2>1, <2>2, FileDeleted DEF FileInv
<1>5. CASE CloseLeave(t)
  BY <1>5, FileLeft DEF CloseLeave, globals
<1>6. CASE Reopen(t)
  <2>1. CASE LeaveFile
    BY <1>6, <2>1, FileLeft DEF Reopen
  <2>2. CASE UNCHANGED kept
    <3>1. /\ UNCHANGED <<szFilePath, files>>
          /\ \/ LeaveFile
             \/ \E to \in Owning : pc' = [pc EXCEPT ![t] = to]
      BY <1>6 DEF Reopen, At, Owning, Holding
    <3> QED
      BY <2>2, <3>1, FileSame, FileLeft
  <2> QED
    BY <1>6, <2>1, <2>2 DEF Reopen
<1>7. CASE Create(t)
  <2>1. CASE UNCHANGED <<files, kept>>
    <3>1. pc[t] \notin Owning /\ szFilePath' = szFilePath
      BY <1>7 DEF Create, At, Owning, Holding
    <3> QED
      BY <1>1, <2>1, <3>1 DEF FileInv
  <2>2. CASE /\ At(t, "create", "volume")
             /\ files' = files \union {szFilePath}
             /\ kept' = kept \ {szFilePath}
    <3>1. pc'[t] \in Owning /\ szFilePath' = szFilePath
      BY <1>7, <2>2 DEF Create, At, Owning, Holding, TypeOK
    <3> QED
      BY <2>2, <3>1 DEF FileInv
  <2> QED
    BY <1>7, <2>1, <2>2 DEF Create
<1>8. CASE Begin(t) \/ Reset(t) \/ LookUp(t) \/ Enable(t) \/ Dismiss(t)
  <2>1. /\ \E to : pc' = [pc EXCEPT ![t] = to]
        /\ pc[t] \notin Owning
        /\ UNCHANGED <<szFilePath, files, kept>>
    BY <1>8 DEF Begin, Reset, LookUp, Enable, Dismiss, At, Owning, Holding,
                globals, system, history
  <2> QED
    BY <2>1, FileSame
<1>9. CASE Volume(t) \/ AllocFill(t) \/ Memset(t) \/ Fill(t) \/ FillBlock(t)
           \/ FreeFill(t) \/ CloseFill(t) \/ FailFree(t) \/ FailClose(t)
  <2>1. /\ \E to \in Owning : pc' = [pc EXCEPT ![t] = to]
        /\ UNCHANGED <<szFilePath, files, kept>>
    BY <1>9 DEF Volume, AllocFill, Memset, Fill, FillBlock, FreeFill,
                CloseFill, FailFree, FailClose, At, Owning, Holding, globals,
                system, history
  <2> QED
    BY <2>1, FileSame
<1>10. CASE Alloc(t) \/ Arm(t) \/ Loop(t) \/ FreeBlock(t)
            \/ KillTimers(t) \/ CloseTest(t)
  <2>1. /\ \E to \in Owning : pc' = [pc EXCEPT ![t] = to]
        /\ UNCHANGED <<szFilePath, files, kept>>
    BY <1>10 DEF Alloc, Arm, Loop, FreeBlock, KillTimers, CloseTest, At,
                 Owning, Holding, globals, system, history
  <2> QED
    BY <2>1, FileSame
<1>11. CASE Transfer(t)
  <2>1. /\ \E to \in Owning : pc' = [pc EXCEPT ![t] = to]
        /\ UNCHANGED <<szFilePath, files, kept>>
    BY <1>11 DEF Transfer, RandomBlock, SequentialBlock, CountBlock,
                 SeekRefused, SequentialError, At, Owning, Holding, globals,
                 system, history
  <2> QED
    BY <2>1, FileSame
<1> QED
  BY <1>2, <1>3, <1>4, <1>5, <1>6, <1>7, <1>8, <1>9, <1>10, <1>11
     DEF TestStep, TestThread

LEMMA FileStep ==
  ASSUME OneTest
  PROVE  TypeOK /\ HandleInv /\ FileInv /\ [Next]_vars => FileInv'
<1> SUFFICES ASSUME TypeOK, HandleInv, FileInv, [Next]_vars PROVE FileInv'
  OBVIOUS
<1>1. ASSUME NEW t \in Threads, TestStep(t) PROVE FileInv'
  BY <1>1, FileThread
<1>2. ASSUME NEW t \in Threads, Start(t) PROVE FileInv'
  <2>1. /\ pc[t] \notin Owning /\ pc' = [pc EXCEPT ![t] = "begin"]
        /\ UNCHANGED <<szFilePath, files, kept>>
    BY <1>2 DEF Start, At, Owning, Holding, globals, system, history
  <2> QED
    BY <2>1, FileSame
<1>3. CASE Exit \/ Kill \/ \E t \in Threads : Fault(t)
  <2>1. files' \subseteq kept'
    BY <1>3 DEF Exit, Kill, Fault, EndProcess
  <2> QED
    BY <2>1 DEF FileInv
<1>4. CASE CloseDelete
  <2>1. /\ UNCHANGED <<szFilePath, pc>>
        /\ \/ files' = files \ {szFilePath} /\ kept' = kept \ {szFilePath}
           \/ files' = files /\ kept \subseteq kept'
    BY <1>4 DEF CloseDelete, DeleteFile, globals, local
  <2> QED
    BY <2>1 DEF FileInv
<1>5. CASE \/ \E x \in Selectable : Select(x)
           \/ Stop \/ Close \/ CloseKill \/ CloseFree \/ Launch
           \/ UNCHANGED vars
  <2>1. UNCHANGED <<szFilePath, pc, files, kept>>
    BY <1>5 DEF Select, Stop, Close, CloseKill, CloseFree, Launch, vars,
                globals, local, system, history
  <2> QED
    BY <2>1 DEF FileInv
<1> QED
  BY <1>1, <1>2, <1>3, <1>4, <1>5 DEF Next, Dialog, TestStep

-----------------------------------------------------------------------------

CleanInv == TypeInv /\ HandleInv /\ MemoryInv /\ FileInv

LEMMA CleanInit == Init => CleanInv
<1> SUFFICES ASSUME Init PROVE CleanInv
  OBVIOUS
<1>1. HandleInv /\ MemoryInv
  BY DEF Init, HandleInv, MemoryInv, Open, Committed
<1>2. FileInv
  BY DEF Init, FileInv
<1> QED
  BY <1>1, <1>2, TypeInit DEF CleanInv

LEMMA CleanStep == ASSUME OneTest PROVE CleanInv /\ [Next]_vars => CleanInv'
BY TypeStep, HandleStep, MemoryStep, FileStep DEF CleanInv, TypeInv

\* One test at a time: when no test runs, no handle is open and no memory is
\* committed, on whatever path the test ended (the clean-ups at the end of
\* ReadDiskTest, WriteDiskTest and CreateFileForTest).
THEOREM TestsHoldNothing == ASSUME OneTest PROVE Spec => []NothingHeld
<1>1. CleanInv => NothingHeld
  BY DEF CleanInv, HandleInv, MemoryInv, NothingHeld, AllIdle, Holding,
         Buffered, Filling
<1> QED
  BY CleanInit, CleanStep, <1>1, PTL DEF Spec

\* One test at a time: a test that is over leaves no file on the drive but
\* where WriteDiskTest returns without its handle or ReadDiskTest without its
\* buffer, where the system refused to delete it, or where the process ended.
THEOREM TestFilesAreRemoved == ASSUME OneTest PROVE Spec => []FileRemoved
<1>1. CleanInv => FileRemoved
  BY DEF CleanInv, FileInv, FileRemoved, AllIdle, Owning, Holding
<1> QED
  BY CleanInit, CleanStep, <1>1, PTL DEF Spec

-----------------------------------------------------------------------------
(* Stop. *)

\* A Stop that was in time is the one the flag remembers, and once it is seen
\* no block is begun.
StopOf(t) ==
  /\ pc[t] \in {"idle", "begin"} => type[t] = NoTest
  /\ pc[t] \notin {"idle", "begin", "enable"} => type[t] \in TestTypes
  /\ pc[t] \in {"create", "volume", "allocfill", "memset"} => i[t] = 0
  /\ ~Started(t) \/ Overlooks(t) => stopped[t] # "in time"
  /\ stopped[t] = "in time" => IsTestCanceled
  /\ stopped[t] # "in time" => late[t] = 0
  /\ IsTestCanceled /\ \/ Started(t) /\ type[t] \in ReadTests
                       \/ pc[t] \in {"loop", "transfer"}
       => stopped[t] = "in time"
  /\ pc[t] \in {"fillblock", "transfer"} => late[t] = 0
  /\ late[t] <= 1

StopInv == \A t \in Threads : StopOf(t)

LEMMA Kinds ==
  /\ \A x \in WriteTests : x \notin ReadTests
  /\ \A x \in TestTypes : x \in ReadTests \/ x \in WriteTests
  /\ NoTest \notin TestTypes /\ NoTest \notin ReadTests
  /\ NoTest \notin WriteTests
BY DEF TestTypes, ReadTests, WriteTests, NoTest

\* A thread that runs no test any more.
LEMMA StopIdle ==
  ASSUME NEW t, pc'[t] = "idle", type'[t] = NoTest, stopped'[t] = "no",
         late'[t] = 0
  PROVE  StopOf(t)'
<1>1. 0 <= 1 /\ stopped'[t] # "in time"
  OBVIOUS
<1>2. late'[t] <= 1
  BY <1>1, Zenon
<1>3. ~Started(t)' /\ ~Overlooks(t)'
  BY Kinds DEF Started, Overlooks
<1> QED
  BY <1>1, <1>2, <1>3 DEF StopOf

\* A step that moves no block, nor begins one once Stop was seen.
LEMMA StopSame ==
  ASSUME OneTest, NEW t \in Threads, NEW to, TypeOK, StopInv, Started(t),
         pc' = [pc EXCEPT ![t] = to],
         UNCHANGED <<type, stopped, late, IsTestCanceled>>,
         pc[t] # "enable", to \notin {"idle", "begin", "reset"},
         to \in {"create", "volume", "allocfill", "memset"} => i'[t] = 0,
         to \in {"fillblock", "transfer"} => ~IsTestCanceled,
         to \in {"loop", "transfer"} =>
           type[t] \in ReadTests \/ pc[t] \in {"loop", "transfer"},
         Overlooks(t)' => Overlooks(t) \/ ~IsTestCanceled
  PROVE  StopInv'
<1>1. \A u \in Threads : u = t
  BY DEF OneTest
<1>2. pc'[t] = to /\ Started(t)'
  BY DEF TypeOK, Started
<1>3. StopOf(t) /\ pc[t] \notin {"idle", "begin", "reset"}
  BY DEF StopInv, Started
<1>4. type[t] \in TestTypes
  BY <1>3 DEF StopOf
<1>5. (~Started(t) \/ Overlooks(t) => stopped[t] # "in time")'
  BY <1>2, <1>3 DEF StopOf
<1>6. (IsTestCanceled /\ \/ Started(t) /\ type[t] \in ReadTests
                         \/ pc[t] \in {"loop", "transfer"}
         => stopped[t] = "in time")'
  BY <1>2, <1>3 DEF StopOf
<1>7. (pc[t] \in {"fillblock", "transfer"} => late[t] = 0)'
  BY <1>2, <1>3 DEF StopOf
<1>8. /\ (pc[t] \in {"idle", "begin"} => type[t] = NoTest)'
      /\ (pc[t] \notin {"idle", "begin", "enable"} => type[t] \in TestTypes)'
      /\ (pc[t] \in {"create", "volume", "allocfill", "memset"}
            => i[t] = 0)'
  BY <1>2, <1>4
<1>9. /\ (stopped[t] = "in time" => IsTestCanceled)'
      /\ (stopped[t] # "in time" => late[t] = 0)'
      /\ (late[t] <= 1)'
  BY <1>3 DEF StopOf
<1>10. StopOf(t)'
  BY <1>5, <1>6, <1>7, <1>8, <1>9 DEF StopOf
<1> QED
  BY <1>1, <1>10 DEF StopInv

LEMMA StopMoved ==
  ASSUME OneTest, NEW t \in Threads, NEW to, TypeOK, StopInv, Moved(t),
         pc' = [pc EXCEPT ![t] = to], UNCHANGED <<type, stopped, IsTestCanceled>>,
         \/ pc[t] = "fillblock" /\ to = "fill" /\ i'[t] = i[t] + 1
         \/ pc[t] = "transfer" /\ to \in {"loop", "free"}
  PROVE  StopInv'
<1>1. \A u \in Threads : u = t
  BY DEF OneTest
<1>2. pc'[t] = to /\ Started(t) /\ Started(t)'
  BY DEF TypeOK, Started
<1>3. StopOf(t) /\ late[t] = 0
  BY DEF StopInv, StopOf
<1>4. late'[t] = IF stopped[t] = "in time" THEN 1 ELSE 0
  <2>1. late \in [Threads -> 0 .. 2]
    BY DEF TypeOK
  <2>2. late'[t] = IF stopped[t] = "in time" /\ late[t] < 2
                   THEN late[t] + 1 ELSE late[t]
    BY <2>1 DEF Moved
  <2>3. 0 < 2 /\ 0 + 1 = 1
    OBVIOUS
  <2> QED
    BY <1>3, <2>2, <2>3, Zenon
<1>5. Overlooks(t)' => Overlooks(t)
  BY <1>2 DEF Overlooks
<1>6. /\ (pc[t] \in {"idle", "begin"} => type[t] = NoTest)'
      /\ (pc[t] \notin {"idle", "begin", "enable"} => type[t] \in TestTypes)'
      /\ (pc[t] \in {"create", "volume", "allocfill", "memset"}
            => i[t] = 0)'
      /\ (pc[t] \in {"fillblock", "transfer"} => late[t] = 0)'
  BY <1>2, <1>3 DEF StopOf
<1>7. (~Started(t) \/ Overlooks(t) => stopped[t] # "in time")'
  BY <1>2, <1>3, <1>5 DEF StopOf
<1>8. (IsTestCanceled /\ \/ Started(t) /\ type[t] \in ReadTests
                         \/ pc[t] \in {"loop", "transfer"}
         => stopped[t] = "in time")'
  BY <1>2, <1>3 DEF StopOf
<1>9. /\ (stopped[t] = "in time" => IsTestCanceled)'
      /\ (stopped[t] # "in time" => late[t] = 0)'
      /\ (late[t] <= 1)'
  <2>1. late'[t] <= 1
    <3>1. 1 <= 1 /\ 0 <= 1
      OBVIOUS
    <3> QED
      BY <1>4, <3>1, Zenon
  <2> QED
    BY <1>3, <1>4, <2>1 DEF StopOf
<1>10. StopOf(t)'
  BY <1>6, <1>7, <1>8, <1>9 DEF StopOf
<1> QED
  BY <1>1, <1>10 DEF StopInv

LEMMA StopThread ==
  ASSUME OneTest, NEW t \in Threads, TypeOK, StopInv, TestStep(t)
  PROVE  StopInv'
<1>1. \A u \in Threads : u = t
  BY DEF OneTest
<1>20. StopOf(t)
  BY DEF StopInv
<1>2. CASE Begin(t)
  <2>1. /\ pc[t] = "begin" /\ type[t] = NoTest
        /\ stopped[t] # "in time" /\ late[t] = 0
        /\ UNCHANGED <<stopped, late, IsTestCanceled>>
    BY <1>2, <1>20 DEF Begin, StopOf, Started, globals, history
  <2>2. CASE pc' = [pc EXCEPT ![t] = "enable"] /\ UNCHANGED type
    <3>1. pc'[t] = "enable" /\ type'[t] = NoTest
      BY <2>1, <2>2 DEF TypeOK
    <3> QED
      BY <1>1, <2>1, <3>1, Kinds DEF StopInv, StopOf, Started, Overlooks
  <2>3. CASE /\ type' = [type EXCEPT ![t] = selected] /\ selected # NoTest
             /\ pc' = [pc EXCEPT ![t] = IF selected \in ReadTests
                                        THEN "reset" ELSE "name"]
    <3>1. /\ type'[t] = selected /\ selected \in TestTypes
          /\ pc'[t] = IF selected \in ReadTests THEN "reset" ELSE "name"
      BY <2>3, SelectableAssumption DEF TypeOK
    <3> QED
      BY <1>1, <2>1, <3>1 DEF StopInv, StopOf, Started, Overlooks
  <2> QED
    BY <1>2, <2>2, <2>3 DEF Begin
<1>3. CASE Reset(t)
  <2>1. /\ pc[t] = "reset" /\ pc'[t] = "name" /\ ~IsTestCanceled'
        /\ UNCHANGED <<type, stopped, late>>
    BY <1>3 DEF Reset, At, TypeOK, history
  <2> QED
    BY <1>1, <1>20, <2>1 DEF StopInv, StopOf, Started, Overlooks
<1>4. CASE Arm(t)
  <2>1. pc[t] = "arm" /\ pc'[t] = "loop" /\ UNCHANGED <<type, stopped, late>>
    BY <1>4 DEF Arm, At, TypeOK, history
  <2>2. CASE type[t] \in WriteTests
    <3>1. ~IsTestCanceled' /\ stopped[t] # "in time"
      BY <1>4, <1>20, <2>1, <2>2 DEF Arm, StopOf, Overlooks
    <3> QED
      BY <1>1, <1>20, <2>1, <3>1 DEF StopInv, StopOf, Started, Overlooks
  <2>3. CASE type[t] \notin WriteTests
    <3>1. type[t] \in ReadTests
      BY <1>20, <2>1, <2>3, Kinds DEF StopOf
    <3>2. IsTestCanceled' = IsTestCanceled /\ ~Overlooks(t)'
      BY <1>4, <2>1, <2>3 DEF Arm, Overlooks
    <3> QED
      BY <1>4, <2>1, <3>1, <3>2, StopSame DEF Arm, At, Started
  <2> QED
    BY <2>2, <2>3
<1>5. CASE FillBlock(t)
  <2>1. i'[t] = i[t] + 1
    BY <1>5 DEF FillBlock, TypeOK
  <2> QED
    BY <1>5, <2>1, StopMoved DEF FillBlock, At, globals
<1>6. CASE CountBlock(t)
  <2>1. \E to \in {"loop", "free"} : pc' = [pc EXCEPT ![t] = to]
    BY <1>6 DEF CountBlock, At
  <2> QED
    BY <1>6, <2>1, StopMoved DEF CountBlock, At, globals
<1>7. CASE Enable(t)
  <2>1. /\ pc'[t] = "idle" /\ type'[t] = NoTest
        /\ stopped'[t] = "no" /\ late'[t] = 0
    BY <1>7 DEF Enable, At, TypeOK
  <2> QED
    BY <1>1, <2>1, StopIdle DEF StopInv
<1>8. CASE Fill(t)
  <2>1. /\ pc[t] = "fill" /\ UNCHANGED <<type, stopped, late, IsTestCanceled, i>>
    BY <1>8 DEF Fill, globals, history
  <2>2. CASE i[t] = FillCount
    <3>1. pc' = [pc EXCEPT ![t] = "freefill"]
      BY <1>8, <2>2 DEF Fill
    <3>2. Overlooks(t)' => Overlooks(t)
      BY <2>1, <2>2 DEF Overlooks
    <3> QED
      BY <2>1, <3>1, <3>2, StopSame DEF Started
  <2>3. CASE i[t] # FillCount /\ IsTestCanceled
    <3>1. pc' = [pc EXCEPT ![t] = "failfree"] /\ pc'[t] = "failfree"
      BY <1>8, <2>3 DEF Fill, TypeOK
    <3>2. ~Overlooks(t)'
      BY <3>1 DEF Overlooks
    <3> QED
      BY <2>1, <3>1, <3>2, StopSame DEF Started
  <2>4. CASE i[t] # FillCount /\ ~IsTestCanceled
    <3>1. pc' = [pc EXCEPT ![t] = "fillblock"]
      BY <1>8, <2>4 DEF Fill
    <3> QED
      BY <2>1, <2>4, <3>1, StopSame DEF Started
  <2> QED
    BY <2>2, <2>3, <2>4
<1>9. CASE Loop(t)
  <2>1. pc[t] = "loop" /\ UNCHANGED <<type, stopped, late, IsTestCanceled, i>>
    BY <1>9 DEF Loop, At, globals, history
  <2>2. PICK to \in {"free", "transfer"} :
          /\ pc' = [pc EXCEPT ![t] = to]
          /\ to = "transfer" => ~IsTestCanceled
    BY <1>9 DEF Loop, At
  <2>3. ~Overlooks(t)'
    BY <2>2 DEF Overlooks, TypeOK
  <2> QED
    BY <2>1, <2>2, <2>3, StopSame DEF Started
<1>10. CASE SeekRefused(t) \/ SequentialError(t)
  <2>1. /\ pc[t] = "transfer"
        /\ UNCHANGED <<type, stopped, late, IsTestCanceled, i>>
    BY <1>10 DEF SeekRefused, SequentialError, At, globals, history
  <2>2. PICK to \in {"free", "loop"} : pc' = [pc EXCEPT ![t] = to]
    BY <1>10 DEF SeekRefused, SequentialError, At
  <2>3. ~Overlooks(t)'
    BY <2>2 DEF Overlooks, TypeOK
  <2> QED
    BY <2>1, <2>2, <2>3, StopSame DEF Started
<1>11. CASE Memset(t)
  <2>1. /\ pc[t] = "memset" /\ UNCHANGED <<type, stopped, late, IsTestCanceled, i>>
        /\ pc' = [pc EXCEPT ![t] = "fill"] /\ pc'[t] = "fill"
    BY <1>11 DEF Memset, At, globals, history, TypeOK
  <2>2. i[t] = 0 /\ FillCount # 0
    BY <1>20, <2>1, ConstantsAssumption DEF StopOf
  <2>3. ~Overlooks(t)'
    BY <2>1, <2>2 DEF Overlooks
  <2> QED
    BY <2>1, <2>3, StopSame DEF Started
<1>12. CASE FreeFill(t) \/ CloseFill(t) \/ Reopen(t) \/ Alloc(t)
  <2>1. /\ pc[t] \in {"freefill", "closefill", "reopen", "alloc"}
        /\ UNCHANGED <<type, stopped, late, IsTestCanceled, i>>
    BY <1>12 DEF FreeFill, CloseFill, Reopen, Alloc, At, globals, history
  <2>2. PICK to \in {"closefill", "reopen", "deletefailed", "enable", "alloc",
                     "arm", "closeleave", "free"} : pc' = [pc EXCEPT ![t] = to]
    BY <1>12 DEF FreeFill, CloseFill, Reopen, Alloc, At
  <2>3. Overlooks(t)' => Overlooks(t)
    BY <2>1 DEF Overlooks
  <2> QED
    BY <2>1, <2>2, <2>3, StopSame DEF Started
<1>13. CASE NextName(t) \/ LookUp(t) \/ Create(t) \/ Volume(t) \/ AllocFill(t)
            \/ Dismiss(t)
  <2>1. /\ pc[t] \in {"name", "lookup", "create", "volume", "allocfill",
                      "message"}
        /\ UNCHANGED <<type, stopped, late, IsTestCanceled>>
    BY <1>13 DEF NextName, LookUp, Create, Volume, AllocFill, Dismiss, At,
                 globals, history
  <2>2. PICK to \in {"name", "lookup", "create", "deletefailed", "message",
                     "volume", "allocfill", "memset", "failfree"} :
          pc' = [pc EXCEPT ![t] = to]
    BY <1>13 DEF NextName, LookUp, Create, Volume, AllocFill, Dismiss, At
  <2>3. ~Overlooks(t)' /\ pc'[t] = to
    BY <2>2 DEF Overlooks, TypeOK
  <2>4. CASE NextName(t) \/ LookUp(t) \/ Dismiss(t)
    <3>1. to \in {"create", "volume", "allocfill", "memset"} => i'[t] = 0
      BY <2>3, <2>4 DEF NextName, LookUp, Dismiss, At, TypeOK
    <3> QED
      BY <2>1, <2>2, <2>3, <3>1, StopSame DEF Started
  <2>5. CASE Create(t) \/ Volume(t) \/ AllocFill(t)
    <3>1. i'[t] = i[t] /\ pc[t] \in {"create", "volume", "allocfill"}
      BY <2>5 DEF Create, Volume, AllocFill, At
    <3>2. i'[t] = 0
      BY <1>20, <3>1 DEF StopOf
    <3> QED
      BY <2>1, <2>2, <2>3, <3>2, StopSame DEF Started
  <2> QED
    BY <1>13, <2>4, <2>5
<1>14. CASE FailFree(t) \/ FailClose(t) \/ FailDelete(t) \/ DeleteFailed(t)
            \/ CloseLeave(t) \/ FreeBlock(t) \/ KillTimers(t) \/ CloseTest(t)
            \/ DeleteTest(t)
  <2>1. /\ pc[t] \in {"failfree", "failclose", "faildelete", "deletefailed",
                      "closeleave", "free", "kill", "close", "delete"}
        /\ UNCHANGED <<type, stopped, late, IsTestCanceled>>
    BY <1>14 DEF FailFree, FailClose, FailDelete, DeleteFailed, CloseLeave,
                 FreeBlock, KillTimers, CloseTest, DeleteTest, At, globals,
                 history
  <2>2. PICK to \in {"failclose", "faildelete", "deletefailed", "enable",
                     "kill", "close", "delete"} : pc' = [pc EXCEPT ![t] = to]
    BY <1>14 DEF FailFree, FailClose, FailDelete, DeleteFailed, CloseLeave,
                 FreeBlock, KillTimers, CloseTest, DeleteTest, At
  <2>3. ~Overlooks(t)'
    BY <2>2 DEF Overlooks, TypeOK
  <2> QED
    BY <2>1, <2>2, <2>3, StopSame DEF Started
<1> QED
  BY <1>2, <1>3, <1>4, <1>5, <1>6, <1>7, <1>8, <1>9, <1>10, <1>11, <1>12,
     <1>13, <1>14
     DEF TestStep, TestThread, Transfer, RandomBlock, SequentialBlock

LEMMA StopStep ==
  ASSUME OneTest
  PROVE  TypeOK /\ StopInv /\ [Next]_vars => StopInv'
<1> SUFFICES ASSUME TypeOK, StopInv, [Next]_vars PROVE StopInv'
  OBVIOUS
<1>1. ASSUME NEW t \in Threads, TestStep(t) PROVE StopInv'
  BY <1>1, StopThread
<1>2. ASSUME NEW t \in Threads, Start(t) PROVE StopInv'
  <2>1. /\ pc[t] = "idle" /\ pc'[t] = "begin"
        /\ UNCHANGED <<type, stopped, late, IsTestCanceled>>
    BY <1>2 DEF Start, At, TypeOK, globals, history
  <2>2. StopOf(t) /\ \A u \in Threads : u = t
    BY DEF OneTest, StopInv
  <2> QED
    BY <2>1, <2>2, Kinds DEF StopInv, StopOf, Started, Overlooks
<1>3. CASE Exit \/ Kill \/ \E t \in Threads : Fault(t)
  <2>1. /\ pc' = [t \in Threads |-> "idle"]
        /\ type' = [t \in Threads |-> NoTest]
        /\ stopped' = [t \in Threads |-> "no"]
        /\ late' = [t \in Threads |-> 0]
    BY <1>3 DEF Exit, Kill, Fault, EndProcess
  <2> QED
    BY <2>1, StopIdle DEF StopInv
<1>4. CASE Stop
  <2> SUFFICES ASSUME NEW t \in Threads PROVE StopOf(t)'
    BY DEF StopInv
  <2>1. /\ IsTestCanceled' = TRUE
        /\ UNCHANGED <<pc, type, i, late>>
    BY <1>4 DEF Stop, local
  <2>2. StopOf(t) /\ (Started(t)' <=> Started(t))
        /\ (Overlooks(t)' <=> Overlooks(t))
    BY <2>1 DEF StopInv, Started, Overlooks
  <2>3. CASE Started(t) /\ ~Overlooks(t)
    <3>1. stopped'[t] = "in time"
      BY <1>4, <2>3 DEF Stop
    <3> QED
      BY <2>1, <2>2, <2>3, <3>1 DEF StopOf
  <2>4. CASE ~(Started(t) /\ ~Overlooks(t))
    <3>1. stopped'[t] = IF pc[t] # "idle" /\ stopped[t] = "no" THEN "pressed"
                        ELSE stopped[t]
      BY <1>4, <2>4 DEF Stop
    <3>2. stopped[t] # "in time" /\ stopped'[t] # "in time"
      BY <2>2, <2>4, <3>1 DEF StopOf
    <3>3. ~(Started(t) /\ type[t] \in ReadTests)
          /\ pc[t] \notin {"loop", "transfer"}
      BY <2>4, Kinds DEF Overlooks, Started
    <3> QED
      BY <2>1, <2>2, <3>2, <3>3 DEF StopOf
  <2> QED
    BY <2>3, <2>4
<1>5. CASE \/ \E x \in Selectable : Select(x)
           \/ Close \/ CloseDelete \/ CloseKill \/ CloseFree \/ Launch
           \/ UNCHANGED vars
  <2>1. UNCHANGED <<pc, type, i, stopped, late, IsTestCanceled>>
    BY <1>5 DEF Select, Close, CloseDelete, CloseKill, CloseFree, Launch,
                vars, globals, local, history
  <2> QED
    BY <2>1 DEF StopInv, StopOf, Started, Overlooks
<1> QED
  BY <1>1, <1>2, <1>3, <1>4, <1>5 DEF Next, Dialog, TestStep

LEMMA StopInit == Init => StopInv
BY Kinds DEF Init, StopInv, StopOf, Started, Overlooks

LEMMA StopInductive ==
  ASSUME OneTest
  PROVE  TypeInv /\ StopInv /\ [Next]_vars => (TypeInv /\ StopInv)'
BY TypeStep, StopStep DEF TypeInv

\* One test at a time: once Stop is pressed a test finishes at most the block
\* it had begun, in the fill loop and the transfer loop together; only before
\* Reset, and between the fill loop of a write test and its Arm, is a Stop
\* overlooked.
THEOREM TestsStop == ASSUME OneTest PROVE Spec => []StopIsPrompt
<1>1. StopInv => StopIsPrompt
  BY DEF StopInv, StopOf, StopIsPrompt
<1> QED
  BY TypeInit, StopInit, StopInductive, <1>1, PTL DEF Spec

\* One test at a time: neither a read test nor the transfer of a write test
\* obeys a Stop that was pressed before it.
THEOREM StopsAreFresh == ASSUME OneTest PROVE Spec => []StopIsFresh
<1>1. StopInv => StopIsFresh
  BY DEF StopInv, StopOf, StopIsFresh
<1> QED
  BY TypeInit, StopInit, StopInductive, <1>1, PTL DEF Spec

-----------------------------------------------------------------------------
(* Timers. *)

Timed == {"loop", "transfer", "free", "kill"}

BothTimers == {"seconds counter", "cpu usage"}

TimersInv ==
  /\ ui = "open" =>
       \A t \in Threads : pc[t] \in {"loop", "transfer"} => timers = BothTimers
  /\ (\A t \in Threads : pc[t] \notin Timed) => timers = {}
  /\ ui \in {"exited", "faulted"} => AllIdle

\* A step that leaves the timers alone enters or leaves the timed part of
\* the test only from Alloc, whose timers are not set, or not at all.
LEMMA TimersSame ==
  ASSUME OneTest, NEW t \in Threads, NEW to, TypeOK, TimersInv,
         pc[t] # "idle", pc' = [pc EXCEPT ![t] = to],
         UNCHANGED <<ui, timers>>,
         to \in {"loop", "transfer"} => pc[t] \in {"loop", "transfer"},
         pc[t] \in Timed => to \in Timed
  PROVE  TimersInv'
<1>1. \A u \in Threads : u = t
  BY DEF OneTest
<1>2. pc'[t] = to
  BY DEF TypeOK
<1>3. ui' \notin {"exited", "faulted"}
  BY DEF TimersInv, AllIdle
<1> QED
  BY <1>1, <1>2, <1>3 DEF TimersInv

LEMMA TimersThread ==
  ASSUME OneTest, NEW t \in Threads, TypeOK, TimersInv, TestStep(t)
  PROVE  TimersInv'
<1>1. \A u \in Threads : u = t
  BY DEF OneTest
<1>2. CASE Arm(t)
  <2>1. /\ pc[t] = "arm" /\ pc'[t] = "loop" /\ ui' = ui
        /\ ui # "ended" => timers' = BothTimers
    BY <1>2 DEF Arm, At, TypeOK, BothTimers
  <2>2. ui \notin {"exited", "faulted"}
    BY <2>1 DEF TimersInv, AllIdle
  <2> QED
    BY <1>1, <2>1, <2>2 DEF TimersInv, Timed
<1>3. CASE KillTimers(t)
  <2>1. pc[t] = "kill" /\ pc'[t] = "close" /\ ui' = ui /\ timers' = {}
    BY <1>3 DEF KillTimers, At, TypeOK
  <2>2. ui \notin {"exited", "faulted"}
    BY <2>1 DEF TimersInv, AllIdle
  <2> QED
    BY <1>1, <2>1, <2>2 DEF TimersInv
<1>4. CASE Loop(t) \/ Transfer(t) \/ FreeBlock(t)
  <2>1. pc[t] # "idle" /\ UNCHANGED <<ui, timers>>
    BY <1>4 DEF Loop, Transfer, RandomBlock, SequentialBlock, CountBlock,
                SeekRefused, SequentialError, FreeBlock, At, dialog
  <2>2. CASE Loop(t)
    <3>1. /\ pc[t] = "loop"
          /\ \E to \in {"free", "transfer"} : pc' = [pc EXCEPT ![t] = to]
      BY <2>2 DEF Loop, At
    <3> QED
      BY <2>1, <3>1, TimersSame DEF Timed
  <2>3. CASE Transfer(t)
    <3>1. /\ pc[t] = "transfer"
          /\ \E to \in {"free", "loop"} : pc' = [pc EXCEPT ![t] = to]
      BY <2>3 DEF Transfer, RandomBlock, SequentialBlock, CountBlock,
                  SeekRefused, SequentialError, At
    <3> QED
      BY <2>1, <3>1, TimersSame DEF Timed
  <2>4. CASE FreeBlock(t)
    BY <2>1, <2>4, TimersSame DEF FreeBlock, At, Timed
  <2> QED
    BY <1>4, <2>2, <2>3, <2>4
<1>5. CASE Begin(t) \/ Reset(t) \/ NextName(t) \/ LookUp(t) \/ Create(t)
           \/ Volume(t)
  <2>1. pc[t] \notin Timed \union {"idle"} /\ UNCHANGED <<ui, timers>>
    BY <1>5 DEF Begin, Reset, NextName, LookUp, Create, Volume, At, Timed,
                dialog
  <2>2. CASE Begin(t)
    <3>1. \E to \in {"enable", "reset", "name"} : pc' = [pc EXCEPT ![t] = to]
      BY <2>2 DEF Begin
    <3> QED
      BY <2>1, <3>1, TimersSame
  <2>3. CASE LookUp(t) \/ Create(t)
    <3>1. \E to \in {"name", "create", "deletefailed", "message", "volume"} :
            pc' = [pc EXCEPT ![t] = to]
      BY <2>3 DEF LookUp, Create, At
    <3> QED
      BY <2>1, <3>1, TimersSame
  <2>4. CASE Reset(t) \/ NextName(t) \/ Volume(t)
    <3>1. \E to \in {"name", "lookup", "allocfill", "failfree"} :
            pc' = [pc EXCEPT ![t] = to]
      BY <2>4 DEF Reset, NextName, Volume, At
    <3> QED
      BY <2>1, <3>1, TimersSame
  <2> QED
    BY <1>5, <2>2, <2>3, <2>4
<1>6. CASE AllocFill(t) \/ Memset(t) \/ Fill(t) \/ FillBlock(t) \/ FreeFill(t)
           \/ CloseFill(t) \/ FailFree(t) \/ FailClose(t)
  <2>1. pc[t] \notin Timed \union {"idle"} /\ UNCHANGED <<ui, timers>>
    BY <1>6 DEF AllocFill, Memset, Fill, FillBlock, FreeFill, CloseFill,
                FailFree, FailClose, At, Timed, dialog
  <2>2. \E to \in Holding \union {"faildelete", "reopen"} :
          pc' = [pc EXCEPT ![t] = to] /\ to \notin {"loop", "transfer"}
    BY <1>6 DEF AllocFill, Memset, Fill, FillBlock, FreeFill, CloseFill,
                FailFree, FailClose, At, Holding
  <2> QED
    BY <2>1, <2>2, TimersSame
<1>7. CASE FailDelete(t) \/ DeleteFailed(t) \/ Reopen(t) \/ Alloc(t)
           \/ CloseLeave(t) \/ CloseTest(t) \/ DeleteTest(t)
  <2>1. pc[t] \notin Timed \union {"idle"} /\ UNCHANGED <<ui, timers>>
    BY <1>7 DEF FailDelete, DeleteFailed, Reopen, Alloc, CloseLeave,
                CloseTest, DeleteTest, At, Timed, dialog
  <2>2. CASE Reopen(t) \/ Alloc(t)
    <3>1. \E to \in {"deletefailed", "enable", "alloc", "arm", "closeleave",
                     "free"} :
            pc' = [pc EXCEPT ![t] = to]
      BY <2>2 DEF Reopen, Alloc, At
    <3> QED
      BY <2>1, <3>1, TimersSame
  <2>3. CASE FailDelete(t) \/ DeleteFailed(t) \/ CloseLeave(t)
             \/ CloseTest(t) \/ DeleteTest(t)
    <3>1. \E to \in {"deletefailed", "enable", "delete"} :
            pc' = [pc EXCEPT ![t] = to]
      BY <2>3 DEF FailDelete, DeleteFailed, CloseLeave, CloseTest,
                  DeleteTest, At
    <3> QED
      BY <2>1, <3>1, TimersSame
  <2> QED
    BY <1>7, <2>2, <2>3
<1>8. CASE Enable(t) \/ Dismiss(t)
  <2>1. pc[t] \in {"enable", "message"} /\ UNCHANGED <<ui, timers>>
        /\ \E to \in {"idle", "deletefailed"} : pc' = [pc EXCEPT ![t] = to]
    BY <1>8 DEF Enable, Dismiss, At, dialog
  <2> QED
    BY <2>1, TimersSame DEF Timed
<1> QED
  BY <1>2, <1>3, <1>4, <1>5, <1>6, <1>7, <1>8 DEF TestStep, TestThread

LEMMA TimersStep ==
  ASSUME OneTest
  PROVE  TypeOK /\ TimersInv /\ [Next]_vars => TimersInv'
<1> SUFFICES ASSUME TypeOK, TimersInv, [Next]_vars PROVE TimersInv'
  OBVIOUS
<1>1. ASSUME NEW t \in Threads, TestStep(t) PROVE TimersInv'
  BY <1>1, TimersThread
<1>2. ASSUME NEW t \in Threads, Start(t) PROVE TimersInv'
  <2>1. /\ ui = "open" /\ pc[t] = "idle" /\ pc'[t] = "begin"
        /\ UNCHANGED <<ui, timers>>
    BY <1>2 DEF Start, At, TypeOK, dialog
  <2> QED
    BY <2>1 DEF OneTest, TimersInv, Timed
<1>3. CASE Exit \/ Kill \/ \E t \in Threads : Fault(t)
  <2>1. pc' = [t \in Threads |-> "idle"] /\ timers' = {}
    BY <1>3 DEF Exit, Kill, Fault, EndProcess
  <2> QED
    BY <2>1 DEF TimersInv, AllIdle
<1>4. CASE Close \/ CloseDelete \/ CloseKill \/ CloseFree
  <2>1. /\ ui' \in {"deleting", "killing", "freeing", "ended"}
        /\ timers' \in {timers, {}} /\ pc' = pc
    BY <1>4 DEF Close, CloseDelete, CloseKill, CloseFree, local
  <2> QED
    BY <2>1 DEF TimersInv
<1>5. CASE Launch
  <2>1. AllIdle /\ pc' = pc /\ timers' = timers /\ ui' = "open"
    BY <1>5 DEF Launch, TimersInv, local
  <2> QED
    BY <2>1 DEF TimersInv, AllIdle
<1>6. CASE \/ \E x \in Selectable : Select(x)
           \/ Stop \/ UNCHANGED vars
  <2>1. UNCHANGED <<ui, timers, pc>>
    BY <1>6 DEF Select, Stop, vars, dialog, local
  <2> QED
    BY <2>1 DEF TimersInv, AllIdle
<1> QED
  BY <1>1, <1>2, <1>3, <1>4, <1>5, <1>6 DEF Next, Dialog, TestStep

LEMMA TimersInductive ==
  ASSUME OneTest
  PROVE  TypeInv /\ TimersInv /\ [Next]_vars => (TypeInv /\ TimersInv)'
BY TypeStep, TimersStep DEF TypeInv

\* One test at a time: while the dialog is open the timers of the statistics
\* run throughout the transfer loop and are gone when the test is over.
THEOREM TimersRunWithTheTest == ASSUME OneTest PROVE Spec => []TimersFollowTest
<1>1. TimersInv => TimersFollowTest
  BY DEF TimersInv, TimersFollowTest, AllIdle, Timed, BothTimers
<1>2. Init => TimersInv
  BY DEF Init, TimersInv
<1> QED
  BY TypeInit, TimersInductive, <1>1, <1>2, PTL DEF Spec

-----------------------------------------------------------------------------
(* How soon a test ends that is left alone.                                *)

\* The most steps of a test.
MaxTestSteps == 2 * (NameLimit + FillCount + BlockCount) + 17

\* The steps from the transfer on, and from the filling on.
TransferSteps == 2 * BlockCount
FillSteps == 2 * FillCount + TransferSteps

\* The steps a test at place p may still take with its loop counter at n.
TestStepsFrom(p, n) ==
  CASE p = "begin"        -> 2 * NameLimit + FillSteps + 17
    [] p = "reset"        -> 2 * NameLimit + FillSteps + 16
    [] p = "name"         -> 2 * (NameLimit - n) + FillSteps + 15
    [] p = "lookup"       -> IF n < NameLimit
                             THEN 2 * (NameLimit - n) + FillSteps + 16
                             ELSE FillSteps + 16
    [] p = "create"       -> FillSteps + 15
    [] p = "volume"       -> FillSteps + 14
    [] p = "allocfill"    -> FillSteps + 13
    [] p = "memset"       -> FillSteps + 12
    [] p = "fill"         -> 2 * (FillCount - n) + TransferSteps + 11
    [] p = "fillblock"    -> 2 * (FillCount - n) + TransferSteps + 10
    [] p = "freefill"     -> TransferSteps + 10
    [] p = "closefill"    -> TransferSteps + 9
    [] p = "reopen"       -> TransferSteps + 8
    [] p = "alloc"        -> TransferSteps + 7
    [] p = "arm"          -> TransferSteps + 6
    [] p = "loop"         -> 2 * (BlockCount - n) + 5
    [] p = "transfer"     -> 2 * (BlockCount - n) + 4
    [] OTHER              -> StopStepsFrom(p, n)

TestStepsLeft(t) == TestStepsFrom(pc[t], i[t])

\* A test that is left alone never has more than MaxTestSteps steps before it.
TestStepsBounded == \A t \in Threads : TestStepsLeft(t) \in 0 .. MaxTestSteps

\* While the dialog is open every step of a test leaves it fewer steps, Stop or
\* no Stop, and no step of the dialog gives it more; but a random test whose
\* file pointer is not moved, and its handle is open then, has one step more.
TestStepsDecrease ==
  [][ui = "open" =>
       \A t \in Threads :
         /\ TestStep(t) /\ ~SeekRefused(t) =>
              TestStepsLeft(t)' < TestStepsLeft(t)
         /\ SeekRefused(t) =>
              /\ hFileHandle \in Open
              /\ TestStepsLeft(t)' = TestStepsLeft(t) + 1
         /\ pc[t] # "idle" /\ ~SeekRefused(t) =>
              TestStepsLeft(t)' <= TestStepsLeft(t)]_vars

\* While the dialog is open the test that transfers has its file; there is no
\* test without a process.
OpenInv ==
  /\ ui = "open" => \A t \in Threads :
       pc[t] \in {"alloc", "arm", "loop", "transfer"} => hFileHandle \in Open
  /\ ui \in {"exited", "faulted"} => AllIdle

LEMMA BoundTypes ==
  /\ NameLimit \in Nat /\ NameLimit > 0
  /\ FillCount \in Nat /\ FillCount > 0
  /\ BlockCount \in Nat /\ BlockCount > 0
  /\ TransferSteps \in Nat /\ TransferSteps = 2 * BlockCount
  /\ FillSteps \in Nat /\ FillSteps = 2 * FillCount + TransferSteps
  /\ MaxTestSteps = 2 * NameLimit + FillSteps + 17
<1>1. /\ NameLimit \in Nat /\ NameLimit > 0
      /\ FillCount \in Nat /\ FillCount > 0
      /\ BlockCount \in Nat /\ BlockCount > 0
  BY ConstantsAssumption
<1> QED
  BY <1>1 DEF TransferSteps, FillSteps, MaxTestSteps

\* What TestStepsFrom is at each place.
LEMMA NamingSteps ==
  ASSUME NEW n
  PROVE  /\ TestStepsFrom("begin", n) = 2 * NameLimit + FillSteps + 17
         /\ TestStepsFrom("reset", n) = 2 * NameLimit + FillSteps + 16
         /\ TestStepsFrom("name", n) = 2 * (NameLimit - n) + FillSteps + 15
         /\ n < NameLimit => TestStepsFrom("lookup", n)
                             = 2 * (NameLimit - n) + FillSteps + 16
         /\ ~(n < NameLimit) => TestStepsFrom("lookup", n) = FillSteps + 16
         /\ TestStepsFrom("create", n) = FillSteps + 15
BY DEF TestStepsFrom

LEMMA FillingSteps ==
  ASSUME NEW n
  PROVE  /\ TestStepsFrom("volume", n) = FillSteps + 14
         /\ TestStepsFrom("allocfill", n) = FillSteps + 13
         /\ TestStepsFrom("memset", n) = FillSteps + 12
         /\ TestStepsFrom("fill", n)
              = 2 * (FillCount - n) + TransferSteps + 11
         /\ TestStepsFrom("fillblock", n)
              = 2 * (FillCount - n) + TransferSteps + 10
         /\ TestStepsFrom("freefill", n) = TransferSteps + 10
BY DEF TestStepsFrom

LEMMA TransferringSteps ==
  ASSUME NEW n
  PROVE  /\ TestStepsFrom("closefill", n) = TransferSteps + 9
         /\ TestStepsFrom("reopen", n) = TransferSteps + 8
         /\ TestStepsFrom("alloc", n) = TransferSteps + 7
         /\ TestStepsFrom("arm", n) = TransferSteps + 6
         /\ TestStepsFrom("loop", n) = 2 * (BlockCount - n) + 5
         /\ TestStepsFrom("transfer", n) = 2 * (BlockCount - n) + 4
BY DEF TestStepsFrom

LEMMA CleaningSteps ==
  ASSUME NEW n
  PROVE  /\ TestStepsFrom("free", n) = 5 /\ TestStepsFrom("failfree", n) = 5
         /\ TestStepsFrom("kill", n) = 4 /\ TestStepsFrom("failclose", n) = 4
         /\ TestStepsFrom("close", n) = 3
         /\ TestStepsFrom("faildelete", n) = 3
         /\ TestStepsFrom("delete", n) = 2
         /\ TestStepsFrom("deletefailed", n) = 2
         /\ TestStepsFrom("closeleave", n) = 2
         /\ TestStepsFrom("message", n) = 3
         /\ TestStepsFrom("enable", n) = 1 /\ TestStepsFrom("idle", n) = 0
BY FixedSteps DEF TestStepsFrom

\* The loop counter of a test at place p.
Counted(p, n) ==
  /\ p \in {"reset", "name"} => n < NameLimit
  /\ p \in {"create", "volume", "allocfill", "memset"} => n = 0
  /\ p = "fill" => n <= FillCount
  /\ p = "fillblock" => n < FillCount
  /\ p \in {"loop", "transfer"} => n < BlockCount

LEMMA TestStepsType ==
  ASSUME NEW p \in ThreadStates, NEW n \in Nat, Counted(p, n)
  PROVE  TestStepsFrom(p, n) \in 0 .. MaxTestSteps
<1>1. CASE p \in {"begin", "reset", "name", "create"}
  BY <1>1, BoundTypes, NamingSteps DEF Counted
<1>2. CASE p = "lookup"
  BY <1>2, BoundTypes, NamingSteps
<1>3. CASE p \in {"volume", "allocfill", "memset", "freefill"}
  BY <1>3, BoundTypes, FillingSteps
<1>4. CASE p \in {"fill", "fillblock"}
  BY <1>4, BoundTypes, FillingSteps DEF Counted
<1>5. CASE p \in {"closefill", "reopen", "alloc", "arm"}
  BY <1>5, BoundTypes, TransferringSteps
<1>6. CASE p \in {"loop", "transfer"}
  BY <1>6, BoundTypes, TransferringSteps DEF Counted
<1>7. CASE p \in {"free", "failfree", "kill", "failclose", "close",
                  "faildelete", "delete", "deletefailed", "closeleave",
                  "enable", "idle", "message"}
  BY <1>7, BoundTypes, CleaningSteps
<1> QED
  BY <1>1, <1>2, <1>3, <1>4, <1>5, <1>6, <1>7 DEF ThreadStates

\* A step of a test from p, with its counter at n, to q with m: first up to
\* the filling, then up to the transfer, then to the end.
Prepares(p, n, q, m) ==
  \/ p = "begin" /\ q \in {"reset", "name"} /\ m = 0
  \/ p = "begin" /\ q = "enable"
  \/ p = "reset" /\ q = "name" /\ m = n
  \/ p = "name" /\ q = "lookup" /\ m = n + 1
  \/ p = "lookup" /\ q = "name" /\ m = n /\ n < NameLimit
  \/ p = "lookup" /\ q = "create" /\ m = 0
  \/ p = "create" /\ q \in {"deletefailed", "message"}
  \/ p = "create" /\ q = "volume" /\ m = n
  \/ p = "volume" /\ q = "allocfill" /\ m = n
  \/ p = "volume" /\ q = "failfree"
  \/ p = "allocfill" /\ q = "memset" /\ m = n
  \/ p = "allocfill" /\ q = "failfree"

Fills(p, n, q, m) ==
  \/ p = "memset" /\ q = "fill" /\ m = n
  \/ p = "fill" /\ q = "fillblock" /\ n # FillCount /\ m = n
  \/ p = "fill" /\ q \in {"freefill", "failfree"}
  \/ p = "fillblock" /\ q = "fill" /\ m = n + 1
  \/ p = "freefill" /\ q = "closefill"
  \/ p = "closefill" /\ q = "reopen"
  \/ p = "reopen" /\ q \in {"deletefailed", "enable", "alloc"}
  \/ p = "alloc" /\ q \in {"arm", "closeleave", "free"}

Transfers(p, n, q, m) ==
  \/ p = "arm" /\ q = "loop" /\ m = 0
  \/ p = "loop" /\ q = "transfer" /\ m = n
  \/ p = "loop" /\ q = "free"
  \/ p = "transfer" /\ q = "loop" /\ m = n + 1 /\ n + 1 < BlockCount
  \/ p = "transfer" /\ q = "free"

CleansUp(p, q) ==
  \/ p = "free" /\ q = "kill"
  \/ p = "kill" /\ q = "close"
  \/ p = "close" /\ q = "delete"
  \/ p = "failfree" /\ q = "failclose"
  \/ p = "failclose" /\ q = "faildelete"
  \/ p = "faildelete" /\ q = "deletefailed"
  \/ p = "message" /\ q = "deletefailed"
  \/ p \in {"closeleave", "delete", "deletefailed"} /\ q = "enable"
  \/ p = "enable" /\ q = "idle"

\* A random test that tries a block again.
Repeats(p, n, q, m) == p = "transfer" /\ q = "loop" /\ m = n

LEMMA PreparesDecreases ==
  ASSUME NEW p, NEW q, NEW n \in Nat, NEW m \in Nat, Counted(p, n),
         Prepares(p, n, q, m)
  PROVE  TestStepsFrom(q, m) < TestStepsFrom(p, n) /\ Counted(q, m)
<1>1. CASE p = "begin"
  BY <1>1, BoundTypes, NamingSteps, CleaningSteps DEF Prepares, Counted
<1>2. CASE p = "reset"
  BY <1>2, BoundTypes, NamingSteps DEF Prepares, Counted
<1>3. CASE p = "name"
  <2>1. CASE n + 1 < NameLimit
    BY <1>3, <2>1, BoundTypes, NamingSteps DEF Prepares, Counted
  <2>2. CASE ~(n + 1 < NameLimit)
    BY <1>3, <2>2, BoundTypes, NamingSteps DEF Prepares, Counted
  <2> QED
    BY <2>1, <2>2
<1>4. CASE p = "lookup"
  BY <1>4, BoundTypes, NamingSteps DEF Prepares, Counted
<1>5. CASE p \in {"create", "volume", "allocfill"}
  BY <1>5, BoundTypes, NamingSteps, FillingSteps, CleaningSteps
     DEF Prepares, Counted
<1> QED
  BY <1>1, <1>2, <1>3, <1>4, <1>5 DEF Prepares

LEMMA FillsDecreases ==
  ASSUME NEW p, NEW q, NEW n \in Nat, NEW m \in Nat, Counted(p, n),
         Fills(p, n, q, m)
  PROVE  TestStepsFrom(q, m) < TestStepsFrom(p, n) /\ Counted(q, m)
<1>1. CASE p = "memset"
  BY <1>1, BoundTypes, FillingSteps DEF Fills, Counted
<1>2. CASE p = "fill"
  BY <1>2, BoundTypes, FillingSteps, CleaningSteps DEF Fills, Counted
<1>3. CASE p = "fillblock"
  BY <1>3, BoundTypes, FillingSteps DEF Fills, Counted
<1>4. CASE p \in {"freefill", "closefill"}
  BY <1>4, BoundTypes, FillingSteps, TransferringSteps DEF Fills, Counted
<1>5. CASE p \in {"reopen", "alloc"}
  BY <1>5, BoundTypes, TransferringSteps, CleaningSteps DEF Fills, Counted
<1> QED
  BY <1>1, <1>2, <1>3, <1>4, <1>5 DEF Fills

LEMMA TransfersDecreases ==
  ASSUME NEW p, NEW q, NEW n \in Nat, NEW m \in Nat, Counted(p, n),
         Transfers(p, n, q, m)
  PROVE  TestStepsFrom(q, m) < TestStepsFrom(p, n) /\ Counted(q, m)
<1>1. CASE p = "arm"
  BY <1>1, BoundTypes, TransferringSteps DEF Transfers, Counted
<1>2. CASE p = "loop"
  BY <1>2, BoundTypes, TransferringSteps, CleaningSteps
     DEF Transfers, Counted
<1>3. CASE p = "transfer"
  BY <1>3, BoundTypes, TransferringSteps, CleaningSteps
     DEF Transfers, Counted
<1> QED
  BY <1>1, <1>2, <1>3 DEF Transfers

LEMMA CleansUpDecreases ==
  ASSUME NEW p, NEW q, NEW n \in Nat, NEW m \in Nat, CleansUp(p, q)
  PROVE  TestStepsFrom(q, m) < TestStepsFrom(p, n) /\ Counted(q, m)
BY CleaningSteps DEF CleansUp, Counted

\* Every step of a test is one of these.
LEMMA StepOfItself ==
  ASSUME TypeInv, NEW t \in Threads, TestStep(t)
  PROVE  \/ Prepares(pc[t], i[t], pc'[t], i'[t])
         \/ Fills(pc[t], i[t], pc'[t], i'[t])
         \/ Transfers(pc[t], i[t], pc'[t], i'[t])
         \/ CleansUp(pc[t], pc'[t])
         \/ SeekRefused(t) /\ Repeats(pc[t], i[t], pc'[t], i'[t])
<1> USE DEF TypeInv, TypeOK, At
<1>1. CASE Begin(t) \/ Reset(t) \/ NextName(t) \/ LookUp(t)
  BY <1>1 DEF Begin, Reset, NextName, LookUp, Prepares
<1>2. CASE Create(t) \/ Volume(t) \/ AllocFill(t)
  BY <1>2 DEF Create, Volume, AllocFill, Prepares
<1>3. CASE Memset(t) \/ Fill(t) \/ FillBlock(t)
  BY <1>3 DEF Memset, Fill, FillBlock, Fills
<1>4. CASE FreeFill(t) \/ CloseFill(t) \/ Reopen(t) \/ Alloc(t)
  BY <1>4 DEF FreeFill, CloseFill, Reopen, Alloc, Fills
<1>5. CASE FailFree(t) \/ FailClose(t) \/ FailDelete(t) \/ DeleteFailed(t)
  BY <1>5 DEF FailFree, FailClose, FailDelete, DeleteFailed, CleansUp
<1>6. CASE Arm(t) \/ Loop(t)
  BY <1>6 DEF Arm, Loop, Transfers
<1>7. CASE Transfer(t)
  BY <1>7 DEF Transfer, RandomBlock, SequentialBlock, CountBlock, SeekRefused,
              SequentialError, Transfers, Repeats
<1>8. CASE \/ CloseLeave(t) \/ FreeBlock(t) \/ KillTimers(t) \/ CloseTest(t)
           \/ DeleteTest(t) \/ Enable(t) \/ Dismiss(t)
  BY <1>8 DEF CloseLeave, FreeBlock, KillTimers, CloseTest, DeleteTest,
              Enable, Dismiss, CleansUp
<1> QED
  BY <1>1, <1>2, <1>3, <1>4, <1>5, <1>6, <1>7, <1>8 DEF TestStep, TestThread

\* The loop counter of every test is within the bound of the loop it is in.
CountInv == \A t \in Threads : Counted(pc[t], i[t])

LEMMA TestDecreases ==
  ASSUME TypeInv, TypeInv', CountInv, NEW t \in Threads, TestStep(t)
  PROVE  /\ Counted(pc'[t], i'[t])
         /\ ~SeekRefused(t) =>
              TestStepsFrom(pc'[t], i'[t]) < TestStepsFrom(pc[t], i[t])
         /\ SeekRefused(t) =>
              TestStepsFrom(pc'[t], i'[t]) = TestStepsFrom(pc[t], i[t]) + 1
<1>1. i[t] \in Nat /\ i'[t] \in Nat /\ Counted(pc[t], i[t])
  BY DEF TypeInv, TypeOK, CountInv
<1>2. CASE SeekRefused(t)
  <2>1. pc[t] = "transfer" /\ pc'[t] = "loop" /\ i'[t] = i[t]
    BY <1>2 DEF SeekRefused, At, TypeInv, TypeOK
  <2> QED
    BY <1>1, <1>2, <2>1, BoundTypes, TransferringSteps DEF Counted
<1>3. CASE ~SeekRefused(t)
  BY <1>1, <1>3, StepOfItself, PreparesDecreases, FillsDecreases,
     TransfersDecreases, CleansUpDecreases
<1> QED
  BY <1>2, <1>3

LEMMA CountStep ==
  ASSUME TypeInv, TypeInv', CountInv, [Next]_vars
  PROVE  CountInv'
<1> SUFFICES ASSUME NEW t \in Threads PROVE Counted(pc[t], i[t])'
  BY DEF CountInv
<1>1. CASE TestStep(t)
  BY <1>1, TestDecreases DEF Counted
<1>2. CASE pc'[t] = pc[t] /\ i'[t] = i[t]
  BY <1>2 DEF CountInv, Counted
<1>3. CASE pc'[t] \in {"idle", "begin"}
  BY <1>3 DEF Counted
<1> QED
  BY <1>1, <1>2, <1>3, StepOfTest

\* The handle a test transfers with is the one it opened its file with.
LEMMA OpenThread ==
  ASSUME OneTest, TypeInv, OpenInv, NEW t \in Threads, TestStep(t)
  PROVE  OpenInv'
<1>1. pc[t] # "idle"
  BY StepOfItself DEF Prepares, Fills, Transfers, CleansUp, Repeats
<1>2. ui' = ui
  BY DEF TestStep, Dismiss, RandomBlock, SequentialBlock, CountBlock,
         SeekRefused, SequentialError, TestThread, Begin, Reset, NextName,
         LookUp, Create, Volume, AllocFill, Memset, Fill, FillBlock, FreeFill, CloseFill, FailFree, FailClose,
         FailDelete, DeleteFailed, Reopen, Alloc, CloseLeave, Arm, Loop,
         Transfer, FreeBlock, KillTimers, CloseTest, DeleteTest, Enable, dialog
<1>3. ui \notin {"exited", "faulted"}
  BY <1>1 DEF OpenInv, AllIdle
<1>4. ASSUME ui = "open", pc'[t] \in {"alloc", "arm", "loop", "transfer"}
      PROVE  (hFileHandle \in Open)'
  <2>1. CASE Reopen(t)
    <3>1. szFilePath \in files /\ szFilePath # NoName
      <4>1. szFilePath \in files
        BY <1>4, <2>1 DEF Reopen, At, TypeInv, TypeOK
      <4>2. files \subseteq Names /\ NoName \notin Names
        <5>1. files \subseteq Names
          BY DEF TypeInv, TypeOK
        <5>2. NoName \notin Names
          BY NameLimitType DEF Names, NoName
        <5> QED
          BY <5>1, <5>2
      <4> QED
        BY <4>1, <4>2
    <3>2. \E h \in Handles : OpenFile(h, szFilePath, type[t] \in ReadTests)
      BY <1>4, <2>1 DEF Reopen, At, TypeInv, TypeOK
    <3>3. hFileHandle' \in Handles /\ path'[hFileHandle'] # NoName
      BY <3>1, <3>2 DEF OpenFile, Open, TypeInv, TypeOK
    <3> QED
      BY <3>3 DEF Open
  <2>2. CASE ~Reopen(t)
    <3>1. /\ pc[t] \in {"alloc", "arm", "loop", "transfer"}
          /\ UNCHANGED <<path, hFileHandle>>
      <4>1. CASE Alloc(t) \/ Arm(t)
        BY <4>1 DEF Alloc, Arm, At, system
      <4>2. CASE Loop(t) \/ Transfer(t)
        BY <4>2 DEF Loop, Transfer, RandomBlock, SequentialBlock, CountBlock,
                    SeekRefused, SequentialError, At, system, globals
      <4>3. ~(Alloc(t) \/ Arm(t) \/ Loop(t) \/ Transfer(t)) => FALSE
        <5> SUFFICES ASSUME ~(Alloc(t) \/ Arm(t) \/ Loop(t) \/ Transfer(t))
                     PROVE  FALSE
          OBVIOUS
        <5> USE DEF TypeInv, TypeOK, At
        <5>1. CASE Begin(t) \/ Reset(t) \/ NextName(t) \/ LookUp(t)
          BY <1>4, <5>1 DEF Begin, Reset, NextName, LookUp
        <5>2. CASE \/ Create(t) \/ Volume(t) \/ AllocFill(t) \/ Memset(t)
                   \/ Fill(t) \/ FillBlock(t) \/ FreeFill(t) \/ CloseFill(t)
          BY <1>4, <5>2 DEF Create, Volume, AllocFill, Memset, Fill,
                            FillBlock, FreeFill, CloseFill
        <5>3. CASE \/ FailFree(t) \/ FailClose(t) \/ FailDelete(t)
                   \/ DeleteFailed(t) \/ CloseLeave(t)
          BY <1>4, <5>3 DEF FailFree, FailClose, FailDelete, DeleteFailed,
                            CloseLeave
        <5>4. CASE \/ FreeBlock(t) \/ KillTimers(t) \/ CloseTest(t)
                   \/ DeleteTest(t) \/ Enable(t) \/ Dismiss(t)
          BY <1>4, <5>4 DEF FreeBlock, KillTimers, CloseTest, DeleteTest,
                            Enable, Dismiss
        <5> QED
          BY <2>2, <5>1, <5>2, <5>3, <5>4 DEF TestStep, TestThread
      <4> QED
        BY <4>1, <4>2, <4>3
    <3> QED
      BY <1>4, <3>1 DEF OpenInv, Open
  <2> QED
    BY <2>1, <2>2
<1>5. \A u \in Threads : u = t
  BY DEF OneTest
<1> QED
  BY <1>2, <1>3, <1>4, <1>5 DEF OpenInv

LEMMA OpenStep ==
  ASSUME OneTest, TypeInv, OpenInv, [Next]_vars
  PROVE  OpenInv'
<1>1. ASSUME NEW t \in Threads, TestStep(t) PROVE OpenInv'
  BY <1>1, OpenThread
<1>2. ASSUME NEW t \in Threads, Start(t) PROVE OpenInv'
  <2>1. /\ ui = "open" /\ ui' = "open" /\ pc'[t] = "begin"
        /\ \A u \in Threads : u = t
    BY <1>2 DEF Start, At, dialog, TypeInv, TypeOK, OneTest
  <2> QED
    BY <2>1 DEF OpenInv
<1>3. CASE (\E x \in Selectable : Select(x)) \/ Stop \/ UNCHANGED vars
  <2>1. UNCHANGED <<ui, pc, path, hFileHandle>>
    BY <1>3 DEF Select, Stop, vars, dialog, globals, local, system
  <2> QED
    BY <2>1 DEF OpenInv, Open, AllIdle
<1>4. CASE Close \/ CloseDelete \/ CloseKill \/ CloseFree
  BY <1>4 DEF Close, CloseDelete, CloseKill, CloseFree, OpenInv
<1>5. CASE Launch
  <2>1. AllIdle /\ pc' = pc /\ ui' = "open"
    BY <1>5 DEF Launch, local, OpenInv
  <2> QED
    BY <2>1 DEF OpenInv, AllIdle
<1>6. CASE Exit \/ Kill \/ \E t \in Threads : Fault(t)
  <2>1. \E how \in {"exited", "faulted"} : EndProcess(how)
    BY <1>6 DEF Exit, Kill, Fault
  <2>2. ui' # "open" /\ \A t \in Threads : pc'[t] = "idle"
    BY <2>1 DEF EndProcess
  <2> QED
    BY <2>2 DEF OpenInv, AllIdle
<1> QED
  BY <1>1, <1>2, <1>3, <1>4, <1>5, <1>6 DEF Next, Dialog, TestStep

LEMMA TestInit == Init => CountInv /\ OpenInv
<1>1. Init => CountInv
  BY DEF Init, CountInv, Counted
<1>2. Init => OpenInv
  BY DEF Init, OpenInv
<1> QED
  BY <1>1, <1>2

\* One test at a time: while the dialog is open, every step of a test leaves
\* it fewer steps, but for a file pointer that is not moved, which costs it the
\* two steps of another try.  So a test ends after at most MaxTestSteps and two
\* for each offset refused, whatever fails and however many blocks, names and
\* handles there are.
THEOREM TestsLeftAloneEnd ==
  ASSUME OneTest
  PROVE  Spec => []TestStepsBounded /\ TestStepsDecrease
<1> DEFINE Decrease ==
             ui = "open" =>
               \A t \in Threads :
                 /\ TestStep(t) /\ ~SeekRefused(t) =>
                      TestStepsLeft(t)' < TestStepsLeft(t)
                 /\ SeekRefused(t) =>
                      /\ hFileHandle \in Open
                      /\ TestStepsLeft(t)' = TestStepsLeft(t) + 1
                 /\ pc[t] # "idle" /\ ~SeekRefused(t) =>
                      TestStepsLeft(t)' <= TestStepsLeft(t)
<1>1. TypeInv /\ CountInv =>
        \A t \in Threads : TestStepsLeft(t) \in 0 .. MaxTestSteps
  BY TestStepsType DEF TestStepsLeft, TypeInv, TypeOK, CountInv
<1>2. TypeInv /\ CountInv => TestStepsBounded
  BY <1>1 DEF TestStepsBounded
<1>3. TypeInv /\ TypeInv' /\ CountInv /\ OpenInv /\ [Next]_vars =>
        [Decrease]_vars
  <2> SUFFICES ASSUME TypeInv, TypeInv', CountInv, OpenInv, [Next]_vars,
                      ui = "open", NEW t \in Threads
               PROVE  /\ TestStep(t) /\ ~SeekRefused(t) =>
                           TestStepsLeft(t)' < TestStepsLeft(t)
                      /\ SeekRefused(t) =>
                           /\ hFileHandle \in Open
                           /\ TestStepsLeft(t)' = TestStepsLeft(t) + 1
                      /\ pc[t] # "idle" /\ ~SeekRefused(t) =>
                           TestStepsLeft(t)' <= TestStepsLeft(t)
    OBVIOUS
  <2>1. TestStepsLeft(t) \in Nat
    BY <1>1, BoundTypes
  <2>2. TestStepsLeft(t)' = TestStepsFrom(pc'[t], i'[t])
    BY DEF TestStepsLeft, TestStepsFrom, StopStepsFrom, FillSteps,
           TransferSteps
  <2>3. CASE TestStep(t) /\ ~SeekRefused(t)
    <3>1. TestStepsFrom(pc'[t], i'[t]) < TestStepsFrom(pc[t], i[t])
      BY <2>3, TestDecreases
    <3>2. TestStepsFrom(pc'[t], i'[t]) \in Nat
      <4>1. /\ pc'[t] \in ThreadStates /\ i'[t] \in Nat
            /\ Counted(pc'[t], i'[t])
        BY <2>3, TestDecreases DEF TypeInv, TypeOK
      <4> QED
        BY <4>1, TestStepsType, BoundTypes
    <3> QED
      BY <2>1, <2>2, <2>3, <3>1, <3>2 DEF TestStepsLeft
  <2>6. CASE SeekRefused(t)
    <3>1. TestStep(t)
      BY <2>6 DEF TestStep, TestThread, Transfer
    <3>2. pc[t] = "transfer"
      BY <2>6 DEF SeekRefused, At
    <3> QED
      BY <2>2, <2>6, <3>1, <3>2, TestDecreases DEF OpenInv, TestStepsLeft
  <2>4. CASE ~TestStep(t) /\ pc'[t] = pc[t] /\ i'[t] = i[t]
    <3>1. ~SeekRefused(t)
      BY <2>4 DEF TestStep, TestThread, Transfer
    <3> QED
      BY <2>1, <2>2, <2>4, <3>1 DEF TestStepsLeft
  <2>5. CASE ~TestStep(t) /\ pc'[t] = "idle"
    <3>1. TestStepsLeft(t)' = 0
      BY <2>2, <2>5, CleaningSteps
    <3>2. ~SeekRefused(t)
      BY <2>5 DEF TestStep, TestThread, Transfer
    <3> QED
      BY <2>1, <2>5, <3>1, <3>2
  <2>7. CASE ~TestStep(t) /\ pc[t] = "idle"
    <3>1. ~SeekRefused(t)
      BY <2>7 DEF TestStep, TestThread, Transfer
    <3> QED
      BY <2>7, <3>1
  <2> QED
    BY <2>3, <2>4, <2>5, <2>6, <2>7, StepOfTest
<1>4. TestStepsDecrease <=> [][Decrease]_vars
  BY DEF TestStepsDecrease
<1>5. Init => TypeInv /\ CountInv /\ OpenInv
  BY TypeInit, TestInit
<1>6. TypeInv /\ [Next]_vars => TypeInv'
  BY TypeStep
<1>7. TypeInv /\ TypeInv' /\ CountInv /\ [Next]_vars => CountInv'
  BY CountStep
<1>8. TypeInv /\ OpenInv /\ [Next]_vars => OpenInv'
  BY OpenStep
<1> HIDE DEF Decrease
<1> QED
  BY <1>2, <1>3, <1>4, <1>5, <1>6, <1>7, <1>8, PTL DEF Spec
=============================================================================
