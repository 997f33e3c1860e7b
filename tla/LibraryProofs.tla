---------------------------- MODULE LibraryProofs ----------------------------
(***************************************************************************)
(* Theorems about Library, for any processors, registers, tables, ports,   *)
(* drives and GPUs: what the requests of Ioctl leave behind and answer,    *)
(* the handles and the tables of Smart, and the interface of NvidiaApi.    *)
(***************************************************************************)
EXTENDS Library, PortRequestProofs, WellFoundedInduction

-----------------------------------------------------------------------------
(* The library is its three parts, one call after the other. *)

LEMMA PartsOfASpec == Spec => KernelSpec /\ SmartSpec /\ NvidiaSpec
<1>1. Init => KernelInit /\ SmartInit /\ NvidiaInit
  BY DEF Init
<1>2. [Next]_library =>
        [KernelNext]_kernel /\ [SmartNext]_smart /\ [NvidiaNext]_nvidia
  BY DEF Next, Begin, Step, library, KernelNext, SmartNext, NvidiaNext
<1> QED
  BY <1>1, <1>2, PTL DEF Spec, KernelSpec, SmartSpec, NvidiaSpec

-----------------------------------------------------------------------------
(* Requests of the driver. *)

\* A processor that is there is the only one of its mask.
LEMMA OneProcessor ==
  ReqAffinity # {} =>
    ReqAffinity = {call.cpu % Width} /\ call.cpu % Width \in Active
BY Zenon DEF ReqAffinity

\* A call is of one kind.
LEMMA KindsOfCalls ==
  /\ RegisterCalls \intersect SmbiosCalls = {}
  /\ RegisterCalls \intersect PortCalls = {}
  /\ SmbiosCalls \intersect PortCalls = {}
  /\ NoCall \notin Calls
<1>1. \A c \in RegisterCalls : c.op \in {"ReadMsr", "ReadPmc", "WriteMsr"}
  BY DEF RegisterCalls
<1>2. \A c \in SmbiosCalls : c.op = "GetSmbiosData"
  BY DEF SmbiosCalls
<1>3. \A c \in PortCalls :
        c.op \in {"ReadIoPortByte", "ReadIoPortWord", "ReadIoPortDword",
                  "WriteIoPortByte", "WriteIoPortWord", "WriteIoPortDword"}
  BY DEF PortCalls
<1>4. NoCall.op = "none"
  BY DEF NoCall
<1> QED
  BY <1>1, <1>2, <1>3, <1>4 DEF Calls

Between == {"bound", "accessed"}

\* Where the thread may run outside of a request.
Home(affinity) == affinity = {} \/ (~Modern /\ affinity = Active)

\* Within a request the thread is on the processor asked for, and what was
\* saved is where it will go back to.
BoundInv ==
  IF place \in Between
  THEN /\ call \in RegisterCalls
       /\ ReqAffinity # {} /\ system = ReqAffinity
       /\ Home(saved)
  ELSE Home(system)

\* The value is that of the register from the access on.
ValueInv ==
  /\ place \in {"accessed", "returned"}
  /\ call \in RegisterCalls /\ answer.ok
  => /\ call.cpu % Width \in Active
     /\ answer.value = msr[call.cpu % Width][call.register]

\* The memory held is that of the table asked for.
PagesInv ==
  /\ place \in {"allocate", "ask again"} => call \in SmbiosCalls
  /\ place = "ask again" => pages = Whole(call)
  /\ place \notin {"ask again", "returned"} => pages = 0

KernelInv ==
  KernelTypeOK /\ BoundInv /\ ValueInv /\ PagesInv
    /\ SmbiosIsWhole /\ PortDataIsExact

LEMMA KernelInitInv == ASSUME KernelAssumption, KernelInit PROVE KernelInv
<1>1. KernelTypeOK
  BY DEF KernelInit, IOCTL_Init, KernelTypeOK, Failure
<1> QED
  BY <1>1, KindsOfCalls
     DEF KernelInit, KernelInv, BoundInv, Between, Home, ValueInv, PagesInv,
         SmbiosIsWhole, PortDataIsExact, Returned, Failure

LEMMA WholeType ==
  ASSUME KernelAssumption, NEW c \in SmbiosCalls PROVE Whole(c) \in Nat
<1>1. c.table \in Nat
  BY DEF KernelAssumption, SmbiosCalls
<1> QED
  BY <1>1 DEF Whole, EntrySize

\* The requests for the table, without what it is made of.
LEMMA TableRequests ==
  /\ AskForEntry =>
       /\ place = "request" /\ call \in SmbiosCalls
       /\ \/ place' = "allocate" /\ UNCHANGED answer
          \/ place' = "returned" /\ answer' = Failure
       /\ UNCHANGED <<exports, system, saved, msr, call, pages>>
  /\ Allocate =>
       /\ place = "allocate"
       /\ \/ place' = "ask again" /\ pages' = Whole(call) /\ UNCHANGED answer
          \/ place' = "returned" /\ answer' = Failure /\ UNCHANGED pages
       /\ UNCHANGED <<exports, system, saved, msr, call>>
  /\ AskForTable =>
       /\ place = "ask again" /\ place' = "returned"
       /\ \/ answer' = Success(pages) /\ UNCHANGED pages
          \/ answer' = Failure /\ pages' = 0
       /\ UNCHANGED <<exports, system, saved, msr, call>>
BY DEF AskForEntry, Allocate, AskForTable, Return

LEMMA Answers ==
  Failure.ok = FALSE /\ \A v : Success(v).ok = TRUE /\ Success(v).value = v
BY DEF Failure, Success

LEMMA TableAnswerType ==
  ASSUME pages \in Nat, AskForTable
  PROVE  answer'.ok \in BOOLEAN /\ pages' \in Nat
<1>1. CASE answer' = Success(pages) /\ UNCHANGED pages
  BY <1>1, Answers
<1>2. CASE answer' = Failure /\ pages' = 0
  BY <1>2, Answers
<1> QED
  BY <1>1, <1>2, TableRequests

LEMMA KernelTypeStep ==
  ASSUME KernelAssumption, KernelInv, [KernelNext]_kernel
  PROVE  KernelTypeOK'
<1> USE DEF KernelInv, KernelTypeOK
<1>1. CASE UNCHANGED kernel
  BY <1>1 DEF kernel
<1>2. CASE BeginKernel
  BY <1>2 DEF BeginKernel, CallKernel
<1>3. CASE Refuse
  BY <1>3 DEF Refuse, Return, Failure
<1>4. CASE Bind
  BY <1>4 DEF Bind, ReqAffinity
<1>5. CASE Fault
  BY <1>5 DEF Fault, Failure
<1>6. CASE Access
  <2>1. PICK cpu \in Effective :
          IF call.op = "WriteMsr"
          THEN /\ msr' = [msr EXCEPT ![cpu][call.register] = call.value]
               /\ answer' = Success(call.value)
          ELSE /\ answer' = Success(msr[cpu][call.register])
               /\ UNCHANGED msr
    BY <1>6 DEF Access
  <2>2. answer'.ok = TRUE
    BY <2>1, Answers
  <2>3. msr' \in [Active -> [Registers -> Values]]
    <3>1. CASE call.op = "WriteMsr"
      <4>1. call \in RegisterCalls
        BY <1>6 DEF Access, BoundInv, Between
      <4>2. call.register \in Registers /\ call.value \in Values
        BY <3>1, <4>1 DEF RegisterCalls
      <4>3. cpu \in Active
        <5>1. Effective \subseteq Active
          BY <1>6 DEF Access, BoundInv, Between, ReqAffinity, Effective
        <5> QED
          BY <5>1
      <4>4. PICK r \in Registers, v \in Values :
              msr' = [msr EXCEPT ![cpu][r] = v]
        BY <2>1, <3>1, <4>2
      <4>5. msr \in [Active -> [Registers -> Values]]
        OBVIOUS
      <4> QED
        BY <4>3, <4>4, <4>5
    <3> QED
      BY <2>1, <3>1
  <2> QED
    BY <1>6, <2>2, <2>3 DEF Access
<1>7. CASE Restore
  BY <1>7 DEF Restore
<1>8. CASE AskForEntry
  BY <1>8, TableRequests, Answers
<1>9. CASE Allocate
  BY <1>9, WholeType, TableRequests, Answers DEF PagesInv
<1>10. CASE AskForTable
  <2>1. answer'.ok \in BOOLEAN /\ pages' \in Nat
    BY <1>10, TableAnswerType
  <2>2. place' = "returned" /\ UNCHANGED <<exports, system, saved, msr, call>>
    BY <1>10, TableRequests
  <2> QED
    BY <2>1, <2>2
<1>11. CASE AccessPort
  BY <1>11 DEF AccessPort, Return, Success
<1>12. CASE TakeAnswer
  BY <1>12 DEF TakeAnswer, Failure
<1> QED
  BY <1>1, <1>2, <1>3, <1>4, <1>5, <1>6, <1>7, <1>8, <1>9, <1>10, <1>11, <1>12
     DEF KernelNext, KernelStep

LEMMA BoundStep ==
  ASSUME KernelInv, [KernelNext]_kernel
  PROVE  BoundInv'
<1> USE DEF KernelInv, BoundInv, Between, Home, Modern
<1>1. CASE UNCHANGED kernel
  BY <1>1 DEF kernel, ReqAffinity
<1>2. CASE BeginKernel
  BY <1>2 DEF BeginKernel, CallKernel
<1>3. CASE Refuse
  BY <1>3 DEF Refuse, Return
<1>4. CASE Bind
  <2>1. call' = call /\ ReqAffinity' = ReqAffinity
    BY <1>4 DEF Bind, ReqAffinity
  <2> QED
    BY <1>4, <2>1 DEF Bind
<1>5. CASE Fault \/ Access
  <2>1. call' = call /\ ReqAffinity' = ReqAffinity /\ place' = "accessed"
        /\ UNCHANGED <<exports, system, saved>>
    BY <1>5 DEF Fault, Access, ReqAffinity
  <2> QED
    BY <1>5, <2>1 DEF Fault, Access
<1>6. CASE Restore
  BY <1>6 DEF Restore
<1>7. CASE AskForEntry \/ Allocate \/ AskForTable \/ AccessPort
  <2>1. place \notin Between /\ place' \notin Between
        /\ UNCHANGED <<exports, system>>
    BY <1>7 DEF AskForEntry, Allocate, AskForTable, AccessPort, Return
  <2> QED
    BY <2>1
<1>8. CASE TakeAnswer
  BY <1>8 DEF TakeAnswer
<1> QED
  BY <1>1, <1>2, <1>3, <1>4, <1>5, <1>6, <1>7, <1>8 DEF KernelNext, KernelStep

\* An access is on the processor that was asked for.
LEMMA AccessedIsAsked ==
  ASSUME KernelInv, Access
  PROVE  /\ call \in RegisterCalls /\ call.cpu % Width \in Active
         /\ IF call.op = "WriteMsr"
            THEN /\ msr' = [msr EXCEPT ![call.cpu % Width][call.register] =
                                         call.value]
                 /\ answer' = Success(call.value)
            ELSE /\ answer' = Success(msr[call.cpu % Width][call.register])
                 /\ UNCHANGED msr
<1>1. call \in RegisterCalls /\ ReqAffinity # {} /\ system = ReqAffinity
  BY DEF Access, KernelInv, BoundInv, Between
<1>2. call.cpu % Width \in Active /\ Effective = {call.cpu % Width}
  BY <1>1, OneProcessor DEF Effective
<1> HIDE DEF Effective
<1> QED
  BY <1>1, <1>2 DEF Access

LEMMA ValueStep ==
  ASSUME KernelInv, [KernelNext]_kernel
  PROVE  ValueInv'
<1> USE DEF KernelInv
<1>1. CASE UNCHANGED kernel
  BY <1>1 DEF kernel, ValueInv
<1>2. CASE BeginKernel \/ Bind \/ TakeAnswer
  BY <1>2 DEF BeginKernel, CallKernel, Bind, TakeAnswer, ValueInv
<1>3. CASE Refuse \/ Fault
  <2>1. answer'.ok = FALSE
    BY <1>3 DEF Refuse, Return, Fault, Failure
  <2> QED
    BY <2>1 DEF ValueInv
<1>4. CASE Access
  <2>1. PICK cpu : cpu = call.cpu % Width
    OBVIOUS
  <2>2. call' = call /\ call \in RegisterCalls /\ cpu \in Active
    BY <1>4, <2>1, AccessedIsAsked DEF Access
  <2>3. msr \in [Active -> [Registers -> Values]]
        /\ call.register \in Registers
    BY <2>2 DEF KernelTypeOK, RegisterCalls
  <2>4. answer'.value = msr'[cpu][call.register]
    BY <1>4, <2>1, <2>2, <2>3, AccessedIsAsked DEF Success
  <2> QED
    BY <2>1, <2>2, <2>4 DEF ValueInv
<1>5. CASE Restore
  BY <1>5 DEF Restore, ValueInv
<1>6. CASE AskForEntry \/ Allocate \/ AskForTable \/ AccessPort
  <2>1. call' = call /\ call \notin RegisterCalls
    BY <1>6, KindsOfCalls, TableRequests DEF AccessPort, PagesInv
  <2> QED
    BY <2>1 DEF ValueInv
<1> QED
  BY <1>1, <1>2, <1>3, <1>4, <1>5, <1>6 DEF KernelNext, KernelStep

LEMMA PagesStep ==
  ASSUME KernelInv, [KernelNext]_kernel
  PROVE  PagesInv' /\ SmbiosIsWhole'
<1> USE DEF KernelInv, PagesInv, SmbiosIsWhole, Returned
<1>1. CASE UNCHANGED kernel
  BY <1>1 DEF kernel, Whole
<1>2. CASE BeginKernel
  BY <1>2 DEF BeginKernel, CallKernel
<1>3. CASE Refuse \/ Restore \/ AccessPort
  <2>1. call' = call /\ place' = "returned" /\ call \notin SmbiosCalls
    BY <1>3, KindsOfCalls
       DEF Refuse, Restore, AccessPort, Return, BoundInv, Between
  <2> QED
    BY <2>1
<1>4. CASE Bind \/ Fault \/ Access
  BY <1>4 DEF Bind, Fault, Access
<1>5. CASE AskForEntry
  BY <1>5, TableRequests, Answers
<1>6. CASE Allocate
  <2>1. Whole(call)' = Whole(call)
    BY <1>6, TableRequests DEF Whole
  <2> QED
    BY <1>6, <2>1, TableRequests, Answers
<1>7. CASE AskForTable
  <2>1. Whole(call)' = Whole(call)
    BY <1>7, TableRequests DEF Whole
  <2> QED
    BY <1>7, <2>1, TableRequests, Answers
<1>8. CASE TakeAnswer
  BY <1>8 DEF TakeAnswer
<1> QED
  BY <1>1, <1>2, <1>3, <1>4, <1>5, <1>6, <1>7, <1>8 DEF KernelNext, KernelStep

\* The six functions carry their data whole.
LEMMA PortDataCarried ==
  ASSUME KernelAssumption, NEW c \in PortCalls
  PROVE  /\ ReadIoPortByte(c.port, c.data) = SubSeq(c.data, 1, 1)
         /\ ReadIoPortWord(c.port, c.data) = SubSeq(c.data, 1, 2)
         /\ ReadIoPortDword(c.port, c.data) = SubSeq(c.data, 1, 4)
         /\ WriteIoPort(c.port, SubSeq(c.data, 1, Narrow(c.op))) =
              SubSeq(c.data, 1, Narrow(c.op))
<1>1. PICK port \in Dword, data \in Dword : port = c.port /\ data = c.data
  BY DEF PortCalls, KernelAssumption
<1>2. ReadIoPortByte(port, data) = SubSeq(data, 1, 1)
  BY ReadByte, Prefix
<1>3. ReadIoPortWord(port, data) = SubSeq(data, 1, 2)
  BY ReadWord, Prefix
<1>4. ReadIoPortDword(port, data) = SubSeq(data, 1, 4)
  BY ReadDword, Prefix DEF Dword, Bytes
<1>5. PICK n \in {1, 2, 4} : n = Narrow(c.op)
  BY DEF Narrow
<1>6. WriteIoPort(port, SubSeq(data, 1, n)) = SubSeq(data, 1, n)
  <2>1. SubSeq(data, 1, n) = [k \in 1 .. n |-> data[k]]
    BY Prefix
  <2>2. \A k \in 1 .. n : data[k] \in Byte
    BY DEF Dword, Bytes
  <2>3. SubSeq(data, 1, n) \in Bytes(n)
    BY <2>1, <2>2 DEF Bytes
  <2> QED
    BY <2>3, n \in 0 .. 4, WritePort
<1> QED
  BY <1>1, <1>2, <1>3, <1>4, <1>5, <1>6

LEMMA PortStep ==
  ASSUME KernelAssumption, KernelInv, [KernelNext]_kernel
  PROVE  PortDataIsExact'
<1> USE DEF KernelInv, PortDataIsExact, Returned
<1>1. CASE UNCHANGED kernel
  BY <1>1 DEF kernel
<1>2. CASE AccessPort
  <2>1. call \in PortCalls /\ call' = call
        /\ answer'.value =
             CASE call.op = "ReadIoPortByte" -> ReadIoPortByte(call.port, call.data)
               [] call.op = "ReadIoPortWord" -> ReadIoPortWord(call.port, call.data)
               [] call.op = "ReadIoPortDword" -> ReadIoPortDword(call.port, call.data)
               [] OTHER -> WriteIoPort(call.port,
                                       SubSeq(call.data, 1, Narrow(call.op)))
    BY <1>2 DEF AccessPort, Return, Success
  <2>2. answer'.value = SubSeq(call.data, 1, Narrow(call.op))
    BY <2>1, PortDataCarried DEF Narrow
  <2> QED
    BY <2>1, <2>2
<1>3. CASE BeginKernel \/ Bind \/ Fault \/ Access \/ TakeAnswer
  BY <1>3 DEF BeginKernel, CallKernel, Bind, Fault, Access, TakeAnswer
<1>4. CASE Refuse \/ Restore \/ AskForEntry \/ Allocate \/ AskForTable
  <2>1. call' = call /\ call \notin PortCalls
    BY <1>4, KindsOfCalls DEF Refuse, Restore, AskForEntry, Allocate,
                              AskForTable, BoundInv, Between, PagesInv
  <2> QED
    BY <2>1
<1> QED
  BY <1>1, <1>2, <1>3, <1>4 DEF KernelNext, KernelStep

LEMMA KernelInvariant == KernelSpec => []KernelInv
<1>1. KernelInit => KernelInv
  BY KernelAssumption, KernelInitInv
<1>2. KernelInv /\ [KernelNext]_kernel => KernelInv'
  BY KernelAssumption, KernelTypeStep, BoundStep, ValueStep, PagesStep,
     PortStep DEF KernelInv
<1> QED
  BY <1>1, <1>2, PTL DEF KernelSpec

\* Every variable of the requests holds a value of its type.
THEOREM KernelTypes == Spec => []KernelTypeOK
<1>1. KernelInv => KernelTypeOK
  BY DEF KernelInv
<1> QED
  BY <1>1, PartsOfASpec, KernelInvariant, PTL

\* After any sequence of requests, refused, faulted or answered, the thread
\* runs where it ran before the first; with the old routines, where it ran or
\* anywhere.
THEOREM AffinityIsKept == Spec => []AffinityKept
<1>1. KernelInv => AffinityKept
  BY DEF KernelInv, BoundInv, Between, Home, AffinityKept
<1> QED
  BY <1>1, PartsOfASpec, KernelInvariant, PTL

\* An index a mask has a bit for is what the shift counts to.
LEMMA WithinTheMask ==
  ASSUME KernelAssumption, NEW cpu \in CpuIndexes, cpu < Width
  PROVE  cpu % Width = cpu
BY DEF KernelAssumption

\* A register read or written is that of the processor asked for, which then
\* is there, for every number below the width of a mask.
THEOREM RegisterIsOfTheCpu == Spec => []OfTheCpuAsked
<1>1. KernelInv => OfTheCpuAsked
  <2> SUFFICES ASSUME KernelInv, Returned(RegisterCalls), answer.ok,
                      call.cpu < Width
               PROVE  /\ call.cpu \in Active
                      /\ answer.value = msr[call.cpu][call.register]
    BY DEF OfTheCpuAsked
  <2>1. /\ call.cpu % Width \in Active
        /\ answer.value = msr[call.cpu % Width][call.register]
    BY DEF KernelInv, ValueInv, Returned
  <2>2. call.cpu \in CpuIndexes
    BY DEF Returned, RegisterCalls
  <2> QED
    BY <2>1, <2>2, WithinTheMask, KernelAssumption
<1> QED
  BY <1>1, PartsOfASpec, KernelInvariant, PTL

\* Only a write of a register changes a register, and only one of one
\* processor: the one asked for, if its number is below the width of a mask.
THEOREM WritesAlone == Spec => OnlyWritesWrite
<1> DEFINE Write ==
             /\ call.op = "WriteMsr"
             /\ \E cpu \in Active :
                  /\ msr' = [msr EXCEPT ![cpu][call.register] = call.value]
                  /\ call.cpu < Width => cpu = call.cpu
<1>1. KernelInv /\ [KernelNext]_kernel => [msr' # msr => Write]_msr
  <2> SUFFICES ASSUME KernelInv, [KernelNext]_kernel, msr' # msr
               PROVE  Write
    OBVIOUS
  <2>1. Access
    BY DEF KernelNext, KernelStep, kernel, BeginKernel, CallKernel, Refuse,
           Bind, Fault, Restore, AskForEntry, Allocate, AskForTable,
           AccessPort, TakeAnswer
  <2>2. /\ call \in RegisterCalls /\ call.cpu % Width \in Active
        /\ call.op = "WriteMsr"
        /\ msr' = [msr EXCEPT ![call.cpu % Width][call.register] = call.value]
    BY <2>1, KernelAssumption, AccessedIsAsked
  <2>3. call.cpu \in CpuIndexes
    BY <2>2 DEF RegisterCalls
  <2>4. call.cpu < Width => call.cpu % Width = call.cpu
    BY <2>3, WithinTheMask, KernelAssumption
  <2> QED
    BY <2>2, <2>4
<1>2. OnlyWritesWrite <=> [][msr' # msr => Write]_msr
  BY DEF OnlyWritesWrite
<1> HIDE DEF Write
<1> QED
  BY <1>1, <1>2, PartsOfASpec, KernelInvariant, PTL DEF KernelSpec

\* The SMBIOS table comes whole or not at all, and without it no memory.
THEOREM TableIsWhole == Spec => []SmbiosIsWhole
<1>1. KernelInv => SmbiosIsWhole
  BY DEF KernelInv
<1> QED
  BY <1>1, PartsOfASpec, KernelInvariant, PTL

\* The data of a port passes unchanged between the port and the caller.
THEOREM PortDataPasses == Spec => []PortDataIsExact
<1>1. KernelInv => PortDataIsExact
  BY DEF KernelInv
<1> QED
  BY <1>1, PartsOfASpec, KernelInvariant, PTL

-----------------------------------------------------------------------------
(* Handles of drives. *)

\* The handles that are open outside of a call.
Kept == {smCaller} \ {"none", INVALID_HANDLE}

\* Within a call: the handle it was given, or its own besides it.
HandleInv ==
  /\ smCaller \in {"none", "caller", INVALID_HANDLE}
  /\ IF smPlace \in {"idle", "open", "returned"} THEN smOpen = Kept
     ELSE IF smCall.given
     THEN smOpen = Kept /\ smHandle = smCaller
     ELSE smOpen = Kept \union {"own"} /\ smHandle = "own"
  /\ smPlace # "idle" /\ smCall.given => smCaller # "none"

\* Whichever way a call ends, what is left open is what its caller has.
LEMMA FinishKeeps ==
  ASSUME HandleInv, smPlace \notin {"idle", "open", "returned"},
         NEW a, Finish(a), UNCHANGED <<smCall, smCaller>>
  PROVE  HandleInv'
BY DEF HandleInv, Finish, Kept, INVALID_HANDLE

LEMMA FailedKeeps ==
  ASSUME HandleInv, smPlace \notin {"idle", "open", "returned"},
         NEW r, Failed(r)
  PROVE  HandleInv'
BY FinishKeeps DEF Failed

LEMMA GoesKeeps ==
  ASSUME HandleInv, smPlace \notin {"idle", "open", "returned"},
         NEW p, p \notin {"idle", "open", "returned"}, Goes(p)
  PROVE  HandleInv'
BY DEF HandleInv, Goes, Kept

LEMMA HandleStep ==
  ASSUME HandleInv, [SmartNext]_smart
  PROVE  HandleInv'
<1>1. CASE UNCHANGED smart
  BY <1>1 DEF smart, HandleInv, Kept
<1>2. CASE CallerOpens \/ CallerCloses
  BY <1>2 DEF CallerOpens, CallerCloses, HandleInv, Kept, INVALID_HANDLE
<1>3. ASSUME NEW fn, NEW drive, NEW given \in BOOLEAN,
             CallSmart(fn, drive, given)
      PROVE  HandleInv'
  BY <1>3 DEF CallSmart, HandleInv, Kept
<1>4. CASE Open
  <2>1. First \notin {"idle", "open", "returned"}
    BY DEF First
  <2>2. smPlace = "open" /\ UNCHANGED <<smCall, smCaller>>
    BY <1>4 DEF Open
  <2>3. \/ smCall.given /\ smHandle' = smCaller /\ smPlace' = First
           /\ UNCHANGED smOpen
        \/ ~smCall.given /\ smHandle' = "own" /\ smPlace' = First
           /\ smOpen' = smOpen \union {"own"}
        \/ ~smCall.given /\ smPlace' = "returned" /\ UNCHANGED smOpen
    BY <1>4 DEF Open
  <2> HIDE DEF First
  <2> QED
    BY <2>1, <2>2, <2>3 DEF HandleInv, Kept
<1>5. CASE GetSmartVersion
  BY <1>5, GoesKeeps, FailedKeeps DEF GetSmartVersion
<1>6. CASE EnableSmart
  BY <1>6, GoesKeeps, FailedKeeps DEF EnableSmart
<1>7. CASE ReadSmartAttributes
  <2>1. smPlace = "attributes" /\ (Goes("thresholds") \/ Failed("attributes"))
    BY <1>7, PTL DEF ReadSmartAttributes
  <2> QED
    BY <2>1, GoesKeeps, FailedKeeps
<1>8. CASE ReadSmartThresholds
  <2>1. /\ smPlace = "thresholds"
        /\ Goes("find") \/ Goes("identify") \/ Failed("thresholds")
    BY <1>8 DEF ReadSmartThresholds
  <2> QED
    BY <2>1, GoesKeeps, FailedKeeps
<1>9. CASE ReadSmartInfo
  BY <1>9, GoesKeeps, FailedKeeps DEF ReadSmartInfo
<1>10. CASE Report
  <2>1. CASE UNCHANGED <<smPlace, smCall, smHandle, smOpen, smCaller>>
    BY <2>1 DEF HandleInv, Kept
  <2>2. CASE smPlace = "report" /\ Finish(1) /\ UNCHANGED <<smCall, smCaller>>
    BY <2>2, FinishKeeps
  <2> QED
    BY <1>10, <2>1, <2>2 DEF Report
<1>11. CASE Find
  <2>1. smPlace = "find" /\ (\E a : Finish(a)) /\ UNCHANGED <<smCall, smCaller>>
    BY <1>11 DEF Find
  <2> QED
    BY <2>1, FinishKeeps
<1>12. CASE Geometry
  <2>1. /\ smPlace = "geometry" /\ (\E a : Finish(a))
        /\ UNCHANGED <<smCall, smCaller>>
    BY <1>12 DEF Geometry
  <2> QED
    BY <2>1, FinishKeeps
<1>13. CASE SmartReturn
  BY <1>13 DEF SmartReturn, HandleInv, Kept
<1> QED
  BY <1>1, <1>2, <1>3, <1>4, <1>5, <1>6, <1>7, <1>8, <1>9, <1>10, <1>11, <1>12,
     <1>13 DEF SmartNext, BeginSmart, SmartStep

\* No call leaks a handle or closes one it was given, whichever of its
\* requests fails, and none makes a request on a handle that is closed.
THEOREM HandlesBalance == Spec => []HandlesAreBalanced
<1>1. SmartInit => HandleInv
  BY DEF SmartInit, HandleInv, Kept
<1>2. HandleInv => HandlesAreBalanced
  BY DEF HandleInv, HandlesAreBalanced, Kept
<1> QED
  BY <1>1, <1>2, HandleStep, PartsOfASpec, PTL DEF SmartSpec

-----------------------------------------------------------------------------
(* The interface of the NVIDIA driver. *)

LEMMA LookupsDistinct ==
  /\ DOMAIN Lookups = 1 .. 10 /\ Len(Lookups) = 10
  /\ \A i \in 1 .. 10 :
       /\ Lookups[i] \notin {"idle", "returned", "call Initialize", "list",
                             "name", "thermal 2", "thermal 1", "tach",
                             "callback"}
       /\ \A j \in 1 .. 10 : Lookups[i] = Lookups[j] => i = j
  /\ Lookups[1] = "nvapi_QueryInterface"
BY DEF Lookups

LookedUp(i) == {Lookups[j] : j \in 1 .. i - 1}

\* While the functions are looked up, those before the current one are found.
ApiInv ==
  /\ nvDll \in BOOLEAN /\ nvInitialized \in BOOLEAN
  /\ IF Initializing
     THEN /\ nvDll /\ nvLoads = 1 /\ ~nvInitialized
          /\ nvPointers \subseteq Functions
          /\ \A i \in 1 .. 10 :
               nvPlace = Lookups[i] => LookedUp(i) \subseteq nvPointers
          /\ nvPlace = "call Initialize" => nvPointers = Functions
     ELSE ApiIsAllOrNothing

\* The places of a call that are no part of the initialization.
Elsewhere == {"idle", "returned", "list", "name", "thermal 2", "thermal 1",
              "tach", "callback"}

LEMMA FunctionsType ==
  /\ "nvapi_QueryInterface" \in Functions
  /\ \A i \in 1 .. 10 : Lookups[i] \in Functions
  /\ \A f \in Functions : f \notin Elsewhere /\ f # "call Initialize"
<1>1. \A i \in 1 .. 10 : Lookups[i] \in Functions
  BY LookupsDistinct DEF Functions
<1>2. 1 \in 1 .. 10
  OBVIOUS
<1>3. Lookups[1] \in Functions
  BY <1>1, <1>2
<1>4. \A f \in Functions : \E i \in 1 .. 10 : f = Lookups[i]
  BY LookupsDistinct DEF Functions
<1> QED
  BY <1>1, <1>3, <1>4, LookupsDistinct DEF Elsewhere

LEMMA NotInitializing ==
  ASSUME nvPlace \in Elsewhere
  PROVE  ~Initializing
BY FunctionsType DEF Initializing, Elsewhere

\* FreeNvidiaApi leaves nothing, whether or not the library was loaded.
LEMMA FreeKeeps ==
  ASSUME ApiInv, Free, nvPlace' \in Elsewhere
  PROVE  ApiInv'
<1>1. ~Initializing'
  BY FunctionsType DEF Initializing, Elsewhere
<1>2. nvLoads = IF nvDll THEN 1 ELSE 0
  BY DEF ApiInv, ApiIsAllOrNothing
<1>3. nvLoads' = 0 /\ nvDll' = FALSE /\ nvInitialized' = FALSE
      /\ nvPointers' \subseteq {"nvapi_QueryInterface"}
  BY <1>2 DEF Free
<1>4. ApiIsAllOrNothing'
  BY <1>1, <1>3 DEF ApiIsAllOrNothing
<1> QED
  BY <1>1, <1>3, <1>4 DEF ApiInv

LEMMA ElsewhereKeeps ==
  ASSUME ApiInv, nvPlace \in Elsewhere, nvPlace' \in Elsewhere, UNCHANGED nvApi
  PROVE  ApiInv'
<1>1. ~Initializing /\ ~Initializing'
  BY FunctionsType DEF Initializing, Elsewhere
<1>2. UNCHANGED <<nvLoads, nvDll, nvPointers, nvInitialized>>
  BY DEF nvApi
<1> QED
  BY <1>1, <1>2 DEF ApiInv, ApiIsAllOrNothing

LEMMA InitNvidiaApiKeeps ==
  ASSUME ApiInv, InitNvidiaApi
  PROVE  ApiInv'
<1>1. nvPlace = "idle" /\ nvPlace \in Elsewhere
  BY DEF InitNvidiaApi, Elsewhere
<1>2. ApiIsAllOrNothing /\ ~Initializing
  BY <1>1, NotInitializing DEF ApiInv
<1>3. CASE nvDll
  BY <1>1, <1>3, ElsewhereKeeps DEF InitNvidiaApi, NvReturn, Elsewhere
<1>4. CASE ~nvDll /\ NvReturn(FALSE) /\ Free
  BY <1>4, FreeKeeps DEF NvReturn, Elsewhere
<1>5. CASE /\ ~nvDll
           /\ nvPlace' = Lookups[1]
           /\ nvDll' = TRUE /\ nvLoads' = nvLoads + 1
           /\ UNCHANGED <<nvPointers, nvInitialized, nvAnswer>>
  <2>1. nvLoads' = 1 /\ nvDll' = TRUE /\ nvInitialized' = FALSE
    BY <1>2, <1>5 DEF ApiIsAllOrNothing, ApiInv
  <2>2. nvPointers' \subseteq Functions
    BY <1>2, <1>5, FunctionsType DEF ApiIsAllOrNothing
  <2>3. 1 \in 1 .. 10 /\ LookedUp(1) = {}
    BY DEF LookedUp
  <2>4. nvPlace' \in Functions /\ nvPlace' # "call Initialize"
    BY <1>5, <2>3, FunctionsType
  <2>5. \A i \in 1 .. 10 : nvPlace' = Lookups[i] => LookedUp(i) \subseteq nvPointers'
    <3>1. \A i \in 1 .. 10 : nvPlace' = Lookups[i] => i = 1
      BY <1>5, <2>3, LookupsDistinct
    <3> QED
      BY <2>3, <3>1
  <2>6. Initializing'
    BY <2>4 DEF Initializing
  <2> QED
    BY <2>1, <2>2, <2>4, <2>5, <2>6 DEF ApiInv
<1> QED
  BY <1>3, <1>4, <1>5 DEF InitNvidiaApi

LEMMA LookUpKeeps ==
  ASSUME ApiInv, LookUp
  PROVE  ApiInv'
<1>1. PICK i \in 1 .. 10 :
        /\ nvPlace = Lookups[i]
        /\ \/ /\ nvPlace' = IF i < 10 THEN Lookups[i + 1] ELSE "call Initialize"
              /\ nvPointers' = nvPointers \union {Lookups[i]}
              /\ UNCHANGED <<nvLoads, nvDll, nvInitialized>>
           \/ NvReturn(FALSE) /\ Free
  BY LookupsDistinct DEF LookUp
<1>2. Initializing
  BY <1>1, FunctionsType DEF Initializing
<1>3. CASE NvReturn(FALSE) /\ Free
  BY <1>3, FreeKeeps DEF NvReturn, Elsewhere
<1>4. CASE /\ nvPlace' = IF i < 10 THEN Lookups[i + 1] ELSE "call Initialize"
           /\ nvPointers' = nvPointers \union {Lookups[i]}
           /\ UNCHANGED <<nvLoads, nvDll, nvInitialized>>
  <2>1. nvDll' = TRUE /\ nvLoads' = 1 /\ nvInitialized' = FALSE
    BY <1>2, <1>4 DEF ApiInv
  <2>2. nvPointers' \subseteq Functions /\ LookedUp(i + 1) \subseteq nvPointers'
    <3>1. nvPointers \subseteq Functions /\ LookedUp(i) \subseteq nvPointers
      BY <1>1, <1>2 DEF ApiInv
    <3>2. LookedUp(i + 1) \subseteq LookedUp(i) \union {Lookups[i]}
      BY DEF LookedUp
    <3> QED
      BY <1>1, <1>4, <3>1, <3>2, FunctionsType
  <2>3. CASE i < 10
    <3>1. i + 1 \in 1 .. 10 /\ nvPlace' = Lookups[i + 1]
      BY <1>4, <2>3
    <3>2. nvPlace' \in Functions /\ nvPlace' # "call Initialize"
      BY <3>1, FunctionsType
    <3>3. \A j \in 1 .. 10 : nvPlace' = Lookups[j] => j = i + 1
      BY <3>1, LookupsDistinct
    <3>4. Initializing'
      BY <3>2 DEF Initializing
    <3> QED
      BY <2>1, <2>2, <3>2, <3>3, <3>4 DEF ApiInv
  <2>4. CASE i = 10
    <3>1. nvPlace' = "call Initialize" /\ LookedUp(11) \subseteq nvPointers'
      <4>1. i + 1 = 11 /\ ~(i < 10)
        BY <2>4
      <4> QED
        BY <1>4, <2>2, <4>1
    <3>2. Functions = LookedUp(11)
      <4>1. 1 .. 11 - 1 = 1 .. 10
        OBVIOUS
      <4> QED
        BY <4>1, LookupsDistinct DEF Functions, LookedUp
    <3>3. \A j \in 1 .. 10 : nvPlace' # Lookups[j]
      BY <3>1, LookupsDistinct
    <3>4. Initializing'
      BY <3>1 DEF Initializing
    <3>5. nvPointers' = Functions
      BY <2>2, <3>1, <3>2
    <3>6. Functions' = Functions
      BY DEF Functions, Lookups
    <3> QED
      BY <2>1, <3>3, <3>4, <3>5, <3>6 DEF ApiInv
  <2> QED
    BY <2>3, <2>4
<1> QED
  BY <1>1, <1>3, <1>4

LEMMA InitializeKeeps ==
  ASSUME ApiInv, Initialize
  PROVE  ApiInv'
<1>1. nvPlace = "call Initialize" /\ Initializing
  BY DEF Initialize, Initializing
<1>2. CASE NvReturn(FALSE) /\ Free
  BY <1>2, FreeKeeps DEF NvReturn, Elsewhere
<1>3. CASE /\ nvInitialized' = TRUE /\ NvReturn(TRUE)
           /\ UNCHANGED <<nvLoads, nvDll, nvPointers>>
  <2>1. nvDll' = TRUE /\ nvLoads' = 1 /\ nvPointers' = Functions
    BY <1>1, <1>3 DEF ApiInv
  <2>2. ~Initializing'
    BY <1>3, FunctionsType DEF NvReturn, Initializing, Elsewhere
  <2>3. Functions' = Functions
    BY DEF Functions, Lookups
  <2> QED
    BY <1>3, <2>1, <2>2, <2>3 DEF ApiInv, ApiIsAllOrNothing
<1> QED
  BY <1>2, <1>3 DEF Initialize

LEMMA ApiStep ==
  ASSUME ApiInv, [NvidiaNext]_nvidia
  PROVE  ApiInv'
<1>1. CASE UNCHANGED nvidia
  BY <1>1 DEF nvidia, nvApi, ApiInv, ApiIsAllOrNothing, Initializing
<1>2. CASE InitNvidiaApi \/ LookUp \/ Initialize
  BY <1>2, InitNvidiaApiKeeps, LookUpKeeps, InitializeKeeps
<1>3. CASE FreeNvidiaApi
  BY <1>3, FreeKeeps DEF FreeNvidiaApi, Elsewhere
<1>4. CASE EnumNvidiaGPUs \/ EnumPhysicalGPUs \/ GetFullName \/ Thermal2
           \/ Thermal1 \/ GetTachReading \/ Callback \/ NvidiaReturn
  <2>1. nvPlace \in Elsewhere /\ nvPlace' \in Elsewhere /\ UNCHANGED nvApi
    BY <1>4 DEF EnumNvidiaGPUs, EnumPhysicalGPUs, GetFullName, Thermal2,
                Thermal1, GetTachReading, Callback, NvidiaReturn, NvReturn,
                Elsewhere
  <2> QED
    BY <2>1, ElsewhereKeeps
<1> QED
  BY <1>1, <1>2, <1>3, <1>4 DEF NvidiaNext, BeginNvidia, NvidiaStep

\* Outside of InitNvidiaApi the library is loaded once and every pointer set,
\* or it is not loaded and no pointer into it is kept but one.
THEOREM ApiAllOrNothing == Spec => []ApiIsAllOrNothing
<1>1. NvidiaInit => ApiInv
  BY NotInitializing
     DEF NvidiaInit, ApiInv, ApiIsAllOrNothing, Elsewhere
<1>2. ApiInv => ApiIsAllOrNothing
  BY DEF ApiInv, ApiIsAllOrNothing
<1> QED
  BY <1>1, <1>2, ApiStep, PartsOfASpec, PTL DEF NvidiaSpec

-----------------------------------------------------------------------------
(* The figures of the GPUs. *)

Enumerating == {"name", "thermal 2", "thermal 1", "tach", "callback"}

\* What FiguresAreOfThisGpu says of temperatures, fan and name.
TempsShown(temp, gpu) ==
  gpu.version \in {1, 2} /\ Full(gpu) =>
    \A i \in DOMAIN gpu.sensors :
      gpu.sensors[i].target \in TargetsOf(gpu.version) =>
        temp[gpu.sensors[i].target] =
          gpu.sensors[Last(gpu.sensors, gpu.sensors[i].target)].temp

FanShown(fan, gpu) == gpu.fan # "none" => fan = gpu.fan

Shown(info, gpu) ==
  /\ info.name = NameShown(gpu)
  /\ FanShown(info.fan, gpu)
  /\ TempsShown(info.temp, gpu)

\* The record is filled in field by field.
InfoInv ==
  /\ nvPlace \in Enumerating \union {"list"} =>
       DOMAIN nvInfo = {"name", "temp", "fan"} /\ DOMAIN nvSettings = {1, 2}
  /\ nvPlace \in Enumerating \ {"name"} => nvInfo.name = NameShown(Current)
  /\ nvPlace = "thermal 1" => Current.version \in {0, 1}
  /\ nvPlace \in {"tach", "callback"} => TempsShown(nvInfo.temp, Current)
  /\ nvPlace = "callback" => FanShown(nvInfo.fan, Current)

IsSeq(s) == \E S : s \in Seq(S)

LEMMA EmptyIsSeq == ASSUME NEW s, s = <<>> PROVE IsSeq(s)
<1> SUFFICES \E S : s \in Seq(S)
  BY DEF IsSeq
<1> WITNESS {}
<1> QED
  OBVIOUS

LEMMA EmptyLen == ASSUME NEW s, s = <<>> PROVE Len(s) = 0
OBVIOUS

LEMMA EmptyDomain == ASSUME NEW s, s = <<>> PROVE DOMAIN s = {}
OBVIOUS

\* The rows so far are those of the first GPUs, of all in the end.
RowsInv ==
  /\ IsSeq(nvRows)
  /\ nvGpus = <<>> \/ nvGpus \in GpuLists
  /\ nvPlace \in Enumerating => Len(nvRows) < Len(nvGpus)
  /\ nvPlace \notin Enumerating \union {"returned"} => nvGpus = <<>> /\ nvRows = <<>>
  /\ nvPlace = "returned" => Len(nvRows) = Len(nvGpus)
  /\ \A k \in DOMAIN nvRows : Shown(nvRows[k], nvGpus[k])

FigureInv == InfoInv /\ RowsInv

LEMMA CurrentType ==
  ASSUME GpuAssumption, RowsInv, nvPlace \in Enumerating
  PROVE  Current \in Gpus
<1>1. PICK S : nvRows \in Seq(S)
  BY DEF RowsInv, IsSeq
<1>2. nvGpus \in Seq(Gpus)
  BY DEF RowsInv, GpuAssumption
<1>3. Len(nvRows) < Len(nvGpus) /\ Len(nvRows) \in Nat
  BY <1>1 DEF RowsInv
<1> QED
  BY <1>2, <1>3 DEF Current

\* A GPU that fills the table leaves nothing of what was in it.
LEMMA FilledTable ==
  ASSUME GpuAssumption, Current \in Gpus, Full(Current), NEW settings
  PROVE  Filled(settings) = Current.sensors
<1>1. /\ Current.sensors \in Seq([target : STRING, temp : STRING])
      /\ Len(Current.sensors) = MaxSensors
  BY DEF Gpus, Full
<1>2. PICK sensors : sensors = Current.sensors
  OBVIOUS
<1>3. DOMAIN sensors = 1 .. MaxSensors
      /\ sensors = [i \in 1 .. MaxSensors |-> sensors[i]]
  BY <1>1, <1>2
<1> QED
  BY <1>2, <1>3 DEF Filled

LEMMA ExceptOne ==
  ASSUME NEW f, NEW x \in DOMAIN f, NEW e
  PROVE  /\ [f EXCEPT ![x] = e][x] = e
         /\ DOMAIN [f EXCEPT ![x] = e] = DOMAIN f
OBVIOUS

LEMMA SensorsShown ==
  ASSUME NEW old, NEW gpu
  PROVE  TempsShown(WithSensors(old, gpu.sensors, TargetsOf(gpu.version)), gpu)
<1>1. TargetsOf(gpu.version) \subseteq Targets
  BY DEF TargetsOf, Targets
<1> SUFFICES ASSUME NEW i \in DOMAIN gpu.sensors,
                    gpu.sensors[i].target \in TargetsOf(gpu.version)
             PROVE  WithSensors(old, gpu.sensors, TargetsOf(gpu.version))
                      [gpu.sensors[i].target] =
                    gpu.sensors[Last(gpu.sensors, gpu.sensors[i].target)].temp
  BY DEF TempsShown
<1> QED
  BY <1>1 DEF WithSensors

\* Asking for the version the driver takes fills in the temperatures.
LEMMA ThermalShows ==
  ASSUME GpuAssumption, FigureInv, nvPlace \in {"thermal 2", "thermal 1"},
         NEW version \in {1, 2}, GetThermalSettings(version)
  PROVE  /\ DOMAIN nvInfo' = {"name", "temp", "fan"}
         /\ nvInfo'.name = nvInfo.name
         /\ DOMAIN nvSettings' = {1, 2}
         /\ Current.version = version => TempsShown(nvInfo'.temp, Current)
<1>1. /\ DOMAIN nvInfo = {"name", "temp", "fan"} /\ DOMAIN nvSettings = {1, 2}
      /\ Current \in Gpus
  BY CurrentType DEF FigureInv, InfoInv, Enumerating
<1>4. version \in DOMAIN nvSettings
  BY <1>1
<1>5. Current.version = version =>
        TempsShown(WithSensors(nvInfo.temp, Current.sensors,
                               TargetsOf(Current.version)), Current)
  <2>1. PICK old, gpu : old = nvInfo.temp /\ gpu = Current
    OBVIOUS
  <2>2. TempsShown(WithSensors(old, gpu.sensors, TargetsOf(gpu.version)), gpu)
    BY SensorsShown
  <2> QED
    BY <2>1, <2>2
<1>2. CASE Current.version # version
  BY <1>1, <1>2 DEF GetThermalSettings
<1>3. CASE Current.version = version
  <2> DEFINE table == Filled(nvSettings[version])
             temps == WithSensors(nvInfo.temp, table, TargetsOf(version))
  <2>1. /\ nvSettings' = [nvSettings EXCEPT ![version] = table]
        /\ nvInfo' = [nvInfo EXCEPT !.temp =
                        WithSensors(@, nvSettings'[version], TargetsOf(version))]
    BY <1>3 DEF GetThermalSettings
  <2>2. nvSettings'[version] = table /\ DOMAIN nvSettings' = {1, 2}
    <3> HIDE DEF table
    <3> QED
      BY <1>1, <1>4, <2>1, ExceptOne
  <2>3. nvInfo' = [nvInfo EXCEPT !.temp = temps]
    BY <2>1, <2>2
  <2>4. /\ DOMAIN nvInfo' = {"name", "temp", "fan"}
        /\ nvInfo'.name = nvInfo.name /\ nvInfo'.temp = temps
    BY <1>1, <2>3
  <2>5. TempsShown(temps, Current)
    <3>1. CASE Full(Current)
      <4>1. table = Current.sensors
        BY <1>1, <3>1, FilledTable
      <4>2. temps = WithSensors(nvInfo.temp, Current.sensors,
                                TargetsOf(Current.version))
        BY <1>3, <4>1
      <4> HIDE DEF temps
      <4> QED
        BY <1>3, <1>5, <4>2
    <3>2. CASE ~Full(Current)
      BY <3>2 DEF TempsShown
    <3> QED
      BY <3>1, <3>2
  <2> QED
    BY <2>2, <2>4, <2>5
<1> QED
  BY <1>2, <1>3

\* A step of an enumeration that takes no row leaves the list and the rows.
LEMMA RowsUntouched ==
  ASSUME RowsInv, nvPlace \in Enumerating, nvPlace' \in Enumerating,
         UNCHANGED <<nvGpus, nvRows>>
  PROVE  RowsInv'
BY DEF RowsInv, Enumerating, Shown

LEMMA CurrentUntouched ==
  ASSUME UNCHANGED <<nvGpus, nvRows>> PROVE Current' = Current
BY DEF Current

LEMMA NameKeeps ==
  ASSUME FigureInv, GetFullName PROVE FigureInv'
<1>1. /\ nvPlace = "name" /\ nvPlace' = "thermal 2"
      /\ nvInfo' = [nvInfo EXCEPT !.name = NameShown(Current)]
      /\ UNCHANGED <<nvGpus, nvRows, nvSettings>>
  BY DEF GetFullName
<1>2. DOMAIN nvInfo = {"name", "temp", "fan"} /\ DOMAIN nvSettings = {1, 2}
  BY <1>1 DEF FigureInv, InfoInv, Enumerating
<1>3. DOMAIN nvInfo' = {"name", "temp", "fan"} /\ nvInfo'.name = NameShown(Current)
  BY <1>1, <1>2
<1>4. Current' = Current
  BY <1>1, CurrentUntouched
<1>5. InfoInv'
  BY <1>1, <1>2, <1>3, <1>4 DEF InfoInv, Enumerating
<1> QED
  BY <1>1, <1>5, RowsUntouched DEF FigureInv, Enumerating

LEMMA ThermalKeeps ==
  ASSUME GpuAssumption, FigureInv, Thermal2 \/ Thermal1 PROVE FigureInv'
<1>1. UNCHANGED <<nvGpus, nvRows>> /\ Current' = Current
  BY CurrentUntouched DEF Thermal2, Thermal1
<1>2. nvInfo.name = NameShown(Current)
  BY DEF FigureInv, InfoInv, Enumerating, Thermal2, Thermal1
<1>3. Current \in Gpus
  BY CurrentType DEF FigureInv, Enumerating, Thermal2, Thermal1
<1>4. Current.version \in 0 .. 3
  BY <1>3 DEF Gpus
<1>5. CASE Thermal2
  <2>1. /\ nvPlace = "thermal 2" /\ GetThermalSettings(2)
        /\ nvPlace' = IF Current.version \in {0, 1} THEN "thermal 1" ELSE "tach"
    BY <1>5 DEF Thermal2
  <2>2. /\ DOMAIN nvInfo' = {"name", "temp", "fan"}
        /\ nvInfo'.name = nvInfo.name
        /\ DOMAIN nvSettings' = {1, 2}
        /\ Current.version = 2 => TempsShown(nvInfo'.temp, Current)
    BY <2>1, ThermalShows
  <2>3. nvPlace' = "tach" => TempsShown(nvInfo'.temp, Current)
    <3>1. CASE Current.version = 2
      BY <2>2, <3>1
    <3>2. CASE Current.version \in {0, 1}
      BY <2>1, <3>2
    <3>3. CASE Current.version = 3
      BY <3>3 DEF TempsShown
    <3> QED
      BY <1>4, <3>1, <3>2, <3>3
  <2>4. InfoInv'
    BY <1>1, <1>2, <2>1, <2>2, <2>3 DEF InfoInv, Enumerating
  <2> QED
    BY <1>1, <2>1, <2>4, RowsUntouched DEF FigureInv, Enumerating
<1>6. CASE Thermal1
  <2>1. nvPlace = "thermal 1" /\ GetThermalSettings(1) /\ nvPlace' = "tach"
    BY <1>6 DEF Thermal1
  <2>2. /\ DOMAIN nvInfo' = {"name", "temp", "fan"}
        /\ nvInfo'.name = nvInfo.name
        /\ DOMAIN nvSettings' = {1, 2}
        /\ Current.version = 1 => TempsShown(nvInfo'.temp, Current)
    BY <2>1, ThermalShows
  <2>3. TempsShown(nvInfo'.temp, Current)
    <3>1. Current.version \in {0, 1}
      BY <2>1 DEF FigureInv, InfoInv
    <3>2. Current.version = 0 => TempsShown(nvInfo'.temp, Current)
      BY DEF TempsShown
    <3> QED
      BY <2>2, <3>1, <3>2
  <2>4. InfoInv'
    BY <1>1, <1>2, <2>1, <2>2, <2>3 DEF InfoInv, Enumerating
  <2> QED
    BY <1>1, <2>1, <2>4, RowsUntouched DEF FigureInv, Enumerating
<1> QED
  BY <1>5, <1>6

LEMMA TachKeeps ==
  ASSUME FigureInv, GetTachReading PROVE FigureInv'
<1>1. /\ nvPlace = "tach" /\ nvPlace' = "callback"
      /\ nvInfo' = [nvInfo EXCEPT !.fan =
                      IF Current.fan = "none" THEN @ ELSE Current.fan]
      /\ UNCHANGED <<nvGpus, nvRows, nvSettings>>
  BY DEF GetTachReading
<1>2. /\ DOMAIN nvInfo = {"name", "temp", "fan"} /\ DOMAIN nvSettings = {1, 2}
      /\ nvInfo.name = NameShown(Current) /\ TempsShown(nvInfo.temp, Current)
  BY <1>1 DEF FigureInv, InfoInv, Enumerating
<1>3. /\ DOMAIN nvInfo' = {"name", "temp", "fan"}
      /\ nvInfo'.name = nvInfo.name /\ nvInfo'.temp = nvInfo.temp
      /\ FanShown(nvInfo'.fan, Current)
  BY <1>1, <1>2 DEF FanShown
<1>4. Current' = Current
  BY <1>1, CurrentUntouched
<1>5. InfoInv'
  BY <1>1, <1>2, <1>3, <1>4 DEF InfoInv, Enumerating
<1> QED
  BY <1>1, <1>5, RowsUntouched DEF FigureInv, Enumerating

LEMMA CallbackKeeps ==
  ASSUME GpuAssumption, FigureInv, Callback PROVE FigureInv'
<1>1. /\ nvPlace = "callback" /\ nvRows' = Append(nvRows, nvInfo)
      /\ UNCHANGED <<nvGpus, nvInfo, nvSettings>>
      /\ IF Len(nvRows') < Len(nvGpus) THEN nvPlace' = "name"
         ELSE nvPlace' = "returned"
  BY DEF Callback, NvReturn
<1>2. PICK S : nvRows \in Seq(S)
  BY DEF FigureInv, RowsInv, IsSeq
<1>3. PICK row : row = nvInfo
  OBVIOUS
<1>4. /\ nvRows' \in Seq(S \union {row}) /\ Len(nvRows') = Len(nvRows) + 1
      /\ Len(nvRows) \in Nat /\ DOMAIN nvRows' = 1 .. Len(nvRows) + 1
      /\ DOMAIN nvRows = 1 .. Len(nvRows)
      /\ nvRows'[Len(nvRows) + 1] = row
      /\ \A k \in 1 .. Len(nvRows) : nvRows'[k] = nvRows[k]
  <2>1. nvRows \in Seq(S \union {row}) /\ row \in S \union {row}
    BY <1>2
  <2> QED
    BY <1>1, <1>3, <2>1
<1>5. Shown(row, Current)
  BY <1>1, <1>3 DEF FigureInv, InfoInv, Shown, Enumerating
<1>6. \A k \in DOMAIN nvRows' : Shown(nvRows'[k], nvGpus'[k])
  <2> TAKE k \in DOMAIN nvRows'
  <2>1. CASE k = Len(nvRows) + 1
    BY <1>1, <1>4, <1>5, <2>1 DEF Current
  <2>2. CASE k # Len(nvRows) + 1
    <3>1. k \in 1 .. Len(nvRows)
      BY <1>4, <2>2
    <3>2. Shown(nvRows[k], nvGpus[k])
      BY <1>4, <3>1 DEF FigureInv, RowsInv
    <3> QED
      BY <1>1, <1>4, <3>1, <3>2
  <2> QED
    BY <2>1, <2>2
<1>7. Len(nvRows) < Len(nvGpus) /\ (nvGpus = <<>> \/ nvGpus \in GpuLists)
  BY <1>1 DEF FigureInv, RowsInv, Enumerating
<1>8. Len(nvGpus) \in Nat
  BY <1>7 DEF GpuAssumption
<1>9. RowsInv'
  <2>1. IsSeq(nvRows')
    BY <1>4 DEF IsSeq
  <2>2. Len(nvRows') < Len(nvGpus') \/ Len(nvRows') = Len(nvGpus')
    BY <1>1, <1>4, <1>7, <1>8
  <2>3. \/ nvPlace' = "name" /\ Len(nvRows') < Len(nvGpus')
        \/ nvPlace' = "returned" /\ Len(nvRows') = Len(nvGpus')
    BY <1>1, <1>4, <2>2
  <2> QED
    BY <1>1, <1>6, <1>7, <2>1, <2>3 DEF RowsInv, Enumerating
<1>10. InfoInv'
  BY <1>1 DEF FigureInv, InfoInv, Enumerating
<1> QED
  BY <1>9, <1>10 DEF FigureInv

\* The steps at which a call begins or ends.
LEMMA BetweenCalls ==
  ASSUME GpuAssumption, FigureInv, EnumNvidiaGPUs \/ EnumPhysicalGPUs
  PROVE  FigureInv'
<1>1. nvPlace \in {"idle", "list"} /\ nvGpus = <<>> /\ nvRows = <<>>
      /\ UNCHANGED nvRows
  BY DEF EnumNvidiaGPUs, EnumPhysicalGPUs, FigureInv, RowsInv, Enumerating
<1>2. IsSeq(nvRows') /\ Len(nvRows') = 0 /\ DOMAIN nvRows' = {} /\ Len(nvGpus) = 0
  BY <1>1, EmptyIsSeq, EmptyLen, EmptyDomain
<1>3. CASE EnumNvidiaGPUs
  <2>1. \/ /\ nvPlace' = "list" /\ nvInfo' = NoInfoYet
           /\ nvSettings' \in [1 .. 2 -> Uncleared]
        \/ nvPlace' = "returned"
    BY <1>3 DEF EnumNvidiaGPUs, NvReturn
  <2>2. UNCHANGED nvGpus
    BY <1>3 DEF EnumNvidiaGPUs
  <2>3. InfoInv'
    <3>1. nvPlace' = "list" =>
            DOMAIN nvInfo' = {"name", "temp", "fan"} /\ DOMAIN nvSettings' = {1, 2}
      <4>1. 1 .. 2 = {1, 2}
        OBVIOUS
      <4> QED
        BY <2>1, <4>1 DEF NoInfoYet
    <3> QED
      BY <2>1, <3>1 DEF InfoInv, Enumerating
  <2>4. RowsInv'
    BY <1>1, <1>2, <2>1, <2>2 DEF RowsInv, Enumerating
  <2> QED
    BY <2>3, <2>4 DEF FigureInv
<1>4. CASE EnumPhysicalGPUs
  <2>1. /\ nvPlace = "list" /\ UNCHANGED <<nvInfo, nvSettings>>
        /\ \/ nvPlace' = "returned" /\ nvGpus' = <<>>
           \/ nvPlace' = "name" /\ nvGpus' \in GpuLists /\ nvGpus' # <<>>
    BY <1>1, <1>4 DEF EnumPhysicalGPUs, NvReturn
  <2>2. InfoInv'
    BY <2>1 DEF FigureInv, InfoInv, Enumerating
  <2>3. nvGpus' # <<>> => Len(nvGpus') \in Nat /\ 0 < Len(nvGpus')
    BY <2>1 DEF GpuAssumption
  <2>4. RowsInv'
    BY <1>2, <2>1, <2>3 DEF RowsInv, Enumerating
  <2> QED
    BY <2>2, <2>4 DEF FigureInv
<1> QED
  BY <1>3, <1>4

LEMMA FigureInitInv == ASSUME NvidiaInit PROVE FigureInv
<1>1. nvPlace = "idle" /\ nvGpus = <<>> /\ nvRows = <<>>
  BY DEF NvidiaInit
<1>2. IsSeq(nvRows) /\ DOMAIN nvRows = {}
  BY <1>1, EmptyIsSeq, EmptyLen, EmptyDomain
<1> QED
  BY <1>1, <1>2 DEF FigureInv, InfoInv, RowsInv, Enumerating

LEMMA FigureStep ==
  ASSUME GpuAssumption, FigureInv, [NvidiaNext]_nvidia
  PROVE  FigureInv'
<1>1. CASE UNCHANGED nvidia
  BY <1>1 DEF nvidia, nvEnum, FigureInv, InfoInv, RowsInv, Shown, Current
<1>2. CASE InitNvidiaApi \/ FreeNvidiaApi \/ LookUp \/ Initialize
  <2>1. /\ nvPlace \notin Enumerating \union {"returned"}
        /\ nvPlace' \notin Enumerating \union {"list"}
        /\ UNCHANGED nvEnum
    <3>1. CASE InitNvidiaApi
      BY <3>1, LookupsDistinct DEF InitNvidiaApi, NvReturn, Enumerating
    <3>2. CASE FreeNvidiaApi
      BY <3>2 DEF FreeNvidiaApi, Enumerating
    <3>3. CASE LookUp
      <4>1. PICK i \in 1 .. 10 :
              /\ nvPlace = Lookups[i]
              /\ \/ nvPlace' = IF i < 10 THEN Lookups[i + 1] ELSE "call Initialize"
                 \/ nvPlace' = "returned"
        BY <3>3, LookupsDistinct DEF LookUp, NvReturn
      <4>2. i < 10 => i + 1 \in 1 .. 10
        OBVIOUS
      <4>3. nvPlace \notin Enumerating \union {"returned"}
        BY <4>1, LookupsDistinct DEF Enumerating
      <4>4. nvPlace' \notin Enumerating \union {"list"}
        BY <4>1, <4>2, LookupsDistinct DEF Enumerating
      <4> QED
        BY <3>3, <4>3, <4>4 DEF LookUp
    <3>4. CASE Initialize
      BY <3>4 DEF Initialize, NvReturn, Enumerating
    <3> QED
      BY <1>2, <3>1, <3>2, <3>3, <3>4
  <2>2. nvGpus = <<>> /\ nvRows = <<>> /\ UNCHANGED <<nvGpus, nvRows>>
        /\ IsSeq(nvRows') /\ Len(nvRows') = Len(nvGpus') /\ DOMAIN nvRows' = {}
    BY <2>1, EmptyIsSeq, EmptyLen, EmptyDomain DEF FigureInv, RowsInv, nvEnum
  <2>3. InfoInv'
    BY <2>1 DEF InfoInv, Enumerating
  <2>4. RowsInv'
    BY <2>1, <2>2 DEF RowsInv, Enumerating
  <2> QED
    BY <2>3, <2>4 DEF FigureInv
<1>3. CASE EnumNvidiaGPUs \/ EnumPhysicalGPUs
  BY <1>3, BetweenCalls
<1>4. CASE GetFullName \/ GetTachReading
  BY <1>4, NameKeeps, TachKeeps
<1>5. CASE Thermal2 \/ Thermal1
  BY <1>5, ThermalKeeps
<1>6. CASE Callback
  BY <1>6, CallbackKeeps
<1>7. CASE NvidiaReturn
  <2>1. nvPlace' = "idle" /\ nvGpus' = <<>> /\ nvRows' = <<>>
    BY <1>7 DEF NvidiaReturn
  <2>2. IsSeq(nvRows') /\ DOMAIN nvRows' = {}
    BY <2>1, EmptyIsSeq, EmptyLen, EmptyDomain
  <2> QED
    BY <2>1, <2>2 DEF FigureInv, InfoInv, RowsInv, Enumerating
<1> QED
  BY <1>1, <1>2, <1>3, <1>4, <1>5, <1>6, <1>7
     DEF NvidiaNext, BeginNvidia, NvidiaStep

\* Whatever the GPUs are and whichever calls fail, each is shown once, in
\* order and under its name, with its own fan speed if it gave one and its
\* own temperatures if it filled the table.
THEOREM FiguresOfThisGpu == Spec => []FiguresAreOfThisGpu
<1>1. NvidiaInit => FigureInv
  BY FigureInitInv
<1>2. FigureInv /\ [NvidiaNext]_nvidia => FigureInv'
  BY FigureStep, GpuAssumption
<1>3. FigureInv => FiguresAreOfThisGpu
  BY DEF FigureInv, RowsInv, Shown, FanShown, TempsShown, FiguresAreOfThisGpu
<1> QED
  BY <1>1, <1>2, <1>3, PartsOfASpec, PTL DEF NvidiaSpec

-----------------------------------------------------------------------------
(* Induction.  The numbers are well founded; every set of them has a least *)
(* member, and a set that holds 0 and with each number the next holds all. *)

Less == {pair \in Nat \X Nat : pair[1] < pair[2]}

LEMMA LessIsWellFounded == IsWellFoundedOn(Less, Nat)
<1>1. OpToRel(<, Nat) = Less
  BY DEF OpToRel, Less
<1> QED
  BY <1>1, NatLessThanWellFounded

LEMMA LeastExists ==
  ASSUME NEW S, S \subseteq Nat, S # {}
  PROVE  Least(S) \in S /\ \A n \in S : Least(S) <= n
<1>1. PICK k \in S : \A n \in S : <<n, k>> \notin Less
  BY LessIsWellFounded, WFMin
<1>2. ASSUME NEW n \in S PROVE k <= n
  <2>1. <<n, k>> \notin Less /\ k \in Nat /\ n \in Nat
    BY <1>1
  <2> QED
    BY <2>1 DEF Less
<1> QED
  BY <1>1, <1>2 DEF Least

LEMMA SetInduction ==
  ASSUME NEW S, 0 \in S, \A n \in Nat : n \in S => n + 1 \in S
  PROVE  Nat \subseteq S
<1> DEFINE T == Nat \ S
<1> SUFFICES ASSUME T # {} PROVE FALSE
  OBVIOUS
<1>1. Least(T) \in T /\ \A n \in T : Least(T) <= n
  BY LeastExists
<1> HIDE DEF T
<1>2. PICK k : k = Least(T)
  OBVIOUS
<1>3. k \in Nat /\ k \notin S
  BY <1>1, <1>2 DEF T
<1>4. k - 1 \in Nat
  BY <1>3
<1>5. k - 1 \notin T
  BY <1>1, <1>2, <1>3
<1> QED
  BY <1>3, <1>4, <1>5 DEF T

-----------------------------------------------------------------------------
(* A table without its empty slots. *)

\* What the loop does with slot n, after what kept says of the slots before.
KeptNext(table, kept, n) ==
  IF n = 0 THEN <<>>
  ELSE IF table[n].id = 0 THEN kept[n - 1]
  ELSE Append(kept[n - 1], table[n])

KeptUpTo(table, kept, n) == kept = [i \in 0 .. n |-> KeptNext(table, kept, i)]

\* The loop is defined up to every slot.
LEMMA KeptExists ==
  ASSUME NEW table
  PROVE  \A n \in Nat : \E kept : KeptUpTo(table, kept, n)
<1> DEFINE S == {n \in Nat : \E kept : KeptUpTo(table, kept, n)}
<1>1. 0 \in S
  <2>1. KeptUpTo(table, [i \in 0 .. 0 |-> <<>>], 0)
    BY DEF KeptUpTo, KeptNext
  <2> QED
    BY <2>1
<1>2. ASSUME NEW n \in Nat, n \in S PROVE n + 1 \in S
  <2>1. PICK kept : KeptUpTo(table, kept, n)
    BY <1>2
  <2> DEFINE more == [i \in 0 .. n + 1 |-> KeptNext(table, kept, i)]
  <2>2. \A i \in 0 .. n : more[i] = kept[i]
    BY <2>1 DEF KeptUpTo
  <2>3. \A i \in 0 .. n + 1 : KeptNext(table, more, i) = KeptNext(table, kept, i)
    <3> SUFFICES ASSUME NEW i \in 0 .. n + 1
                 PROVE  KeptNext(table, more, i) = KeptNext(table, kept, i)
      OBVIOUS
    <3>1. i # 0 => more[i - 1] = kept[i - 1]
      BY <2>2
    <3> HIDE DEF more
    <3> QED
      BY <3>1 DEF KeptNext
  <2>4. KeptUpTo(table, more, n + 1)
    <3>1. [i \in 0 .. n + 1 |-> KeptNext(table, more, i)] = more
      BY <2>3, Zenon
    <3> QED
      BY <3>1, Zenon DEF KeptUpTo
  <2> QED
    BY <2>4
<1>3. Nat \subseteq S
  <2> HIDE DEF S
  <2> QED
    BY <1>1, <1>2, SetInduction
<1> QED
  BY <1>3

LEMMA CompactedEquation ==
  ASSUME NEW table, Len(table) \in Nat
  PROVE  KeptUpTo(table, Compacted(table), Len(table))
<1>1. Compacted(table) =
        CHOOSE kept : KeptUpTo(table, kept, Len(table))
  BY Zenon DEF Compacted, KeptUpTo, KeptNext
<1>2. \E kept : KeptUpTo(table, kept, Len(table))
  BY KeptExists
<1> QED
  BY <1>1, <1>2, Zenon

LEMMA CompactedSteps ==
  ASSUME NEW S, NEW table \in Seq(S)
  PROVE  /\ Compacted(table)[0] = <<>>
         /\ \A n \in 1 .. Len(table) :
              Compacted(table)[n] =
                IF table[n].id = 0 THEN Compacted(table)[n - 1]
                ELSE Append(Compacted(table)[n - 1], table[n])
<1>1. Len(table) \in Nat
  OBVIOUS
<1>2. PICK kept : kept = Compacted(table)
  OBVIOUS
<1>3. kept = [i \in 0 .. Len(table) |-> KeptNext(table, kept, i)]
  BY <1>1, <1>2, CompactedEquation DEF KeptUpTo
<1>4. \A n \in 0 .. Len(table) : kept[n] = KeptNext(table, kept, n)
  BY <1>3, Zenon
<1>5. kept[0] = <<>>
  BY <1>1, <1>4 DEF KeptNext
<1>6. \A n \in 1 .. Len(table) :
        kept[n] = IF table[n].id = 0 THEN kept[n - 1]
                  ELSE Append(kept[n - 1], table[n])
  BY <1>1, <1>4 DEF KeptNext
<1> QED
  BY <1>2, <1>5, <1>6

\* What is kept is a sequence, and no longer than the table.
LEMMA CompactedType ==
  ASSUME NEW S, NEW table \in Seq(S)
  PROVE  \A n \in 0 .. Len(table) :
           Compacted(table)[n] \in Seq(S) /\ Len(Compacted(table)[n]) <= n
<1> DEFINE C == Compacted(table)
           T == {n \in Nat : n <= Len(table) => C[n] \in Seq(S) /\ Len(C[n]) <= n}
<1>1. /\ C[0] = <<>>
      /\ \A n \in 1 .. Len(table) :
           C[n] = IF table[n].id = 0 THEN C[n - 1]
                  ELSE Append(C[n - 1], table[n])
  BY CompactedSteps
<1> HIDE DEF C
<1>2. 0 \in T
  <2>1. <<>> \in Seq(S) /\ Len(<<>>) = 0
    OBVIOUS
  <2>2. C[0] \in Seq(S) /\ Len(C[0]) <= 0
    BY <1>1, <2>1
  <2> QED
    BY <2>2
<1>3. ASSUME NEW n \in Nat, n \in T PROVE n + 1 \in T
  <2> SUFFICES ASSUME n + 1 <= Len(table)
               PROVE  C[n + 1] \in Seq(S) /\ Len(C[n + 1]) <= n + 1
    OBVIOUS
  <2>1. C[n] \in Seq(S) /\ Len(C[n]) <= n
    BY <1>3
  <2>2. table[n + 1] \in S
    OBVIOUS
  <2>3. C[n + 1] = IF table[n + 1].id = 0 THEN C[n]
                   ELSE Append(C[n], table[n + 1])
    BY <1>1
  <2> QED
    BY <2>1, <2>2, <2>3
<1>4. Nat \subseteq T
  <2> HIDE DEF T
  <2> QED
    BY <1>2, <1>3, SetInduction
<1> QED
  BY <1>4 DEF C

\* kept is what there is in the first n slots of the table.
KeptOf(table, n, kept, from) ==
  /\ from \in [DOMAIN kept -> 1 .. n]
  /\ \A i, j \in DOMAIN kept : i < j => from[i] < from[j]
  /\ \A i \in DOMAIN kept :
       kept[i] = table[from[i]] /\ table[from[i]].id # 0
  /\ \A k \in 1 .. n : table[k].id # 0 => \E i \in DOMAIN kept : from[i] = k

LEMMA KeptOfNone ==
  ASSUME NEW table PROVE KeptOf(table, 0, <<>>, <<>>)
BY DEF KeptOf

LEMMA KeptOfEmptySlot ==
  ASSUME NEW table, NEW n \in Nat, NEW kept, NEW from,
         KeptOf(table, n, kept, from), table[n + 1].id = 0
  PROVE  KeptOf(table, n + 1, kept, from)
BY DEF KeptOf

LEMMA KeptOfSlot ==
  ASSUME NEW S, NEW table \in Seq(S), NEW n \in Nat, n + 1 <= Len(table),
         NEW kept \in Seq(S), NEW from,
         KeptOf(table, n, kept, from), table[n + 1].id # 0
  PROVE  \E more : KeptOf(table, n + 1, Append(kept, table[n + 1]), more)
<1>1. PICK next : next = Append(kept, table[n + 1])
  OBVIOUS
<1>2. PICK l \in Nat : l = Len(kept)
  OBVIOUS
<1>3. /\ DOMAIN kept = 1 .. l /\ DOMAIN next = 1 .. l + 1
      /\ next[l + 1] = table[n + 1]
      /\ \A i \in 1 .. l : next[i] = kept[i]
  BY <1>1, <1>2
<1> DEFINE more == [i \in 1 .. l + 1 |-> IF i = l + 1 THEN n + 1 ELSE from[i]]
<1>4. /\ \A i \in 1 .. l : more[i] = from[i] /\ more[i] \in 1 .. n
      /\ more[l + 1] = n + 1
  <2>1. \A i \in 1 .. l : from[i] \in 1 .. n
    BY <1>3 DEF KeptOf
  <2>2. \A i \in 1 .. l : i \in 1 .. l + 1 /\ i # l + 1
    OBVIOUS
  <2> QED
    BY <2>1, <2>2
<1>5. more \in [DOMAIN next -> 1 .. n + 1]
  <2>1. \A i \in 1 .. l + 1 : i = l + 1 \/ i \in 1 .. l
    OBVIOUS
  <2>2. \A k \in 1 .. n : k \in 1 .. n + 1
    OBVIOUS
  <2>3. \A i \in 1 .. l + 1 : more[i] \in 1 .. n + 1
    <3> HIDE DEF more
    <3> QED
      BY <1>4, <2>1, <2>2
  <2> QED
    BY <1>3, <2>3
<1>6. DOMAIN next = DOMAIN kept \union {l + 1} /\ l + 1 \notin DOMAIN kept
  BY <1>3
<1> HIDE DEF more
<1>7. \A i, j \in DOMAIN next : i < j => more[i] < more[j]
  <2> SUFFICES ASSUME NEW i \in DOMAIN next, NEW j \in DOMAIN next, i < j
               PROVE  more[i] < more[j]
    OBVIOUS
  <2>1. i \in 1 .. l
    BY <1>3
  <2>2. CASE j = l + 1
    BY <1>4, <2>1, <2>2
  <2>3. CASE j \in 1 .. l
    BY <1>3, <1>4, <2>1, <2>3 DEF KeptOf
  <2> QED
    BY <1>3, <2>2, <2>3
<1>8. \A i \in DOMAIN next :
        next[i] = table[more[i]] /\ table[more[i]].id # 0
  BY <1>3, <1>4, <1>6 DEF KeptOf
<1>9. \A k \in 1 .. n + 1 :
        table[k].id # 0 => \E i \in DOMAIN next : more[i] = k
  <2> SUFFICES ASSUME NEW k \in 1 .. n + 1, table[k].id # 0
               PROVE  \E i \in DOMAIN next : more[i] = k
    OBVIOUS
  <2>1. CASE k = n + 1
    BY <1>4, <1>6, <2>1
  <2>2. CASE k \in 1 .. n
    BY <1>3, <1>4, <1>6, <2>2 DEF KeptOf
  <2> QED
    BY <2>1, <2>2
<1>10. KeptOf(table, n + 1, next, more)
  BY <1>5, <1>7, <1>8, <1>9 DEF KeptOf
<1> QED
  BY <1>1, <1>10

\* What the two requests keep of a table is every slot with an Id, once, in
\* the order of the table, and nothing else, for every table.
THEOREM UsedIsCompaction ==
  ASSUME NEW S, NEW table \in Seq(S)
  PROVE  /\ Used(table) \in Seq(S) /\ Len(Used(table)) <= Len(table)
         /\ IsCompaction(table, Used(table))
<1> DEFINE C == Compacted(table)
           T == {n \in Nat : n <= Len(table) =>
                              \E from : KeptOf(table, n, C[n], from)}
<1>1. /\ C[0] = <<>>
      /\ \A n \in 1 .. Len(table) :
           C[n] = IF table[n].id = 0 THEN C[n - 1]
                  ELSE Append(C[n - 1], table[n])
  BY CompactedSteps
<1>2. \A n \in 0 .. Len(table) : C[n] \in Seq(S) /\ Len(C[n]) <= n
  BY CompactedType
<1> HIDE DEF C
<1>3. 0 \in T
  BY <1>1, KeptOfNone
<1>4. ASSUME NEW n \in Nat, n \in T PROVE n + 1 \in T
  <2> SUFFICES ASSUME n + 1 <= Len(table)
               PROVE  \E from : KeptOf(table, n + 1, C[n + 1], from)
    OBVIOUS
  <2>1. PICK from : KeptOf(table, n, C[n], from)
    BY <1>4
  <2>2. C[n + 1] = IF table[n + 1].id = 0 THEN C[n]
                   ELSE Append(C[n], table[n + 1])
    BY <1>1
  <2>3. C[n] \in Seq(S)
    BY <1>2
  <2>4. CASE table[n + 1].id = 0
    BY <2>1, <2>2, <2>4, KeptOfEmptySlot
  <2>5. CASE table[n + 1].id # 0
    BY <2>1, <2>2, <2>3, <2>5, KeptOfSlot
  <2> QED
    BY <2>4, <2>5
<1>5. Nat \subseteq T
  <2> HIDE DEF T
  <2> QED
    BY <1>3, <1>4, SetInduction
<1>6. Len(table) \in Nat /\ DOMAIN table = 1 .. Len(table)
  OBVIOUS
<1>7. Used(table) = C[Len(table)]
  BY DEF Used, C
<1>8. PICK from : KeptOf(table, Len(table), Used(table), from)
  BY <1>5, <1>6, <1>7
<1>9. IsCompaction(table, Used(table))
  BY <1>6, <1>8 DEF KeptOf, IsCompaction
<1> QED
  BY <1>2, <1>6, <1>7, <1>9

-----------------------------------------------------------------------------
(* The tables of a drive, from the requests to the callback. *)

Attributes == Used(smCall.drive.attributes)
Thresholds == Used(smCall.drive.thresholds)
RowCalls == {"EnumSmartData", "ScsiOverAtaEnumSmartData"}

\* Which function makes which request.
CallInv ==
  /\ smPlace # "idle" => smCall.drive \in Drives /\ smCall.fn \in SmartCalls
  /\ smPlace \in {"identify", "report"} => smCall.fn \in RowCalls
  /\ smPlace = "find" => smCall.fn = "GetSmartTemperature"
  /\ smPlace = "geometry" => smCall.fn = "GetSmartDiskGeometry"
  /\ smPlace \in {"version", "enable", "attributes", "thresholds"} =>
       smCall.fn # "GetSmartDiskGeometry"

IsSlot(slot) ==
  slot = [value |-> slot.value, raw |-> slot.raw,
          threshold |-> slot.threshold, bAttribId |-> slot.bAttribId]

\* A slot with the figures of an attribute, and one with what a threshold
\* brings.
HasValues(slot, a) == slot.value = a.value /\ slot.raw = TwoBytes(a.raw)
HasThreshold(slot, t) ==
  slot.threshold = t.threshold /\ slot.bAttribId = t.id

Joining == {"thresholds", "identify", "report", "find"}

\* The slots hold the attributes once they were asked for, and the thresholds
\* once these were.
SlotsInv ==
  /\ smPlace \in {"version", "enable", "attributes"} \union Joining =>
       /\ smInfo = [count |-> smInfo.count, slots |-> smInfo.slots]
       /\ DOMAIN smInfo.slots = DOMAIN smCall.drive.attributes
       /\ \A i \in DOMAIN smInfo.slots : IsSlot(smInfo.slots[i])
  /\ smPlace \in Joining =>
       /\ smInfo.count = Len(Attributes)
       /\ \A i \in DOMAIN Attributes : HasValues(smInfo.slots[i], Attributes[i])
  /\ smPlace \in Joining \ {"thresholds"} =>
       \A i \in DOMAIN Thresholds \intersect DOMAIN smInfo.slots :
         HasThreshold(smInfo.slots[i], Thresholds[i])

\* What RowsAreTheDrives asks of a call that has returned.
RowsRight(c, result, rows) ==
  LET used == Used(c.drive.attributes)
  IN  \/ result = 0 /\ rows = <<>>
      \/ /\ result = 1
         /\ IsCompaction(c.drive.attributes, used)
         /\ Len(rows) = Len(used)
         /\ \A i \in DOMAIN used : IsRow(c, i, rows[i])

\* The rows so far are those of the slots so far.
ReportInv ==
  /\ smPlace \notin {"report", "returned"} => smRows = <<>>
  /\ smPlace = "report" =>
       /\ IsSeq(smRows) /\ Len(smRows) <= smInfo.count
       /\ \A i \in DOMAIN smRows : smRows[i] = Row(smInfo.slots[i])
  /\ smPlace = "returned" /\ smCall.fn \in RowCalls =>
       RowsRight(smCall, smAnswer, smRows)

TableInv == CallInv /\ SlotsInv /\ ReportInv

LEMMA RowsRightIsMeant ==
  smPlace = "returned" /\ smCall.fn \in RowCalls =>
    (RowsRight(smCall, smAnswer, smRows) <=> RowsAreTheDrives)
<1> SUFFICES ASSUME smPlace = "returned", smCall.fn \in RowCalls
             PROVE  RowsRight(smCall, smAnswer, smRows) <=> RowsAreTheDrives
  OBVIOUS
<1>1. AskedFor(RowCalls)
  BY DEF AskedFor
<1>2. RowsAreTheDrives <=>
        (AskedFor(RowCalls) => RowsRight(smCall, smAnswer, smRows))
  BY Zenon DEF RowsRight, RowsAreTheDrives, RowCalls
<1> QED
  BY <1>1, <1>2

LEMMA NothingReported ==
  ASSUME NEW c PROVE RowsRight(c, 0, <<>>)
BY DEF RowsRight

\* Both tables are sequences, and there is a slot for each attribute.
LEMMA TablesType ==
  ASSUME DriveAssumption, smCall.drive \in Drives
  PROVE  /\ Len(Attributes) \in Nat /\ DOMAIN Attributes = 1 .. Len(Attributes)
         /\ DOMAIN Attributes \subseteq DOMAIN smCall.drive.attributes
         /\ Len(Thresholds) \in Nat /\ DOMAIN Thresholds = 1 .. Len(Thresholds)
         /\ IsCompaction(smCall.drive.attributes, Attributes)
<1> DEFINE AS == [id : 0 .. 255, value : 0 .. 255, raw : Nat]
           TS == [id : 0 .. 255, threshold : 0 .. 255]
<1>1. smCall.drive.attributes \in Seq(AS) /\ smCall.drive.thresholds \in Seq(TS)
  BY DEF DriveAssumption
<1> HIDE DEF AS, TS
<1>2. /\ Attributes \in Seq(AS)
      /\ Len(Attributes) <= Len(smCall.drive.attributes)
      /\ IsCompaction(smCall.drive.attributes, Attributes)
  BY <1>1, UsedIsCompaction DEF Attributes
<1>3. Thresholds \in Seq(TS)
  BY <1>1, UsedIsCompaction DEF Thresholds
<1> QED
  BY <1>1, <1>2, <1>3

\* In order the join gives each slot the Id of its attribute.
LEMMA JoinedInOrder ==
  ASSUME DriveAssumption, CallInv, SlotsInv,
         smPlace \in {"identify", "report", "find"}, InOrder(smCall.drive),
         NEW i \in DOMAIN Attributes
  PROVE  /\ i \in DOMAIN Thresholds
         /\ Thresholds[i].id = Attributes[i].id
         /\ HasThreshold(smInfo.slots[i], Thresholds[i])
         /\ smInfo.slots[i].bAttribId = Attributes[i].id
<1>1. smCall.drive \in Drives
  BY DEF CallInv
<1>2. /\ Len(Attributes) = Len(Thresholds)
      /\ Attributes[i].id = Thresholds[i].id
  BY Zenon DEF InOrder, Attributes, Thresholds
<1>3. i \in DOMAIN Thresholds /\ i \in DOMAIN smCall.drive.attributes
  BY <1>1, <1>2, TablesType
<1>4. DOMAIN smInfo.slots = DOMAIN smCall.drive.attributes
  BY DEF SlotsInv, Joining
<1>5. HasThreshold(smInfo.slots[i], Thresholds[i])
  BY <1>3, <1>4 DEF SlotsInv, Joining
<1> QED
  BY <1>2, <1>3, <1>5 DEF HasThreshold

\* So the type is that of the Ids the drive lists.
LEMMA TypeInOrder ==
  ASSUME DriveAssumption, CallInv, SlotsInv, smPlace = "report",
         InOrder(smCall.drive)
  PROVE  Type = TypeOf(smCall)
<1>1. smInfo.count = Len(Attributes)
  BY DEF SlotsInv, Joining
<1>2. DOMAIN Attributes = 1 .. smInfo.count
  BY <1>1, TablesType DEF CallInv
<1>3. \A i \in DOMAIN Attributes : smInfo.slots[i].bAttribId = Attributes[i].id
  BY JoinedInOrder
<1>4. Ids = {Attributes[i].id : i \in DOMAIN Attributes}
  BY <1>2, <1>3 DEF Ids
<1> QED
  BY <1>4 DEF Type, TypeOf, Attributes

\* All of the rows given, they are what they should be.
LEMMA AllReported ==
  ASSUME DriveAssumption, CallInv, SlotsInv, ReportInv, smPlace = "report",
         Len(smRows) = smInfo.count
  PROVE  RowsRight(smCall, 1, smRows)
<1>1. /\ smCall.drive \in Drives
      /\ smInfo.count = Len(Attributes)
      /\ \A i \in DOMAIN Attributes : HasValues(smInfo.slots[i], Attributes[i])
      /\ IsSeq(smRows)
      /\ \A i \in DOMAIN smRows : smRows[i] = Row(smInfo.slots[i])
  BY DEF CallInv, SlotsInv, ReportInv, Joining
<1>2. DOMAIN smRows = DOMAIN Attributes /\ Len(smRows) = Len(Attributes)
  <2>1. DOMAIN smRows = 1 .. Len(smRows)
    BY <1>1 DEF IsSeq
  <2> QED
    BY <1>1, <2>1, TablesType
<1>3. ASSUME NEW i \in DOMAIN Attributes
      PROVE  IsRow(smCall, i, smRows[i])
  <2>1. smRows[i] = Row(smInfo.slots[i])
    BY <1>1, <1>2, <1>3
  <2>2. HasValues(smInfo.slots[i], Attributes[i])
    BY <1>1, <1>3
  <2>3. /\ smRows[i].raw = TwoBytes(Attributes[i].raw)
        /\ smRows[i].value = Attributes[i].value
    BY <2>1, <2>2 DEF Row, HasValues
  <2>4. ASSUME InOrder(smCall.drive)
        PROVE  \E j \in DOMAIN Thresholds :
                 /\ Thresholds[j].id = Attributes[i].id
                 /\ smRows[i] = Joined(Attributes[i], Thresholds[j], TypeOf(smCall))
    <3>1. Type = TypeOf(smCall)
      BY <2>4, TypeInOrder
    <3>2. /\ i \in DOMAIN Thresholds
          /\ Thresholds[i].id = Attributes[i].id
          /\ HasThreshold(smInfo.slots[i], Thresholds[i])
          /\ smInfo.slots[i].bAttribId = Attributes[i].id
      BY <1>3, <2>4, JoinedInOrder
    <3>3. smRows[i] = Joined(Attributes[i], Thresholds[i], TypeOf(smCall))
      BY <2>1, <2>2, <3>1, <3>2 DEF Row, Joined, HasValues, HasThreshold
    <3> QED
      BY <3>2, <3>3
  <2> QED
    BY <2>3, <2>4 DEF IsRow, Attributes, Thresholds
<1>4. IsCompaction(smCall.drive.attributes, Attributes)
  BY <1>1, TablesType
<1> QED
  BY <1>2, <1>3, <1>4, Zenon DEF RowsRight, Attributes

\* Nothing was reported and the call fails.
LEMMA FailedTables ==
  ASSUME DriveAssumption, TableInv, NEW r, Failed(r),
         smPlace \notin {"idle", "report", "returned"}
  PROVE  TableInv'
<1>1. /\ smPlace' = "returned" /\ smAnswer' = 0
      /\ smCall' = smCall /\ smRows' = <<>> /\ smRows = <<>>
      /\ smInfo' = smInfo
  BY DEF Failed, Finish, TableInv, ReportInv
<1>2. CallInv' /\ SlotsInv'
  BY <1>1 DEF TableInv, CallInv, SlotsInv, Joining
<1>3. RowsRight(smCall, smAnswer, smRows)'
  BY <1>1, NothingReported
<1>4. ReportInv'
  BY <1>1, <1>3 DEF ReportInv
<1> QED
  BY <1>2, <1>4 DEF TableInv

LEMMA OpenTables ==
  ASSUME DriveAssumption, TableInv, Open PROVE TableInv'
<1>1. /\ smPlace = "open" /\ smCall' = smCall /\ smRows' = <<>>
      /\ smCall.drive \in Drives /\ smCall.fn \in SmartCalls
      /\ \/ smPlace' = First
         \/ smPlace' = "returned" /\ smAnswer' = 0
  BY DEF Open, TableInv, CallInv, ReportInv
<1>2. /\ First \in {"version", "enable", "geometry"}
      /\ First = "geometry" <=> smCall.fn = "GetSmartDiskGeometry"
  BY DEF First
<1>3. PICK id \in Garbage : smInfo' = Uninitialized(id)
  BY DEF Open
<1>4. /\ smInfo' = [count |-> smInfo'.count, slots |-> smInfo'.slots]
      /\ DOMAIN smInfo'.slots = DOMAIN smCall.drive.attributes
      /\ \A i \in DOMAIN smInfo'.slots : IsSlot(smInfo'.slots[i])
  BY <1>3 DEF Uninitialized, IsSlot
<1>5. CallInv'
  BY <1>1, <1>2 DEF CallInv
<1>6. SlotsInv'
  BY <1>1, <1>2, <1>4 DEF SlotsInv, Joining
<1>7. CASE smPlace' = First
  BY <1>1, <1>2, <1>5, <1>6, <1>7 DEF TableInv, ReportInv
<1>8. CASE smPlace' = "returned" /\ smAnswer' = 0
  <2>1. RowsRight(smCall, smAnswer, smRows)'
    BY <1>1, <1>8, NothingReported
  <2> QED
    BY <1>1, <1>5, <1>6, <1>8, <2>1 DEF TableInv, ReportInv
<1> QED
  BY <1>1, <1>7, <1>8

\* What a request that succeeds and brings no table leaves alone.
LEMMA GoesTables ==
  ASSUME DriveAssumption, TableInv, UNCHANGED smInfo,
         \/ smPlace = "version" /\ Goes("enable")
         \/ smPlace = "enable" /\ Goes("attributes")
         \/ smPlace = "identify" /\ Goes("report")
  PROVE  TableInv'
<1>1. /\ UNCHANGED <<smCall, smInfo, smRows>> /\ smRows = <<>>
      /\ \/ smPlace = "version" /\ smPlace' = "enable"
         \/ smPlace = "enable" /\ smPlace' = "attributes"
         \/ smPlace = "identify" /\ smPlace' = "report"
  BY DEF Goes, TableInv, ReportInv
<1>2. CallInv'
  BY <1>1 DEF TableInv, CallInv
<1>3. SlotsInv'
  BY <1>1, Zenon DEF TableInv, SlotsInv, Joining, Attributes, Thresholds
<1>4. smPlace' = "report" =>
        IsSeq(smRows) /\ Len(smRows) <= smInfo.count /\ DOMAIN smRows = {}
  <2>1. Len(smRows) = 0
    BY <1>1, EmptyLen
  <2>2. smPlace = "identify" => smInfo.count = Len(Attributes)
                                /\ smCall.drive \in Drives
    BY DEF TableInv, SlotsInv, CallInv, Joining
  <2> QED
    BY <1>1, <2>1, <2>2, EmptyIsSeq, EmptyDomain, TablesType
<1>5. ReportInv'
  BY <1>1, <1>4 DEF ReportInv
<1> QED
  BY <1>2, <1>3, <1>5 DEF TableInv

LEMMA AttributesTables ==
  ASSUME DriveAssumption, TableInv, ReadSmartAttributes PROVE TableInv'
<1>1. CASE Failed("attributes")
  BY <1>1, FailedTables DEF ReadSmartAttributes
<1>2. CASE ~Failed("attributes")
  <2>1. /\ smPlace = "attributes" /\ smPlace' = "thresholds"
        /\ UNCHANGED <<smCall, smRows>> /\ smRows = <<>>
        /\ smCall.drive \in Drives
    BY <1>2 DEF ReadSmartAttributes, Goes, TableInv, CallInv, ReportInv
  <2>2. smInfo' = [count |-> Len(Attributes),
                   slots |-> [i \in DOMAIN smInfo.slots |->
                     IF i \notin DOMAIN Attributes THEN smInfo.slots[i]
                     ELSE [smInfo.slots[i] EXCEPT
                             !.value = Attributes[i].value,
                             !.raw = TwoBytes(Attributes[i].raw),
                             !.threshold = MAXDWORD]]]
    BY <1>2 DEF ReadSmartAttributes, Attributes
  <2>3. /\ DOMAIN smInfo.slots = DOMAIN smCall.drive.attributes
        /\ \A i \in DOMAIN smInfo.slots : IsSlot(smInfo.slots[i])
    BY <2>1 DEF TableInv, SlotsInv
  <2>4. DOMAIN Attributes \subseteq DOMAIN smInfo.slots
    BY <2>1, <2>3, TablesType
  <2>5. /\ smInfo' = [count |-> smInfo'.count, slots |-> smInfo'.slots]
        /\ smInfo'.count = Len(Attributes)
        /\ DOMAIN smInfo'.slots = DOMAIN smInfo.slots
    BY <2>2
  <2>6. \A i \in DOMAIN smInfo'.slots : IsSlot(smInfo'.slots[i])
    BY <2>2, <2>3 DEF IsSlot
  <2>7. \A i \in DOMAIN Attributes : HasValues(smInfo'.slots[i], Attributes[i])
    <3>1. \A i \in DOMAIN Attributes :
            /\ IsSlot(smInfo.slots[i])
            /\ smInfo'.slots[i] = [smInfo.slots[i] EXCEPT
                                     !.value = Attributes[i].value,
                                     !.raw = TwoBytes(Attributes[i].raw),
                                     !.threshold = MAXDWORD]
      BY <2>2, <2>3, <2>4
    <3> QED
      BY <3>1 DEF IsSlot, HasValues
  <2>8. Attributes' = Attributes
    BY <2>1 DEF Attributes
  <2>9. SlotsInv'
    BY <2>1, <2>3, <2>5, <2>6, <2>7, <2>8 DEF SlotsInv, Joining
  <2>10. CallInv' /\ ReportInv'
    BY <2>1 DEF TableInv, CallInv, ReportInv
  <2> QED
    BY <2>9, <2>10 DEF TableInv
<1> QED
  BY <1>1, <1>2

LEMMA ThresholdsTables ==
  ASSUME DriveAssumption, TableInv, ReadSmartThresholds PROVE TableInv'
<1>1. CASE Failed("thresholds")
  BY <1>1, FailedTables DEF ReadSmartThresholds
<1>2. CASE ~Failed("thresholds")
  <2>1. /\ smPlace = "thresholds"
        /\ smPlace' = IF smCall.fn = "GetSmartTemperature" THEN "find"
                      ELSE "identify"
        /\ UNCHANGED <<smCall, smRows>> /\ smRows = <<>>
        /\ smCall.drive \in Drives /\ smCall.fn \in SmartCalls
        /\ smCall.fn # "GetSmartDiskGeometry"
    BY <1>2 DEF ReadSmartThresholds, Goes, TableInv, CallInv, ReportInv
  <2>2. smInfo' = [smInfo EXCEPT !.slots =
                     [i \in DOMAIN smInfo.slots |->
                        IF i \notin DOMAIN Thresholds THEN smInfo.slots[i]
                        ELSE [smInfo.slots[i] EXCEPT
                                !.threshold = Thresholds[i].threshold,
                                !.bAttribId = Thresholds[i].id]]]
    BY <1>2 DEF ReadSmartThresholds, Thresholds
  <2>3. /\ smInfo = [count |-> smInfo.count, slots |-> smInfo.slots]
        /\ DOMAIN smInfo.slots = DOMAIN smCall.drive.attributes
        /\ \A i \in DOMAIN smInfo.slots : IsSlot(smInfo.slots[i])
        /\ smInfo.count = Len(Attributes)
        /\ \A i \in DOMAIN Attributes : HasValues(smInfo.slots[i], Attributes[i])
    BY <2>1 DEF TableInv, SlotsInv, Joining
  <2>4. DOMAIN Attributes \subseteq DOMAIN smInfo.slots
    BY <2>1, <2>3, TablesType
  <2>5. /\ smInfo' = [count |-> smInfo'.count, slots |-> smInfo'.slots]
        /\ smInfo'.count = smInfo.count
        /\ DOMAIN smInfo'.slots = DOMAIN smInfo.slots
    BY <2>2, <2>3
  <2>6. \A i \in DOMAIN smInfo.slots :
          /\ IsSlot(smInfo'.slots[i])
          /\ smInfo'.slots[i].value = smInfo.slots[i].value
          /\ smInfo'.slots[i].raw = smInfo.slots[i].raw
          /\ i \in DOMAIN Thresholds =>
               HasThreshold(smInfo'.slots[i], Thresholds[i])
    <3>1. \A i \in DOMAIN smInfo.slots :
            smInfo'.slots[i] =
              IF i \notin DOMAIN Thresholds THEN smInfo.slots[i]
              ELSE [smInfo.slots[i] EXCEPT
                      !.threshold = Thresholds[i].threshold,
                      !.bAttribId = Thresholds[i].id]
      BY <2>2, <2>3
    <3> QED
      BY <2>3, <3>1 DEF IsSlot, HasThreshold
  <2>7. \A i \in DOMAIN Attributes : HasValues(smInfo'.slots[i], Attributes[i])
    BY <2>3, <2>4, <2>6 DEF HasValues
  <2>8. Attributes' = Attributes /\ Thresholds' = Thresholds
    BY <2>1 DEF Attributes, Thresholds
  <2>9. SlotsInv'
    BY <2>1, <2>3, <2>5, <2>6, <2>7, <2>8 DEF SlotsInv, Joining
  <2>10. CallInv'
    BY <2>1 DEF CallInv, SmartCalls, RowCalls
  <2>11. ReportInv'
    BY <2>1 DEF ReportInv
  <2> QED
    BY <2>9, <2>10, <2>11 DEF TableInv
<1> QED
  BY <1>1, <1>2

LEMMA ReportTables ==
  ASSUME DriveAssumption, TableInv, Report PROVE TableInv'
<1>1. /\ smPlace = "report" /\ UNCHANGED <<smCall, smInfo>>
      /\ smCall.drive \in Drives /\ smInfo.count = Len(Attributes)
      /\ IsSeq(smRows) /\ Len(smRows) <= smInfo.count
      /\ \A i \in DOMAIN smRows : smRows[i] = Row(smInfo.slots[i])
  BY DEF Report, TableInv, CallInv, SlotsInv, ReportInv, Joining
<1>2. CASE Len(smRows) < smInfo.count
           /\ smRows' = Append(smRows, Row(smInfo.slots[Len(smRows) + 1]))
           /\ UNCHANGED <<smPlace, smAnswer>>
  <2>1. PICK S : smRows \in Seq(S)
    BY <1>1 DEF IsSeq
  <2>2. PICK row : row = Row(smInfo.slots[Len(smRows) + 1])
    OBVIOUS
  <2>3. smRows \in Seq(S \union {row}) /\ smRows' = Append(smRows, row)
    BY <1>2, <2>1, <2>2
  <2>4. /\ smRows' \in Seq(S \union {row}) /\ Len(smRows') = Len(smRows) + 1
        /\ \A i \in DOMAIN smRows' :
             IF i = Len(smRows) + 1 THEN smRows'[i] = row
             ELSE i \in DOMAIN smRows /\ smRows'[i] = smRows[i]
    BY <2>3
  <2>5. Len(smRows') <= smInfo.count
    <3>1. smInfo.count \in Nat
      BY <1>1, TablesType
    <3> QED
      BY <1>2, <2>1, <2>4, <3>1
  <2>6. \A i \in DOMAIN smRows' : smRows'[i] = Row(smInfo.slots[i])
    BY <1>1, <2>2, <2>4
  <2>7. \A i \in DOMAIN smRows' : smRows'[i] = Row(smInfo.slots[i])'
    BY <1>1, <2>6 DEF Row, Type, Ids
  <2>8. ReportInv'
    <3>1. IsSeq(smRows')
      BY <2>4 DEF IsSeq
    <3> QED
      BY <1>1, <1>2, <2>5, <2>7, <3>1 DEF ReportInv
  <2>9. CallInv' /\ SlotsInv'
    BY <1>1, <1>2, Zenon
       DEF TableInv, CallInv, SlotsInv, Attributes, Thresholds
  <2> QED
    BY <2>8, <2>9 DEF TableInv
<1>3. CASE Len(smRows) = smInfo.count /\ Finish(1) /\ UNCHANGED smRows
  <2>1. smPlace' = "returned" /\ smAnswer' = 1
    BY <1>3 DEF Finish
  <2>2. RowsRight(smCall, 1, smRows)
    BY <1>1, <1>3, AllReported DEF TableInv
  <2>3. RowsRight(smCall, smAnswer, smRows)'
    BY <1>1, <1>3, <2>1, <2>2
  <2> QED
    BY <1>1, <1>3, <2>1, <2>3
       DEF TableInv, CallInv, SlotsInv, ReportInv, Joining
<1> QED
  BY <1>1, <1>2, <1>3 DEF Report

LEMMA TablesStep ==
  ASSUME DriveAssumption, TableInv, [SmartNext]_smart PROVE TableInv'
<1>1. CASE UNCHANGED <<smPlace, smCall, smInfo, smRows, smAnswer>>
  <2>1. Attributes' = Attributes /\ Thresholds' = Thresholds
    BY <1>1 DEF Attributes, Thresholds
  <2>2. CallInv' /\ SlotsInv'
    BY <1>1, <2>1 DEF TableInv, CallInv, SlotsInv
  <2>3. ReportInv'
    <3>1. \A i : Row(smInfo.slots[i])' = Row(smInfo.slots[i])
      BY <1>1 DEF Row, Type, Ids
    <3>2. RowsRight(smCall, smAnswer, smRows)'
            <=> RowsRight(smCall, smAnswer, smRows)
      BY <1>1
    <3> QED
      BY <1>1, <3>1, <3>2 DEF TableInv, ReportInv
  <2> QED
    BY <2>2, <2>3 DEF TableInv
<1>2. ASSUME NEW fn \in SmartCalls, NEW drive \in Drives,
             NEW given \in BOOLEAN, CallSmart(fn, drive, given)
      PROVE  TableInv'
  BY <1>2 DEF CallSmart, TableInv, CallInv, SlotsInv, ReportInv, Joining
<1>3. CASE GetSmartVersion \/ EnableSmart \/ ReadSmartInfo
  BY <1>3, FailedTables, GoesTables
     DEF GetSmartVersion, EnableSmart, ReadSmartInfo
<1>4. CASE Find
  <2>1. /\ smPlace' = "returned" /\ smCall' = smCall
        /\ smPlace = "find" /\ UNCHANGED <<smInfo, smRows>>
    BY <1>4 DEF Find, Finish
  <2>2. smCall.fn \notin RowCalls
    BY <2>1 DEF TableInv, CallInv, RowCalls
  <2> QED
    BY <2>1, <2>2 DEF TableInv, CallInv, SlotsInv, ReportInv, Joining
<1>5. CASE Geometry
  <2>1. /\ smPlace' = "returned" /\ smCall' = smCall
        /\ smPlace = "geometry" /\ UNCHANGED <<smInfo, smRows>>
    BY <1>5 DEF Geometry, Finish
  <2>2. smCall.fn \notin RowCalls
    BY <2>1 DEF TableInv, CallInv, RowCalls
  <2> QED
    BY <2>1, <2>2 DEF TableInv, CallInv, SlotsInv, ReportInv, Joining
<1>6. CASE SmartReturn
  BY <1>6 DEF SmartReturn, TableInv, CallInv, SlotsInv, ReportInv, Joining
<1>7. CASE CallerOpens \/ CallerCloses \/ UNCHANGED smart
  BY <1>1, <1>7 DEF CallerOpens, CallerCloses, smart
<1> QED
  BY <1>2, <1>3, <1>4, <1>5, <1>6, <1>7, OpenTables, AttributesTables,
     ThresholdsTables, ReportTables DEF SmartNext, BeginSmart, SmartStep

LEMMA TablesInvariant == SmartSpec => []TableInv
<1>1. SmartInit => TableInv
  BY DEF SmartInit, TableInv, CallInv, SlotsInv, ReportInv, Joining
<1>2. TableInv /\ [SmartNext]_smart => TableInv'
  BY DriveAssumption, TablesStep
<1> QED
  BY <1>1, <1>2, PTL DEF SmartSpec

\* For every drive, whatever its tables and whichever requests fail: a call
\* gives no row or a row for each attribute, in the order of the drive, with
\* the attribute's own values, and if the thresholds are in order with its Id,
\* its name and its threshold.
THEOREM RowsOfTheDrive == Spec => []RowsAreTheDrives
<1>1. TableInv => RowsAreTheDrives
  BY RowsRightIsMeant
     DEF TableInv, ReportInv, RowsAreTheDrives, AskedFor, RowCalls
<1> QED
  BY <1>1, TablesInvariant, PartsOfASpec, PTL

\* The first slot with the Id of a temperature is the first attribute with it.
LEMMA FoundInOrder ==
  ASSUME DriveAssumption, CallInv, SlotsInv, smPlace = "find",
         InOrder(smCall.drive)
  PROVE  {i \in 1 .. smInfo.count : smInfo.slots[i].bAttribId \in Temperatures}
           = {i \in DOMAIN Attributes : Attributes[i].id \in Temperatures}
<1>1. smInfo.count = Len(Attributes) /\ DOMAIN Attributes = 1 .. Len(Attributes)
  BY TablesType DEF CallInv, SlotsInv, Joining
<1>2. \A i \in DOMAIN Attributes : smInfo.slots[i].bAttribId = Attributes[i].id
  BY JoinedInOrder
<1> QED
  BY <1>1, <1>2

\* For every drive that lists its thresholds in order: the temperature is that
\* of the first attribute that holds one.
THEOREM TemperatureOfTheDrive == Spec => TemperatureIsTheDrives
<1> DEFINE Answer ==
      smPlace = "find" /\ InOrder(smCall.drive) =>
        LET used  == Used(smCall.drive.attributes)
            found == {i \in DOMAIN used : used[i].id \in Temperatures}
        IN  smAnswer' = IF found = {} THEN 0
                        ELSE TwoBytes(used[Least(found)].raw)
<1>1. ASSUME TableInv, [SmartNext]_smart PROVE [Answer]_smPlace
  <2> SUFFICES ASSUME smPlace' # smPlace, smPlace = "find",
                      InOrder(smCall.drive)
               PROVE  Answer
    OBVIOUS
  <2> DEFINE found == {i \in DOMAIN Attributes : Attributes[i].id \in Temperatures}
             hits == {i \in 1 .. smInfo.count :
                        smInfo.slots[i].bAttribId \in Temperatures}
  <2>1. Find
    BY <1>1 DEF SmartNext, BeginSmart, SmartStep, smart, CallerOpens,
                CallerCloses, CallSmart, Open, GetSmartVersion, EnableSmart,
                ReadSmartAttributes, ReadSmartThresholds, ReadSmartInfo,
                Report, Geometry, SmartReturn
  <2>2. smAnswer' = IF hits = {} THEN 0 ELSE smInfo.slots[Least(hits)].raw
    BY <2>1, Zenon DEF Find, Finish
  <2>3. hits = found
    BY <1>1, DriveAssumption, FoundInOrder DEF TableInv
  <2>4. \A i \in found : smInfo.slots[i].raw = TwoBytes(Attributes[i].raw)
    BY <1>1 DEF TableInv, SlotsInv, Joining, HasValues
  <2>5. found # {} => Least(found) \in found
    <3>1. found \subseteq Nat
      BY <1>1, DriveAssumption, TablesType DEF TableInv, CallInv
    <3> HIDE DEF found
    <3> QED
      BY <3>1, LeastExists
  <2> HIDE DEF found, hits
  <2>6. smAnswer' = IF found = {} THEN 0
                    ELSE TwoBytes(Attributes[Least(found)].raw)
    BY <2>2, <2>3, <2>4, <2>5
  <2> QED
    BY <2>6, Zenon DEF found, Attributes
<1>2. TableInv /\ [SmartNext]_smart => [Answer]_smPlace
  BY <1>1
<1> HIDE DEF Answer
<1>3. SmartSpec => [][Answer]_smPlace
  BY <1>2, TablesInvariant, PTL DEF SmartSpec
<1>4. TemperatureIsTheDrives <=> [][Answer]_smPlace
  BY DEF TemperatureIsTheDrives, Answer
<1> QED
  BY <1>3, <1>4, PartsOfASpec, PTL
=============================================================================
