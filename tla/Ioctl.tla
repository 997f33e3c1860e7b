-------------------------------- MODULE Ioctl --------------------------------
(***************************************************************************)
(* One thread makes requests of the driver: the functions of helper_dll.c  *)
(* that read and write model specific registers, performance counters,     *)
(* the SMBIOS tables and I/O ports, the dispatcher DriverIoControl         *)
(* (aspia_sys/aspia_drv.c) and the handlers (aspia_sys/ioctl_funct.c).     *)
(*                                                                         *)
(* A register belongs to a processor, so a handler moves its thread there  *)
(* and back.  Which routines the kernel has for this was looked up when    *)
(* the driver was loaded.                                                  *)
(***************************************************************************)
EXTENDS PortRequest, FiniteSets

CONSTANTS
  Width,        \* bits of KAFFINITY
  Active,       \* the processors, as KeQueryActiveProcessors gives them
  Mine,         \* the processors the thread may run on by its own affinity
  CpuIndexes,   \* processors that are asked for
  Registers, Values,
  Reserved,     \* registers whose access raises an exception
  TableLengths, \* lengths of the SMBIOS table, 0 for no anchor to be found
  Ports, PortData,
  MayFail       \* "MmMapIoSpace", "MmMapTable", "VirtualAlloc"

ASSUME KernelAssumption ==
  /\ Width \in Nat \ {0}
  /\ Active \subseteq 0 .. Width - 1
  /\ Mine \subseteq Active /\ Mine # {}
  /\ CpuIndexes \subseteq Nat
  /\ Reserved \subseteq Registers
  /\ TableLengths \subseteq Nat
  /\ Ports \subseteq Dword /\ PortData \subseteq Dword

VARIABLES
  exports,    \* the affinity routines that were found
  system,     \* the affinity the kernel gave the thread, {} for its own
  saved,      \* the local ActiveAffinity
  msr,        \* the registers of each processor
  place,      \* where the thread is
  call,       \* the function it called, with the arguments
  answer,     \* what the function returns
  pages       \* bytes of VirtualAlloc memory held for the call

kernel == <<exports, system, saved, msr, place, call, answer, pages>>

-----------------------------------------------------------------------------
(* Loading the driver. *)

Routines == {"Set", "SetEx", "RevertEx"}
Modern == {"SetEx", "RevertEx"} \subseteq exports

\* IOCTL_Init: without a way to set the affinity the driver does not load.
IOCTL_Init ==
  exports \in {e \in SUBSET Routines :
                 "Set" \in e \/ {"SetEx", "RevertEx"} \subseteq e}

NoCall == [op |-> "none"]
Failure == [ok |-> FALSE]
Success(value) == [ok |-> TRUE, value |-> value]

KernelInit ==
  /\ IOCTL_Init
  /\ system = {} /\ saved = {}
  /\ msr \in [Active -> [Registers -> Values]]
  /\ place = "idle" /\ call = NoCall /\ answer = Failure
  /\ pages = 0

-----------------------------------------------------------------------------
(* Calls: the helper's functions and the sizes of what they pass. *)

RegisterCalls ==
  [op : {"ReadMsr", "ReadPmc"}, cpu : CpuIndexes, register : Registers]
    \union [op : {"WriteMsr"}, cpu : CpuIndexes, register : Registers,
            value : Values]

SmbiosCalls == [op : {"GetSmbiosData"}, table : TableLengths]

PortCalls ==
  [op : {"ReadIoPortByte", "ReadIoPortWord", "ReadIoPortDword",
         "WriteIoPortByte", "WriteIoPortWord", "WriteIoPortDword"},
   port : Ports, data : PortData]

Calls == RegisterCalls \union SmbiosCalls \union PortCalls

CallKernel(c) ==
  /\ place = "idle"
  /\ call' = c
  /\ place' = "request"
  /\ UNCHANGED <<exports, system, saved, msr, answer, pages>>

Return(a) == answer' = a /\ place' = "returned"

\* The caller takes the answer, and frees the memory it was given.
TakeAnswer ==
  /\ place = "returned"
  /\ place' = "idle" /\ call' = NoCall /\ answer' = Failure /\ pages' = 0
  /\ UNCHANGED <<exports, system, saved, msr>>

-----------------------------------------------------------------------------
(* Model specific registers and performance counters. *)

InputSize(op)  == CASE op = "ReadMsr" -> 8 [] op = "WriteMsr" -> 16
                    [] op = "ReadPmc" -> 4
Expected(op)   == CASE op = "ReadMsr" -> 8 [] op = "WriteMsr" -> 16
                    [] op = "ReadPmc" -> 8

\* Mutant: the mask is not checked against the processors there are.
ReqAffinityUnchecked == {call.cpu % Width}

\* The shift of 1 by a CpuIndex counts modulo the width.
ReqAffinity == Active \intersect {call.cpu % Width}

Effective == IF system = {} THEN Mine ELSE system

\* A request of another size, or for a processor that is not there.
Refuse ==
  /\ place = "request" /\ call \in RegisterCalls
  /\ InputSize(call.op) # Expected(call.op) \/ ReqAffinity = {}
  /\ Return(Failure)
  /\ UNCHANGED <<exports, system, saved, msr, call, pages>>

\* Mutant: the thread stays where it is on a kernel without the Ex routines.
BindIfModern ==
  /\ place = "request" /\ call \in RegisterCalls
  /\ InputSize(call.op) = Expected(call.op) /\ ReqAffinity # {}
  /\ system' = IF Modern THEN ReqAffinity ELSE system
  /\ saved' = IF Modern THEN system ELSE Active
  /\ place' = "bound"
  /\ UNCHANGED <<exports, msr, call, answer, pages>>

\* KeSetSystemAffinityThreadEx answers with the affinity that was in force,
\* KeSetSystemAffinityThread with nothing: all processors are kept then.
Bind ==
  /\ place = "request" /\ call \in RegisterCalls
  /\ InputSize(call.op) = Expected(call.op) /\ ReqAffinity # {}
  /\ system' = ReqAffinity
  /\ saved' = IF Modern THEN system ELSE Active
  /\ place' = "bound"
  /\ UNCHANGED <<exports, msr, call, answer, pages>>

\* Mutant: an exception returns at once.
FaultAtOnce ==
  /\ place = "bound" /\ call.register \in Reserved
  /\ Return(Failure)
  /\ UNCHANGED <<exports, system, saved, msr, call, pages>>

\* The instruction raises an exception, which becomes the status.
Fault ==
  /\ place = "bound" /\ call.register \in Reserved
  /\ answer' = Failure /\ place' = "accessed"
  /\ UNCHANGED <<exports, system, saved, msr, call, pages>>

\* The instruction, on whatever processor the thread runs.
Access ==
  /\ place = "bound" /\ call.register \notin Reserved
  /\ \E cpu \in Effective :
       IF call.op = "WriteMsr"
       THEN /\ msr' = [msr EXCEPT ![cpu][call.register] = call.value]
            /\ answer' = Success(call.value)
       ELSE /\ answer' = Success(msr[cpu][call.register])
            /\ UNCHANGED msr
  /\ place' = "accessed"
  /\ UNCHANGED <<exports, system, saved, call, pages>>

\* KeRevertToUserAffinityThreadEx, or KeSetSystemAffinityThread.
Restore ==
  /\ place = "accessed"
  /\ system' = saved /\ saved' = {}
  /\ place' = "returned"
  /\ UNCHANGED <<exports, msr, call, answer, pages>>

-----------------------------------------------------------------------------
(* The SMBIOS table: asked for twice, first for its length. *)

EntrySize == 31
Whole(c) == EntrySize + c.table

\* IOCTL_GetSMBIOS: the bytes it leaves in a buffer of that size, none when
\* it fails.  The table is left out when there is no room for it and also
\* when it cannot be mapped.
IOCTL_GetSMBIOS(size) ==
  IF size < EntrySize \/ call.table = 0 THEN {0}
  ELSE (IF "MmMapIoSpace" \in MayFail THEN {0} ELSE {}) \union
       (IF size < Whole(call) THEN {EntrySize}
        ELSE {Whole(call)} \union
             (IF "MmMapTable" \in MayFail THEN {EntrySize} ELSE {}))

\* GetSmbiosData: the entry, for the length it holds.
AskForEntry ==
  /\ place = "request" /\ call \in SmbiosCalls
  /\ \E read \in IOCTL_GetSMBIOS(EntrySize) :
       IF read = EntrySize
       THEN place' = "allocate" /\ UNCHANGED answer
       ELSE Return(Failure)
  /\ UNCHANGED <<exports, system, saved, msr, call, pages>>

Allocate ==
  /\ place = "allocate"
  /\ \/ /\ pages' = Whole(call)
        /\ place' = "ask again"
        /\ UNCHANGED answer
     \/ /\ "VirtualAlloc" \in MayFail
        /\ Return(Failure)
        /\ UNCHANGED pages
  /\ UNCHANGED <<exports, system, saved, msr, call>>

\* Mutant: the second answer's length is not looked at.
AskForTableUnchecked ==
  /\ place = "ask again"
  /\ \E read \in IOCTL_GetSMBIOS(pages) :
       IF read > 0
       THEN Return(Success(read)) /\ UNCHANGED pages
       ELSE Return(Failure) /\ pages' = 0
  /\ UNCHANGED <<exports, system, saved, msr, call>>

AskForTable ==
  /\ place = "ask again"
  /\ \E read \in IOCTL_GetSMBIOS(pages) :
       IF read = pages
       THEN Return(Success(read)) /\ UNCHANGED pages
       ELSE Return(Failure) /\ pages' = 0
  /\ UNCHANGED <<exports, system, saved, msr, call>>

-----------------------------------------------------------------------------
(* Ports. *)

Narrow(op) == IF op \in {"ReadIoPortByte", "WriteIoPortByte"} THEN 1
              ELSE IF op \in {"ReadIoPortWord", "WriteIoPortWord"} THEN 2
              ELSE 4

AccessPort ==
  /\ place = "request" /\ call \in PortCalls
  /\ Return(Success(
       CASE call.op = "ReadIoPortByte"  -> ReadIoPortByte(call.port, call.data)
         [] call.op = "ReadIoPortWord"  -> ReadIoPortWord(call.port, call.data)
         [] call.op = "ReadIoPortDword" -> ReadIoPortDword(call.port, call.data)
         [] OTHER -> WriteIoPort(call.port,
                                 SubSeq(call.data, 1, Narrow(call.op)))))
  /\ UNCHANGED <<exports, system, saved, msr, call, pages>>

-----------------------------------------------------------------------------
BeginKernel == \E c \in Calls : CallKernel(c)

KernelStep ==
  \/ Refuse \/ Bind \/ Fault \/ Access \/ Restore
  \/ AskForEntry \/ Allocate \/ AskForTable
  \/ AccessPort
  \/ TakeAnswer

KernelNext == BeginKernel \/ KernelStep

KernelSpec == KernelInit /\ [][KernelNext]_kernel

-----------------------------------------------------------------------------
(* Correctness. *)

\* Every variable holds a value of its type.
KernelTypeOK ==
  /\ exports \subseteq Routines
  /\ system \subseteq Active /\ saved \subseteq Active
  /\ msr \in [Active -> [Registers -> Values]]
  /\ place \in {"idle", "request", "bound", "accessed", "allocate",
                "ask again", "returned"}
  /\ call \in Calls \union {NoCall}
  /\ answer.ok \in BOOLEAN
  /\ pages \in Nat

Returned(calls) == place = "returned" /\ call \in calls

\* Between requests the thread runs where it ran before, whatever faulted or
\* was refused; on a kernel without the Ex routines it may have been left
\* free to run on every processor.
AffinityKept ==
  place \in {"idle", "returned"} =>
    system = {} \/ (~Modern /\ system = Active)

\* A register that was read or written is that of the processor asked for, if
\* its number is one an affinity mask has a bit for.
OfTheCpuAsked ==
  Returned(RegisterCalls) /\ answer.ok /\ call.cpu < Width =>
    /\ call.cpu \in Active
    /\ answer.value = msr[call.cpu][call.register]

\* A write of a register changes that register of one processor, which is the
\* one asked for if a mask has a bit for it, and no other call changes any.
OnlyWritesWrite ==
  [][msr' # msr =>
       /\ call.op = "WriteMsr"
       /\ \E cpu \in Active :
            /\ msr' = [msr EXCEPT ![cpu][call.register] = call.value]
            /\ call.cpu < Width => cpu = call.cpu]_msr

\* "If not available the specified CPU, return STATUS_UNSUCCESSFUL": a request
\* for a processor the machine has not is refused, whatever its number.
MissingCpuFails ==
  Returned(RegisterCalls) /\ answer.ok => call.cpu \in Active

\* GetSmbiosData gives the entry with all of its table, or nothing and then
\* holds no memory, whichever of its two requests came back short.
SmbiosIsWhole ==
  Returned(SmbiosCalls) =>
    IF answer.ok THEN answer.value = Whole(call) /\ pages = Whole(call)
    ELSE pages = 0

\* What a port holds reaches the caller, or the value reaches the port, byte
\* for byte and with nothing of the port number that shared the buffer.
PortDataIsExact ==
  Returned(PortCalls) =>
    answer.value = SubSeq(call.data, 1, Narrow(call.op))
=============================================================================
