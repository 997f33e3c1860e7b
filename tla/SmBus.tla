-------------------------------- MODULE SmBus --------------------------------
(***************************************************************************)
(* The readers of helper_dll/spd.c: ReadSpdData reads the contents of a    *)
(* memory module, byte by byte, through the SMBus controller of the        *)
(* chipset.  The eight readers differ in the bits they look at; Chip keeps *)
(* what is different, the actions what they share.                         *)
(*                                                                         *)
(* Each access to a port of the controller is a request to the driver and  *)
(* a step of its own: nothing keeps two programs from using the controller *)
(* at once, and the controller goes on by itself between two accesses.     *)
(***************************************************************************)
EXTENDS Integers, FiniteSets

CONSTANTS
  Readers,        \* threads or programs that call ReadSpdData
  Slots,          \* slots a caller asks for
  NoSlot,
  Size,           \* bytes read of a module (SPD_MAX_SIZE)
  Bytes,          \* values of a byte
  SPD_MAX_SIZE,   \* the byte that is as large as the size
  Contents,       \* Contents[s]: what the module in slot s holds
  Chips,          \* chip types of the computers looked at
  Buses,          \* what answers the ports
  ResetLimit,     \* attempts to clear the controller (0x8000)
  PollLimit,      \* attempts to see the end of a transaction (0x100)
  MayHappen       \* "Late", "BusError", "Kill"

\* Places in the caller's buffer.
Index == 0 .. Size - 1
Nothing == [n \in Index |-> "none"]
Modules == DOMAIN Contents

\* A register is the set of its bits that are 1.
Bits == 0 .. 7

ChipTypes ==
  {"ATISB", "ICH789", "SIS968", "NVCK804", "SIS962", "ICHX", "VIA8235",
   "AMD8111", "UNKNOWN"}

ASSUME SmBusAssumption ==
  /\ Size \in Nat \ {0}
  /\ Modules \subseteq Slots /\ NoSlot \notin Slots
  /\ Contents \in [Modules -> [Index -> Bytes]]
  /\ SPD_MAX_SIZE \in Bytes /\ "none" \notin Bytes
  /\ Chips \subseteq ChipTypes
  /\ Buses \subseteq {"controller", "no driver", "nothing"}
  /\ ResetLimit \in Nat /\ PollLimit \in Nat

VARIABLES
  chip, bus,
  \* each reader: where it is, its Slot, Index, error and flag, the caller's
  \* buffer and the answer
  pc, Slot, byte, error, flag, SpdData, result,
  \* the controller: its address and command registers, whether it is busy
  \* and with what, its status and data registers
  address, command, busy, target, status, datum

reader == <<pc, Slot, byte, error, flag, SpdData, result>>
controller == <<address, command, busy, target, status, datum>>
vars == <<chip, bus, reader, controller>>

-----------------------------------------------------------------------------
(* The bits each reader looks at, and the bits its controller sets. *)

SIS == {"SIS962", "SIS968"}
NForce == {"NVCK804", "AMD8111"}

\* Mutant: the reader does not wait until the controller is clear.
ClearAlways(f) == f \in SUBSET Bits

\* The end of the loop that clears the controller.
Clear(f) ==
  CASE chip \in SIS -> f = {}
    [] chip = "VIA8235" -> 6 \in f
    [] OTHER -> f \intersect {0, 1, 2, 3, 4, 7} = {}

NoModule(f) ==
  CASE chip \in SIS -> 1 \in f
    [] chip \in NForce -> 4 \in f
    [] chip = "ATISB" -> {1, 2} \subseteq f
    [] OTHER -> 2 \in f

\* Mutant: whatever ends the transaction is taken for success.
DoneIfAny(f) == f # {}

\* Mutant: the whole status is compared, the reservation too.
DoneWhole(f) == f \in {{1}, {3}, {7}}

\* ReadNVCK804SmBus waits for SPD_MAX_SIZE, which is 0x95.
Done(f) ==
  CASE chip = "SIS962" -> f = {3}
    [] chip = "SIS968" -> 3 \in f
    [] chip = "AMD8111" -> f = {7}
    [] chip = "NVCK804" -> f = {0, 2, 4, 7}
    [] chip = "ATISB" -> 1 \in f /\ 2 \notin f
    [] OTHER -> 1 \in f

\* The controller's side: a byte was read, the slot is empty, an error.
Success == CASE chip \in SIS -> {3} [] chip \in NForce -> {7} [] OTHER -> {1}

NotThere ==
  CASE chip \in SIS -> {1}
    [] chip \in NForce -> {4, 7}
    [] chip = "ATISB" -> {1, 2}
    [] OTHER -> {2}

BusError == CASE chip \in NForce -> {0, 1, 2, 7} [] OTHER -> {4}

Ports(f) ==
  CASE bus = "controller" -> f [] bus = "no driver" -> {} [] OTHER -> Bits

\* What the loop that clears reads: the status, or the protocol register,
\* which is not 0 while a transaction is under way.
Host ==
  Ports(IF chip \in NForce THEN IF busy THEN {0, 1, 2} ELSE {}
        ELSE status \union (IF busy THEN {0} ELSE {}))

Status == Ports(IF chip \notin NForce /\ busy THEN status \union {0}
                ELSE status)

-----------------------------------------------------------------------------

Init ==
  /\ chip \in Chips /\ bus \in Buses
  /\ pc = [r \in Readers |-> "idle"]
  /\ Slot = [r \in Readers |-> NoSlot]
  /\ byte = [r \in Readers |-> 0]
  /\ error = [r \in Readers |-> 0]
  /\ flag = [r \in Readers |-> {}]
  /\ SpdData = [r \in Readers |-> Nothing]
  /\ result = [r \in Readers |-> "none"]
  /\ address = NoSlot /\ command = 0
  /\ busy = FALSE /\ target = [slot |-> NoSlot, index |-> 0]
  /\ status = {} /\ datum = "none"

At(r, from, to) == pc[r] = from /\ pc' = [pc EXCEPT ![r] = to]

\* The reader returns.
Return(r, from, answer) ==
  /\ At(r, from, "idle")
  /\ Slot' = [Slot EXCEPT ![r] = NoSlot]
  /\ byte' = [byte EXCEPT ![r] = 0]
  /\ error' = [error EXCEPT ![r] = 0]
  /\ flag' = [flag EXCEPT ![r] = {}]
  /\ result' = [result EXCEPT ![r] = answer]

\* ReadSpdData, with a buffer of the caller's.
ReadSpdData(r, s) ==
  /\ At(r, "idle", IF chip = "UNKNOWN" THEN "unknown" ELSE "clear")
  /\ Slot' = [Slot EXCEPT ![r] = s]
  /\ SpdData' = [SpdData EXCEPT ![r] = Nothing]
  /\ result' = [result EXCEPT ![r] = "none"]
  /\ UNCHANGED <<chip, bus, byte, error, flag, controller>>

Unknown(r) ==
  /\ Return(r, "unknown", "FALSE")
  /\ UNCHANGED <<chip, bus, SpdData, controller>>

\* Ones are written to the status register, which clears what is not the
\* controller's being busy.  (The nForce readers write them to the protocol
\* register, where they are no protocol and nothing begins.)
WriteClear(r) ==
  /\ At(r, "clear", "flag")
  /\ status' = IF bus = "controller" /\ chip \notin NForce THEN {} ELSE status
  /\ UNCHANGED <<chip, bus, Slot, byte, error, flag, SpdData, result, address,
                 command, busy, target, datum>>

\* Bit 6 of VIA's status says that the controller is reserved: it is set by
\* the first read after it was cleared.
Reserve ==
  IF chip = "VIA8235" /\ bus = "controller"
  THEN status' = status \union {6} ELSE UNCHANGED status

\* The VIA reader clears once, the others again for each look.
ReadClear(r) ==
  /\ \/ /\ error[r] >= ResetLimit
        /\ Return(r, "flag", "FALSE")
     \/ /\ error[r] < ResetLimit
        /\ At(r, "flag", IF Clear(Host) THEN "slot"
                         ELSE IF chip = "VIA8235" THEN "flag" ELSE "clear")
        /\ error' = [error EXCEPT ![r] = IF Clear(Host) THEN 0 ELSE @ + 1]
        /\ UNCHANGED <<Slot, byte, flag, result>>
  /\ Reserve
  /\ UNCHANGED <<chip, bus, SpdData, address, command, busy, target, datum>>

WriteSlot(r) ==
  /\ At(r, "slot", "index")
  /\ address' = Slot[r]
  /\ UNCHANGED <<chip, bus, Slot, byte, error, flag, SpdData, result, command,
                 busy, target, status, datum>>

WriteIndex(r) ==
  /\ At(r, "index", "start")
  /\ command' = byte[r]
  /\ UNCHANGED <<chip, bus, Slot, byte, error, flag, SpdData, result, address,
                 busy, target, status, datum>>

\* A transaction begins, unless one is under way or nothing is there.
WriteStart(r) ==
  /\ At(r, "start", IF chip = "VIA8235" THEN "first" ELSE "poll")
  /\ IF bus = "controller" /\ ~busy
     THEN /\ busy' = TRUE
          /\ target' = [slot |-> address, index |-> command]
          /\ status' = IF chip \in NForce THEN {} ELSE status
     ELSE UNCHANGED <<busy, target, status>>
  /\ UNCHANGED <<chip, bus, Slot, byte, error, flag, SpdData, result, address,
                 command, datum>>

\* The VIA reader has one look ahead of its loop.
FirstLook(r) ==
  /\ At(r, "first", "poll")
  /\ flag' = [flag EXCEPT ![r] = Status]
  /\ Reserve
  /\ UNCHANGED <<chip, bus, Slot, byte, error, SpdData, result, address,
                 command, busy, target, datum>>

\* The loop that waits: no module, or too many looks, ...  (A transaction
\* that is not late has ended before the last look.)
Poll(r) ==
  LET f == IF chip = "VIA8235" THEN flag[r] ELSE Status
      last == error[r] + 1 >= PollLimit
  IN  /\ pc[r] = "poll"
      /\ "Late" \in MayHappen \/ ~busy \/ ~last
      /\ IF NoModule(f) \/ error[r] >= PollLimit
         THEN Return(r, "poll", "FALSE")
         ELSE /\ At(r, "poll", "look")
              /\ error' = [error EXCEPT ![r] = @ + 1]
              /\ UNCHANGED <<Slot, byte, flag, result>>
      /\ UNCHANGED <<chip, bus, SpdData, controller>>

\* ... and, a millisecond later, the byte is there.
Look(r) ==
  /\ At(r, "look", IF Done(Status) THEN "data" ELSE "poll")
  /\ flag' = [flag EXCEPT ![r] = IF chip = "VIA8235" THEN Status ELSE @]
  /\ Reserve
  /\ UNCHANGED <<chip, bus, Slot, byte, error, SpdData, result, address,
                 command, busy, target, datum>>

\* quaere: the data is shifted until it begins with the first byte that is
\* SPD_MAX_SIZE, if there is one; what is behind the buffer is shifted in.
Shifted(v, m) ==
  {w \in [Index -> Bytes] : \A n \in Index : n + m \in Index => w[n] = v[n + m]}

quaere(v) ==
  LET found == {n \in Index : v[n] = SPD_MAX_SIZE}
  IN  IF found = {} THEN {v}
      ELSE UNION {Shifted(v, m) : m \in {k \in found : \A n \in found : k <= n}}

\* The nForce readers leave the data as it is.
Finished(v) == IF chip \in NForce THEN {v} ELSE quaere(v)

\* Mutant: one byte too many.
ReadDataOneMore(r) ==
  LET v == [SpdData[r] EXCEPT ![byte[r]] = datum]
  IN  /\ IF byte[r] = Size
         THEN /\ Return(r, "data", "TRUE")
              /\ SpdData' \in {[SpdData EXCEPT ![r] = w] : w \in Finished(v)}
         ELSE /\ At(r, "data", "clear")
              /\ SpdData' = [SpdData EXCEPT ![r] = v]
              /\ byte' = [byte EXCEPT ![r] = @ + 1]
              /\ error' = [error EXCEPT ![r] = 0]
              /\ UNCHANGED <<Slot, flag, result>>
      /\ UNCHANGED <<chip, bus, controller>>

\* The byte is put in the buffer; after the last one the reader returns.
\* (ReadSIS968SmBus writes its flag, which is 0, to the status: no bit is
\* cleared.)
ReadData(r) ==
  LET v == [SpdData[r] EXCEPT ![byte[r]] = datum]
  IN  /\ IF byte[r] = Size - 1
         THEN /\ Return(r, "data", "TRUE")
              /\ SpdData' \in {[SpdData EXCEPT ![r] = w] : w \in Finished(v)}
         ELSE /\ At(r, "data", "clear")
              /\ SpdData' = [SpdData EXCEPT ![r] = v]
              /\ byte' = [byte EXCEPT ![r] = @ + 1]
              /\ error' = [error EXCEPT ![r] = 0]
              /\ UNCHANGED <<Slot, flag, result>>
      /\ UNCHANGED <<chip, bus, controller>>

Read(r) ==
  \/ Unknown(r) \/ WriteClear(r) \/ ReadClear(r)
  \/ WriteSlot(r) \/ WriteIndex(r) \/ WriteStart(r)
  \/ FirstLook(r) \/ Poll(r) \/ Look(r) \/ ReadData(r)

\* The program is killed in the middle of it.
Kill(r) ==
  /\ "Kill" \in MayHappen /\ pc[r] # "idle"
  /\ Return(r, pc[r], "FALSE")
  /\ UNCHANGED <<chip, bus, SpdData, controller>>

-----------------------------------------------------------------------------
(* The controller and the modules. *)

\* The transaction under way ends.
Complete ==
  /\ busy
  /\ busy' = FALSE
  /\ \/ /\ target.slot \in Modules
        /\ status' = status \union Success
        /\ datum' = Contents[target.slot][target.index]
     \/ /\ target.slot \notin Modules
        /\ status' = status \union NotThere
        /\ UNCHANGED datum
     \/ /\ "BusError" \in MayHappen
        /\ status' = status \union BusError
        /\ UNCHANGED datum
  /\ UNCHANGED <<chip, bus, reader, address, command, target>>

Next ==
  \/ \E r \in Readers : Read(r) \/ Kill(r) \/ \E s \in Slots : ReadSpdData(r, s)
  \/ Complete

Spec == Init /\ [][Next]_vars

\* Windows runs a reader that is ready; the controller may hang.
FairSpec == Spec /\ \A r \in Readers : WF_vars(Read(r))

\* A controller that is never late ends its transactions.
PromptSpec == FairSpec /\ WF_vars(Complete)
-----------------------------------------------------------------------------
(* Correctness. *)

ReaderStates ==
  {"idle", "unknown", "clear", "flag", "slot", "index", "start", "first",
   "poll", "look", "data"}

ReaderTypes ==
  /\ pc \in [Readers -> ReaderStates]
  /\ Slot \in [Readers -> Slots \union {NoSlot}]
  /\ byte \in [Readers -> Index]
  /\ error \in [Readers -> Nat]
  /\ flag \in [Readers -> SUBSET Bits]
  /\ result \in [Readers -> {"none", "TRUE", "FALSE"}]

BufferTypes == SpdData \in [Readers -> [Index -> Bytes \union {"none"}]]

ControllerTypes ==
  /\ chip \in ChipTypes /\ bus \in {"controller", "no driver", "nothing"}
  /\ address \in Slots \union {NoSlot} /\ command \in Index
  /\ busy \in BOOLEAN
  /\ target \in [slot : Slots \union {NoSlot}, index : Index]
  /\ status \in SUBSET Bits
  /\ datum \in Bytes \union {"none"}

\* Every register, local and buffer holds a value of its type; no reader
\* writes outside its caller's buffer.
TypeOK == ReaderTypes /\ BufferTypes /\ ControllerTypes

\* One reader at a time: it does what SpdContract says, whatever the
\* controller does and however often an earlier reader was killed: TRUE comes
\* with the bytes of the module in the slot that was asked for, in order (and
\* shifted by quaere), and never for an empty slot; and every call returns.
Answers(s) == {Contents[s]} \union quaere(Contents[s])

Given == [r \in Readers |-> IF result[r] = "TRUE" THEN SpdData[r] ELSE Nothing]

Contract == INSTANCE SpdContract WITH
  asked <- Slot, answer <- result, given <- Given

KeepsContract == Contract!FairSpec

\* Any number of readers at once: who gets TRUE has only bytes that were read
\* from some module, and has all of them, even if another reader asked for
\* another slot meanwhile.
BytesAreReal ==
  \A r \in Readers : result[r] = "TRUE" =>
    \A n \in Index : SpdData[r][n] \in Bytes

\* One reader, a controller that answers in time and no errors on the bus: a
\* module that is there is read.  "nForce CK804" is among the controllers
\* spd.c lists; its reader waits for a status no controller has.
PresentIsRead ==
  [][\A r \in Readers : Slot[r] \in Modules => result'[r] # "FALSE"]_vars
=============================================================================
