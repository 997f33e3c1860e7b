------------------------------ MODULE PciConfig ------------------------------
(***************************************************************************)
(* PCI configuration space: the accesses of helper_dll/spd.c, which write  *)
(* the address of a register to the port CONFIG_ADDRESS with one request   *)
(* of the driver and access CONFIG_DATA with another; the accesses through *)
(* the kernel's HAL (helper_dll.c, ioctl_funct.c), which are one request;  *)
(* and EnumSmBusBaseAddress, which looks for SMBus controllers.            *)
(*                                                                         *)
(* The latch behind CONFIG_ADDRESS belongs to the machine: any program     *)
(* that makes such an access sets it, and so may the kernel.               *)
(***************************************************************************)
EXTENDS PortRequest, FiniteSets

CONSTANTS
  Callers,     \* threads, of this program and of others
  Devices,     \* devices that are there, as <<device, function>> on bus 0
  Registers,   \* offsets of the double words a device implements
  ReadOnly,    \* the <<device, register>>s that cannot be written
  Contents,    \* Contents[d]: what the registers hold at first
  Calls,       \* Calls[c]: the calls that caller c makes
  MaxCalls,    \* bound: how many calls each caller makes
  PCI_MAX_DEV, PCI_MAX_FUN,
  MayFail      \* "HeapAlloc", "HalSetBusDataByOffset"

Slots == (0 .. PCI_MAX_DEV - 1) \X (0 .. PCI_MAX_FUN - 1)

Reads  == {"GetRegisterData", "ReadPci", "ReadPciConfig"}
Writes == {"WritePci", "WritePciConfig"}

\* The functions of helper_dll and the sizes there are of them.
Sizes(op) == CASE op = "GetRegisterData" -> {2, 4}
               [] op \in {"ReadPci", "WritePci"} -> {1, 2}
               [] OTHER -> {1, 2, 4}

IsCall(n) ==
  \/ n = [op |-> "EnumSmBusBaseAddress"]
  \/ /\ n.op \in Reads \union Writes
     /\ n.device \in Slots /\ n.offset \in 0 .. 255 /\ n.size \in Sizes(n.op)
     /\ n.op \in Writes => n.value \in Bytes(n.size)

ASSUME ConfigAssumption ==
  /\ MaxCalls \in [Callers -> Nat]
  /\ PCI_MAX_DEV \in Nat \ {0} /\ PCI_MAX_FUN \in Nat \ {0}
  /\ Devices \subseteq Slots
  /\ Registers \subseteq {r \in 0 .. 255 : r % 4 = 0}
  /\ ReadOnly \subseteq Devices \X Registers
  /\ Contents \in [Devices -> [Registers -> Dword]]
  /\ \A c \in Callers : \A n \in Calls[c] : IsCall(n)

VARIABLES
  space,      \* the registers of the devices
  latch,      \* the register CONFIG_DATA leads to
  made,       \* how many calls each caller has begun, for the bound
  pc,         \* each caller: the next request of its call
  call,       \* its call
  value,      \* the local value
  cursor,     \* EnumSmBusBaseAddress: where its loops are
  found,      \* the addresses and readers it reported
  answer,     \* what the call returns
  disturbed   \* another caller's request came between those of the call

locals == <<value, cursor, found>>
vars == <<space, latch, made, pc, call, locals, answer, disturbed>>

NoCall == [op |-> "none"]
NoCursor == [dev |-> 0, fun |-> 0, i |-> 0, chip |-> Zero]

Init ==
  /\ space = Contents
  /\ latch = [device |-> <<0, 0>>, register |-> 0]
  /\ made = [c \in Callers |-> 0]
  /\ pc = [c \in Callers |-> "idle"]
  /\ call = [c \in Callers |-> NoCall]
  /\ value = [c \in Callers |-> Zero]
  /\ cursor = [c \in Callers |-> NoCursor]
  /\ found = [c \in Callers |-> {}]
  /\ answer = [c \in Callers |-> <<>>]
  /\ disturbed = [c \in Callers |-> FALSE]

-----------------------------------------------------------------------------
(* The devices. *)

\* A device that is not there answers with all ones.
Register(device, register) ==
  IF device \notin Devices THEN Ones
  ELSE IF register \in Registers THEN space[device][register] ELSE Zero

Writable(device, register) ==
  device \in Devices /\ register \in Registers /\ <<device, register>> \notin ReadOnly

WriteRegister(device, register, dword) ==
  space' = IF Writable(device, register)
           THEN [space EXCEPT ![device][register] = dword] ELSE space

Div(offset) == offset % 4
Reg(offset) == offset - Div(offset)

-----------------------------------------------------------------------------
(* Who is disturbed.  Between the request that writes CONFIG_ADDRESS and   *)
(* the end of the access, by any request that sets the latch or writes a   *)
(* register; a search, which takes many accesses, by every write.          *)

InFlight(c)  == pc[c] \in {"data", "write"}
Searching(c) == call[c].op = "EnumSmBusBaseAddress"

SetsLatch(c) ==
  disturbed' = [d \in Callers |-> disturbed[d] \/ (d # c /\ InFlight(d))]

WritesRegister(c) ==
  disturbed' = [d \in Callers |->
                  disturbed[d] \/ (d # c /\ (InFlight(d) \/ Searching(d)))]

-----------------------------------------------------------------------------
(* One access through the ports. *)

CONFIG_DATA == <<252, 12, 0, 0>>

Begin(c) ==
  /\ pc[c] = "idle" /\ made[c] < MaxCalls[c]
  /\ made' = [made EXCEPT ![c] = @ + 1]
  /\ \E n \in Calls[c] :
       /\ call' = [call EXCEPT ![c] = n]
       /\ pc' = [pc EXCEPT ![c] =
                   IF n.op \in {"ReadPciConfig", "WritePciConfig"}
                   THEN "request" ELSE "address"]
  /\ UNCHANGED <<space, latch, locals, answer, disturbed>>

offsets == <<\h24, \h14, \h90, \hD0, \h20, \h58, \hE2, \h10, \h50, \h54>>

\* What a search reads at its place: the identity of the device, its class,
\* or the word at one of the offsets.  The loop over the offsets counts a
\* class and a word for each.
SearchTarget(k) ==
  [device |-> <<k.dev, k.fun>>,
   offset |-> IF k.i = 0 THEN 0
              ELSE IF k.i % 2 = 1 THEN 8 ELSE offsets[k.i \div 2]]

Target(c) ==
  IF Searching(c) THEN SearchTarget(cursor[c])
  ELSE [device |-> call[c].device, offset |-> call[c].offset]

\* GetRegisterDataDword: WriteIoPortDword(CONFIG_ADDRESS, ...).
WriteAddress(c) ==
  /\ pc[c] = "address"
  /\ latch' = [device |-> Target(c).device, register |-> Reg(Target(c).offset)]
  /\ pc' = [pc EXCEPT ![c] = "data"]
  /\ SetsLatch(c)
  /\ UNCHANGED <<space, call, locals, answer, made>>

\* ReadIoPortDword(CONFIG_DATA), and ReadIoPortWord of GetRegisterDataWord.
Latched == Register(latch.device, latch.register)

\* (value >> (8 * div)), cut down to a byte or a word.
Shifted(dword, div, size) ==
  [k \in 1 .. size |-> IF div + k > 4 THEN 0 ELSE dword[div + k]]

Got(c) ==
  IF call[c].op = "GetRegisterData"
  THEN IF call[c].size = 2 THEN ReadIoPortWord(CONFIG_DATA, Latched)
       ELSE ReadIoPortDword(CONFIG_DATA, Latched)
  ELSE Shifted(ReadIoPortDword(CONFIG_DATA, Latched), Div(call[c].offset),
               call[c].size)

\* ReadPciDword, ReadPciWord, ReadPciByte, GetRegisterDataWord.
ReadData(c) ==
  /\ pc[c] = "data" /\ call[c].op \in {"GetRegisterData", "ReadPci"}
  /\ answer' = [answer EXCEPT ![c] = Got(c)]
  /\ pc' = [pc EXCEPT ![c] = "returned"]
  /\ UNCHANGED <<space, latch, call, locals, disturbed, made>>

\* Mutant: the neighbours of the byte are cleared.
MergeAlone(old, n) ==
  [k \in 1 .. 4 |-> IF k - 1 - Div(n.offset) \in 0 .. n.size - 1
                    THEN n.value[k - Div(n.offset)] ELSE 0]

\* WritePciByte and WritePciWord: the double word with the byte or word put
\* in; a word at an odd offset is not put in.
Merge(old, n) ==
  IF n.size = 2 /\ Div(n.offset) \in {1, 3} THEN old
  ELSE [k \in 1 .. 4 |-> IF k - 1 - Div(n.offset) \in 0 .. n.size - 1
                         THEN n.value[k - Div(n.offset)] ELSE old[k]]

ReadOld(c) ==
  /\ pc[c] = "data" /\ call[c].op = "WritePci"
  /\ value' = [value EXCEPT ![c] =
                 Merge(ReadIoPortDword(CONFIG_DATA, Latched), call[c])]
  /\ pc' = [pc EXCEPT ![c] = "write"]
  /\ UNCHANGED <<space, latch, call, cursor, found, answer, disturbed, made>>

\* WriteIoPortDword(CONFIG_DATA, value): CONFIG_ADDRESS is not written again.
WriteData(c) ==
  /\ pc[c] = "write"
  /\ WriteRegister(latch.device, latch.register,
                   WriteIoPort(CONFIG_DATA, value[c]))
  /\ answer' = [answer EXCEPT ![c] = <<>>]
  /\ pc' = [pc EXCEPT ![c] = "returned"]
  /\ WritesRegister(c)
  /\ UNCHANGED <<latch, call, locals, made>>

Return(c) ==
  /\ pc[c] = "returned"
  /\ pc' = [pc EXCEPT ![c] = "idle"]
  /\ call' = [call EXCEPT ![c] = NoCall]
  /\ value' = [value EXCEPT ![c] = Zero]
  /\ cursor' = [cursor EXCEPT ![c] = NoCursor]
  /\ found' = [found EXCEPT ![c] = {}]
  /\ answer' = [answer EXCEPT ![c] = <<>>]
  /\ disturbed' = [disturbed EXCEPT ![c] = FALSE]
  /\ UNCHANGED <<space, latch, made>>

-----------------------------------------------------------------------------
(* Access through the kernel: ReadPciConfig and WritePciConfig. *)

\* The HAL has its own way to the registers; where it uses the ports, it
\* leaves the latch at its register.
HalLatch(n) ==
  \/ UNCHANGED latch
  \/ latch' = [device |-> n.device, register |-> Reg(n.offset)]

\* The helper refuses a word or double word that is not aligned.
Aligned(n) == n.offset % n.size = 0

OnesOf(size) == [k \in 1 .. size |-> 255]

\* HalGetBusDataByOffset answers 2 for a device that is not there, with the
\* first two bytes set to ones: a failure but for a word.  The helper's
\* inline functions answer with all ones whenever the request failed.
HalData(n) ==
  LET dword == Register(n.device, Reg(n.offset))
  IN  [k \in 1 .. n.size |-> dword[Div(n.offset) + k]]

ReadPciConfig(c) ==
  /\ pc[c] = "request" /\ call[c].op = "ReadPciConfig"
  /\ IF Aligned(call[c])
     THEN HalLatch(call[c]) /\ SetsLatch(c)
     ELSE UNCHANGED <<latch, disturbed>>
  /\ answer' = [answer EXCEPT ![c] =
       IF Aligned(call[c]) /\ (call[c].device \in Devices \/ call[c].size = 2)
       THEN HalData(call[c]) ELSE OnesOf(call[c].size)]
  /\ pc' = [pc EXCEPT ![c] = "returned"]
  /\ UNCHANGED <<space, call, locals, made>>

\* The bytes of the register that are written, and the others as they were.
HalMerge(n) ==
  LET old == Register(n.device, Reg(n.offset))
  IN  [k \in 1 .. 4 |-> IF k - 1 - Div(n.offset) \in 0 .. n.size - 1
                        THEN n.value[k - Div(n.offset)] ELSE old[k]]

\* TRUE says that all of the bytes were written.  HalSetBusDataByOffset
\* writes them all or, where it is refused, none.
WritePciConfig(c) ==
  /\ pc[c] = "request" /\ call[c].op = "WritePciConfig"
  /\ \/ /\ Aligned(call[c]) /\ call[c].device \in Devices
        /\ WriteRegister(call[c].device, Reg(call[c].offset),
                         HalMerge(call[c]))
        /\ answer' = [answer EXCEPT ![c] = <<1>>]
        /\ HalLatch(call[c])
        /\ WritesRegister(c)
     \/ /\ ~Aligned(call[c]) \/ "HeapAlloc" \in MayFail
        /\ answer' = [answer EXCEPT ![c] = <<0>>]
        /\ UNCHANGED <<space, latch, disturbed>>
     \/ /\ Aligned(call[c])
        /\ call[c].device \notin Devices \/ "HalSetBusDataByOffset" \in MayFail
        /\ answer' = [answer EXCEPT ![c] = <<0>>]
        /\ HalLatch(call[c])
        /\ SetsLatch(c)
        /\ UNCHANGED space
  /\ pc' = [pc EXCEPT ![c] = "returned"]
  /\ UNCHANGED <<call, locals, made>>

-----------------------------------------------------------------------------
(* EnumSmBusBaseAddress. *)

Id(vendor, device) ==
  <<vendor % 256, vendor \div 256, device % 256, device \div 256>>
IdsOf(vendor, devices) == {Id(vendor, d) : d \in devices}

VIA8235Chips ==
  IdsOf(\h1106, {\h3074, \h3147, \h3109, \h3177, \h8235, \h3227})

AMD756Chips == IdsOf(\h1022, {\h740B, \h7413})

NVCK804Chips == AMD756Chips \union {Id(\h10DE, \h01B4), Id(\h1022, \h7443)}

ICHXChips ==
  IdsOf(\h8086, {\h1C22, \h7113, \h719B, \h2413, \h2423, \h2443, \h2453,
                 \h2483, \h24C3, \h24D3, \h25A4, \h266A, \h269B, \h283E,
                 \h27DA, \h2930, \h3A30, \h3A60, \h3B30, \h5032})
    \union IdsOf(\h1106, {\h3050, \h3051})
    \union IdsOf(\h1166, {\h0200, \h0201}) \union {Id(\h1055, \h9463)}

AMD8111Chips ==
  {Id(\h1022, \h746A)} \union
  IdsOf(\h10DE, {\h0064, \h0084, \h00D4, \h00E4, \h0052, \h0034, \h0264,
                 \h0368, \h03EB, \h0446, \h0542, \h07D8, \h0752, \h0AA2})

\* The reader for a chip; a chip of no reader is traced and passed over.
ReaderOf(chip) ==
  CASE chip \in VIA8235Chips -> {"VIA8235"}
    [] chip \in NVCK804Chips -> {"NVCK804"}
    [] chip \in ICHXChips    -> {"ICHX"}
    [] chip \in AMD8111Chips -> {"AMD8111"}
    [] OTHER                 -> {}

Number(word) == word[1] + 256 * word[2]

\* An address in the I/O space, whose lowest bit is set and no other of four.
IsIoAddress(word) == Number(word) % 16 = 1

BaseAddress(chip, word) ==
  IF chip \in AMD756Chips THEN Number(word) - (Number(word) % 256) + \hE0
  ELSE Number(word) - (Number(word) % 16)

\* SMBUS_CLASS_CODE, in the upper three bytes.
IsSmBus(class) == SubSeq(class, 2, 4) = <<0, 5, 12>>

\* The next function, the next device, or the end of the loops.
Last(k) == k.dev = PCI_MAX_DEV - 1 /\ k.fun = PCI_MAX_FUN - 1
NextSlot(k) ==
  IF k.fun < PCI_MAX_FUN - 1 THEN [NoCursor EXCEPT !.dev = k.dev,
                                                   !.fun = k.fun + 1]
  ELSE [NoCursor EXCEPT !.dev = k.dev + 1]

\* Mutant: the loop runs on to the zero that ends the offsets.
SkipLate(k, dword) ==
  \/ k.i = 0 /\ dword = Ones
  \/ k.i >= 2 * Len(offsets)

\* Where the loops go from here: after an identity of all ones to the next
\* slot, after a class that is not that of an SMBus past its word.
Skip(k, dword) ==
  \/ k.i = 0 /\ dword = Ones
  \/ k.i >= 2 * Len(offsets)
  \/ k.i = 2 * Len(offsets) - 1 /\ ~IsSmBus(dword)

\* Mutant: the class is not looked at.
AdvanceAnyClass(k, dword) ==
  IF k.i = 0 THEN [k EXCEPT !.i = 1, !.chip = dword]
  ELSE [k EXCEPT !.i = k.i + 1]

Advance(k, dword) ==
  IF k.i = 0 THEN [k EXCEPT !.i = 1, !.chip = dword]
  ELSE IF k.i % 2 = 1 /\ ~IsSmBus(dword) THEN [k EXCEPT !.i = k.i + 2]
  ELSE [k EXCEPT !.i = k.i + 1]

\* lpEnumProc.
Reported(k, dword) ==
  LET word == Shifted(dword, Div(SearchTarget(k).offset), 2)
  IN  IF k.i > 0 /\ k.i % 2 = 0 /\ IsIoAddress(word)
      THEN {<<BaseAddress(k.chip, word), r>> : r \in ReaderOf(k.chip)}
      ELSE {}

Search(c) ==
  /\ pc[c] = "data" /\ Searching(c)
  /\ LET k     == cursor[c]
         dword == ReadIoPortDword(CONFIG_DATA, Latched)
     IN  /\ found' = [found EXCEPT ![c] = @ \union Reported(k, dword)]
         /\ IF Skip(k, dword)
            THEN IF Last(k)
                 THEN /\ pc' = [pc EXCEPT ![c] = "returned"]
                      /\ UNCHANGED cursor
                 ELSE /\ pc' = [pc EXCEPT ![c] = "address"]
                      /\ cursor' = [cursor EXCEPT ![c] = NextSlot(k)]
            ELSE /\ pc' = [pc EXCEPT ![c] = "address"]
                 /\ cursor' = [cursor EXCEPT ![c] = Advance(k, dword)]
  /\ UNCHANGED <<space, latch, call, value, answer, disturbed, made>>

-----------------------------------------------------------------------------
Step(c) ==
  \/ WriteAddress(c) \/ ReadData(c) \/ ReadOld(c) \/ WriteData(c)
  \/ ReadPciConfig(c) \/ WritePciConfig(c) \/ Search(c) \/ Return(c)

Next == \E c \in Callers : Begin(c) \/ Step(c)

Spec == Init /\ [][Next]_vars

-----------------------------------------------------------------------------
(* Correctness. *)

Cursors == [dev : 0 .. PCI_MAX_DEV - 1, fun : 0 .. PCI_MAX_FUN - 1,
            i : 0 .. 2 * Len(offsets), chip : Dword]

\* Every variable holds a value of its type.
TypeOK ==
  /\ space \in [Devices -> [Registers -> Dword]]
  /\ latch \in [device : Slots, register : {r \in 0 .. 255 : r % 4 = 0}]
  /\ pc \in [Callers -> {"idle", "address", "data", "write", "request",
                         "returned"}]
  /\ DOMAIN call = Callers
  /\ \A c \in Callers : call[c] \in Calls[c] \union {NoCall}
  /\ DOMAIN made = Callers
  /\ \A c \in Callers : made[c] \in 0 .. MaxCalls[c]
  /\ value \in [Callers -> Dword]
  /\ cursor \in [Callers -> Cursors]
  /\ DOMAIN found = Callers /\ DOMAIN answer = Callers
  /\ disturbed \in [Callers -> BOOLEAN]

\* The registers as bytes, and the calls that have their answer.
Places == {o \in 0 .. 255 : Reg(o) \in Registers}

bytes == [d \in Devices |-> [o \in Places |-> space[d][Reg(o)][Div(o) + 1]]]
served == [c \in Callers |-> pc[c] = "returned"]

Space == INSTANCE ConfigSpace

\* Accesses keep the contract of ConfigSpace: each takes effect at once and
\* on the bytes it names, unless a request of another caller came between its
\* own, and then spoils no more than one double word.
KeepsConfigSpace == Space!Spec

\* The controllers there are, found without loops: functions of the class
\* that have a reader, and the I/O addresses among their words.
Controllers ==
  UNION {UNION {
    LET chip == Register(d, 0)
        word == Shifted(Register(d, Reg(offsets[i])), Div(offsets[i]), 2)
    IN  IF IsSmBus(Register(d, 8)) /\ chip # Ones /\ IsIoAddress(word)
        THEN {<<BaseAddress(chip, word), r>> : r \in ReaderOf(chip)}
        ELSE {}
    : i \in DOMAIN offsets} : d \in Devices}

\* A search that nothing came between reports the controllers of the machine,
\* all of them and nothing else.
SearchIsRight ==
  \A c \in Callers :
    pc[c] = "returned" /\ Searching(c) /\ ~disturbed[c]
    => found[c] = Controllers
=============================================================================
