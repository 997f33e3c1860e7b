--------------------------- MODULE PciConfigProofs ---------------------------
(***************************************************************************)
(* Theorems about PciConfig, for any number of callers, any devices and    *)
(* any calls: its types, that it keeps the contract of ConfigSpace, and    *)
(* that a search finds every controller and nothing else.                  *)
(***************************************************************************)
EXTENDS PciConfig, PortRequestProofs

-----------------------------------------------------------------------------
(* Offsets and registers. *)

Offset == 0 .. 255
RegisterOffset == {r \in Offset : r % 4 = 0}

LEMMA RegDiv ==
  ASSUME NEW o \in Offset
  PROVE  /\ Reg(o) \in RegisterOffset /\ Div(o) \in 0 .. 3
         /\ o = Reg(o) + Div(o)
BY DEF Reg, Div, Offset, RegisterOffset

\* The bytes of a double word.
LEMMA RegOfSum ==
  ASSUME NEW r \in RegisterOffset, NEW j \in 0 .. 3
  PROVE  r + j \in Offset /\ Reg(r + j) = r /\ Div(r + j) = j
BY DEF Reg, Div, Offset, RegisterOffset

LEMMA ConfigDataType == CONFIG_DATA \in Dword
BY DEF CONFIG_DATA, Dword, Bytes, Byte

LEMMA OnesZeroType ==
  /\ Ones \in Dword /\ Zero \in Dword
  /\ \A k \in 1 .. 4 : Ones[k] = 255 /\ Zero[k] = 0
BY DEF Ones, Zero, Dword, Bytes, Byte

LEMMA RegisterType ==
  ASSUME TypeOK, NEW d, NEW r
  PROVE  Register(d, r) \in Dword
BY OnesZeroType DEF TypeOK, Register

LEMMA ReadsLatched ==
  ASSUME TypeOK
  PROVE  /\ Latched \in Dword
         /\ ReadIoPortDword(CONFIG_DATA, Latched) = Latched
         /\ ReadIoPortWord(CONFIG_DATA, Latched) = [k \in 1 .. 2 |-> Latched[k]]
<1>1. Latched \in Dword
  BY RegisterType DEF Latched
<1> QED
  BY <1>1, ConfigDataType, ReadDword, ReadWord

-----------------------------------------------------------------------------
(* Calls. *)

\* What a call that is under way is.
LEMMA CallType ==
  ASSUME ConfigAssumption, TypeOK, NEW c \in Callers, call[c] # NoCall
  PROVE  IsCall(call[c]) /\ call[c] \in Calls[c]
BY DEF ConfigAssumption, TypeOK

LEMMA NoCallIsNone == ASSUME NEW n, IsCall(n) PROVE n # NoCall /\ n.op # "none"
BY DEF IsCall, NoCall, Reads, Writes

SearchOp == "EnumSmBusBaseAddress"

LEMMA AccessType ==
  ASSUME NEW n, IsCall(n), n.op # SearchOp
  PROVE  /\ n.device \in Slots /\ n.offset \in Offset
         /\ n.size \in {1, 2, 4} /\ n.size \in Sizes(n.op)
         /\ n.op \in Reads \union Writes
         /\ n.op \in Writes => n.value \in Bytes(n.size)
BY DEF IsCall, SearchOp, Sizes, Offset

\* The requests of a call are made in its own order.
CallInv ==
  \A c \in Callers :
    /\ pc[c] = "idle" <=> call[c] = NoCall
    /\ pc[c] = "request" => call[c].op \in {"ReadPciConfig", "WritePciConfig"}
    /\ pc[c] \in {"address", "data"} =>
         call[c].op \in {"GetRegisterData", "ReadPci", "WritePci", SearchOp}
    /\ pc[c] = "write" => call[c].op = "WritePci"

\* The bytes of a value put into a double word.
LEMMA MergedType ==
  ASSUME NEW old \in Dword, NEW o \in Offset, NEW size \in {1, 2, 4},
         NEW v \in Bytes(size)
  PROVE  [k \in 1 .. 4 |-> IF k - 1 - Div(o) \in 0 .. size - 1
                           THEN v[k - Div(o)] ELSE old[k]] \in Dword
<1>1. Div(o) \in 0 .. 3
  BY RegDiv
<1>2. ASSUME NEW k \in 1 .. 4, k - 1 - Div(o) \in 0 .. size - 1
      PROVE  k - Div(o) \in 1 .. size
  BY <1>1, <1>2
<1> QED
  BY <1>1, <1>2 DEF Dword, Bytes

LEMMA MergeType ==
  ASSUME NEW old \in Dword, NEW n, IsCall(n), n.op = "WritePci"
  PROVE  Merge(old, n) \in Dword
<1>1. n.offset \in Offset /\ n.size \in {1, 2, 4} /\ n.value \in Bytes(n.size)
  BY AccessType DEF SearchOp, Writes
<1> QED
  BY <1>1, MergedType DEF Merge

-----------------------------------------------------------------------------
(* Where a search is. *)

LEMMA offsetsType ==
  /\ Len(offsets) = 10
  /\ \A j \in 1 .. 10 : offsets[j] \in Offset
BY DEF offsets, Offset

LEMMA NoCursorType ==
  ASSUME ConfigAssumption
  PROVE  NoCursor \in Cursors
BY OnesZeroType, offsetsType DEF ConfigAssumption, NoCursor, Cursors

LEMMA SearchTargetType ==
  ASSUME NEW k \in Cursors
  PROVE  SearchTarget(k).device \in Slots /\ SearchTarget(k).offset \in Offset
<1>1. k.dev \in 0 .. PCI_MAX_DEV - 1 /\ k.fun \in 0 .. PCI_MAX_FUN - 1
      /\ k.i \in 0 .. 20
  BY offsetsType DEF Cursors
<1>2. SearchTarget(k).device \in Slots
  BY <1>1 DEF SearchTarget, Slots
<1>3. k.i = 0 \/ k.i % 2 = 1 \/ k.i \div 2 \in 1 .. 10
  BY <1>1
<1>4. SearchTarget(k).offset \in Offset
  BY <1>3, offsetsType DEF SearchTarget, Offset
<1> QED
  BY <1>2, <1>4

LEMMA NextSlotType ==
  ASSUME ConfigAssumption, NEW k \in Cursors, ~Last(k)
  PROVE  NextSlot(k) \in Cursors
<1>1. k.dev \in 0 .. PCI_MAX_DEV - 1 /\ k.fun \in 0 .. PCI_MAX_FUN - 1
      /\ PCI_MAX_DEV \in Nat \ {0} /\ PCI_MAX_FUN \in Nat \ {0}
  BY DEF Cursors, ConfigAssumption
<1>2. NoCursor.i = 0 /\ NoCursor.chip = Zero /\ NoCursor.fun = 0
  BY DEF NoCursor
<1>3. CASE k.fun < PCI_MAX_FUN - 1
  <2>1. NextSlot(k) = [dev |-> k.dev, fun |-> k.fun + 1, i |-> 0, chip |-> Zero]
    BY <1>3 DEF NextSlot, NoCursor
  <2> QED
    BY <1>1, <1>3, <2>1, OnesZeroType, offsetsType DEF Cursors
<1>4. CASE ~(k.fun < PCI_MAX_FUN - 1)
  <2>1. NextSlot(k) = [dev |-> k.dev + 1, fun |-> 0, i |-> 0, chip |-> Zero]
    BY <1>4 DEF NextSlot, NoCursor
  <2>2. k.dev + 1 \in 0 .. PCI_MAX_DEV - 1
    BY <1>1, <1>4 DEF Last
  <2> QED
    BY <1>1, <2>1, <2>2, OnesZeroType, offsetsType DEF Cursors
<1> QED
  BY <1>3, <1>4

LEMMA AdvanceType ==
  ASSUME NEW k \in Cursors, NEW dword \in Dword, ~Skip(k, dword)
  PROVE  Advance(k, dword) \in Cursors
<1>1. k.i \in 0 .. 20 /\ Len(offsets) = 10
  BY offsetsType DEF Cursors
<1>2. CASE k.i = 0
  <2>1. Advance(k, dword) =
          [dev |-> k.dev, fun |-> k.fun, i |-> 1, chip |-> dword]
    BY <1>2 DEF Advance, Cursors
  <2> QED
    BY <1>1, <2>1 DEF Cursors
<1>3. CASE k.i # 0 /\ k.i % 2 = 1 /\ ~IsSmBus(dword)
  <2>1. k.i + 2 \in 0 .. 20
    BY <1>1, <1>3 DEF Skip
  <2> QED
    BY <1>1, <1>3, <2>1 DEF Advance, Cursors
<1>4. CASE k.i # 0 /\ ~(k.i % 2 = 1 /\ ~IsSmBus(dword))
  <2>1. k.i + 1 \in 0 .. 20
    BY <1>1 DEF Skip
  <2> QED
    BY <1>1, <1>4, <2>1 DEF Advance, Cursors
<1> QED
  BY <1>2, <1>3, <1>4

-----------------------------------------------------------------------------
(* Types. *)

LEMMA InitTyped ==
  ASSUME ConfigAssumption, Init
  PROVE  TypeOK /\ CallInv
<1>1. space \in [Devices -> [Registers -> Dword]]
  BY DEF ConfigAssumption, Init
<1>2. latch \in [device : Slots, register : RegisterOffset]
  BY DEF ConfigAssumption, Init, Slots, RegisterOffset, Offset
<1>3. \A c \in Callers : made[c] \in 0 .. MaxCalls[c]
  BY DEF ConfigAssumption, Init
<1>4. value \in [Callers -> Dword] /\ cursor \in [Callers -> Cursors]
  BY OnesZeroType, NoCursorType DEF Init
<1>5. TypeOK
  BY <1>1, <1>2, <1>3, <1>4 DEF Init, TypeOK, RegisterOffset, Offset
<1>6. CallInv
  BY DEF Init, CallInv
<1> QED
  BY <1>5, <1>6

\* Writing a register leaves double words in the registers.
LEMMA WriteRegisterType ==
  ASSUME TypeOK, NEW d, NEW r, NEW dword \in Dword, WriteRegister(d, r, dword)
  PROVE  space' \in [Devices -> [Registers -> Dword]]
<1>1. CASE Writable(d, r)
  <2>1. space' = [space EXCEPT ![d][r] = dword]
    BY <1>1 DEF WriteRegister
  <2> QED
    BY <1>1, <2>1 DEF TypeOK, Writable
<1>2. CASE ~Writable(d, r)
  BY <1>2 DEF WriteRegister, TypeOK
<1> QED
  BY <1>1, <1>2

\* What a step of one caller leaves of another's.
Untouched(d) ==
  /\ pc'[d] = pc[d] /\ call'[d] = call[d]
  /\ value'[d] = value[d] /\ cursor'[d] = cursor[d]

LEMMA Frame ==
  ASSUME TypeOK, NEW c \in Callers, Begin(c) \/ Step(c)
  PROVE  \A d \in Callers \ {c} : Untouched(d)
<1>1. DOMAIN pc = Callers /\ DOMAIN call = Callers /\ DOMAIN value = Callers
      /\ DOMAIN cursor = Callers
  BY DEF TypeOK
<1>2. CASE Begin(c)
  BY <1>1, <1>2 DEF Begin, Untouched, locals
<1>3. CASE WriteAddress(c)
  BY <1>1, <1>3 DEF WriteAddress, Untouched, locals
<1>4. CASE ReadData(c)
  BY <1>1, <1>4 DEF ReadData, Untouched, locals
<1>5. CASE ReadOld(c)
  BY <1>1, <1>5 DEF ReadOld, Untouched
<1>6. CASE WriteData(c)
  BY <1>1, <1>6 DEF WriteData, Untouched, locals
<1>7. CASE ReadPciConfig(c)
  BY <1>1, <1>7 DEF ReadPciConfig, Untouched, locals
<1>8. CASE WritePciConfig(c)
  BY <1>1, <1>8 DEF WritePciConfig, Untouched, locals
<1>9. CASE Search(c)
  BY <1>1, <1>9 DEF Search, Untouched
<1>10. CASE Return(c)
  BY <1>1, <1>10 DEF Return, Untouched
<1> QED
  BY <1>2, <1>3, <1>4, <1>5, <1>6, <1>7, <1>8, <1>9, <1>10 DEF Step

\* The latch leads to a register of a slot.
LEMMA TargetType ==
  ASSUME ConfigAssumption, TypeOK, CallInv, NEW c \in Callers,
         pc[c] \in {"address", "data", "write"}
  PROVE  Target(c).device \in Slots /\ Target(c).offset \in Offset
<1>1. IsCall(call[c])
  BY CallType DEF CallInv
<1>2. CASE Searching(c)
  BY <1>2, SearchTargetType DEF Target, TypeOK
<1>3. CASE ~Searching(c)
  BY <1>1, <1>3, AccessType DEF Target, Searching, SearchOp
<1> QED
  BY <1>2, <1>3

LEMMA HalLatchType ==
  ASSUME TypeOK, NEW n, IsCall(n), n.op # SearchOp, HalLatch(n)
  PROVE  latch' \in [device : Slots, register : RegisterOffset]
<1>1. n.device \in Slots /\ Reg(n.offset) \in RegisterOffset
  BY AccessType, RegDiv
<1> QED
  BY <1>1 DEF HalLatch, TypeOK, RegisterOffset, Offset

LEMMA HalMergeType ==
  ASSUME TypeOK, NEW n, IsCall(n), n.op = "WritePciConfig"
  PROVE  HalMerge(n) \in Dword
<1>1. n.offset \in Offset /\ n.size \in {1, 2, 4} /\ n.value \in Bytes(n.size)
  BY AccessType DEF SearchOp, Writes
<1> QED
  BY <1>1, MergedType, RegisterType DEF HalMerge

LEMMA TypeStep ==
  ASSUME ConfigAssumption, TypeOK, CallInv, [Next]_vars
  PROVE  TypeOK'
<1> USE DEF locals
<1>1. CASE UNCHANGED vars
  BY <1>1 DEF TypeOK, vars
<1>2. ASSUME NEW c \in Callers, Begin(c)  PROVE TypeOK'
  <2>1. PICK n \in Calls[c] : call' = [call EXCEPT ![c] = n]
    BY <1>2 DEF Begin
  <2>2. pc' \in [Callers -> {"idle", "address", "data", "write", "request",
                             "returned"}]
    BY <1>2 DEF Begin, TypeOK
  <2>3. \A d \in Callers : made'[d] \in 0 .. MaxCalls[d]
    BY <1>2 DEF Begin, TypeOK, ConfigAssumption
  <2> QED
    BY <1>2, <2>1, <2>2, <2>3 DEF Begin, TypeOK
<1>3. ASSUME NEW c \in Callers, WriteAddress(c)  PROVE TypeOK'
  <2>1. latch' \in [device : Slots, register : RegisterOffset]
    BY <1>3, TargetType, RegDiv DEF WriteAddress
  <2>2. disturbed' \in [Callers -> BOOLEAN]
    BY <1>3 DEF WriteAddress, SetsLatch, InFlight, TypeOK
  <2> QED
    BY <1>3, <2>1, <2>2 DEF WriteAddress, TypeOK, RegisterOffset, Offset
<1>4. ASSUME NEW c \in Callers, ReadData(c)  PROVE TypeOK'
  BY <1>4 DEF ReadData, TypeOK
<1>5. ASSUME NEW c \in Callers, ReadOld(c)  PROVE TypeOK'
  <2>1. Merge(ReadIoPortDword(CONFIG_DATA, Latched), call[c]) \in Dword
    BY <1>5, ReadsLatched, CallType, MergeType DEF ReadOld, CallInv
  <2> QED
    BY <1>5, <2>1 DEF ReadOld, TypeOK
<1>6. ASSUME NEW c \in Callers, WriteData(c)  PROVE TypeOK'
  <2>1. WriteIoPort(CONFIG_DATA, value[c]) = value[c] /\ value[c] \in Dword
    BY ConfigDataType, WritePort DEF TypeOK, Dword
  <2>2. space' \in [Devices -> [Registers -> Dword]]
    BY <1>6, <2>1, WriteRegisterType DEF WriteData
  <2>3. disturbed' \in [Callers -> BOOLEAN]
    BY <1>6 DEF WriteData, WritesRegister, InFlight, Searching, TypeOK
  <2> QED
    BY <1>6, <2>2, <2>3 DEF WriteData, TypeOK
<1>7. ASSUME NEW c \in Callers, ReadPciConfig(c)  PROVE TypeOK'
  <2>1. IsCall(call[c]) /\ call[c].op # SearchOp
    BY <1>7, CallType DEF ReadPciConfig, CallInv, SearchOp
  <2>2. latch' \in [device : Slots, register : RegisterOffset]
    BY <1>7, <2>1, HalLatchType DEF ReadPciConfig, TypeOK, RegisterOffset, Offset
  <2>3. disturbed' \in [Callers -> BOOLEAN]
    BY <1>7 DEF ReadPciConfig, SetsLatch, InFlight, TypeOK
  <2> QED
    BY <1>7, <2>2, <2>3 DEF ReadPciConfig, TypeOK, RegisterOffset, Offset
<1>8. ASSUME NEW c \in Callers, WritePciConfig(c)  PROVE TypeOK'
  <2>1. IsCall(call[c]) /\ call[c].op = "WritePciConfig" /\ call[c].op # SearchOp
    BY <1>8, CallType DEF WritePciConfig, CallInv, SearchOp
  <2>2. latch' \in [device : Slots, register : RegisterOffset]
    BY <1>8, <2>1, HalLatchType DEF WritePciConfig, TypeOK, RegisterOffset, Offset
  <2>3. disturbed' \in [Callers -> BOOLEAN]
    BY <1>8 DEF WritePciConfig, SetsLatch, WritesRegister, InFlight, Searching,
                TypeOK
  <2>4. space' \in [Devices -> [Registers -> Dword]]
    BY <1>8, <2>1, HalMergeType, WriteRegisterType DEF WritePciConfig, TypeOK
  <2> QED
    BY <1>8, <2>2, <2>3, <2>4 DEF WritePciConfig, TypeOK, RegisterOffset, Offset
<1>9. ASSUME NEW c \in Callers, Search(c)  PROVE TypeOK'
  <2> DEFINE dword == ReadIoPortDword(CONFIG_DATA, Latched)
  <2>1. dword \in Dword
    BY ReadsLatched
  <2> HIDE DEF dword
  <2>2. cursor[c] \in Cursors
    BY DEF TypeOK
  <2>3. /\ ~Skip(cursor[c], dword) => Advance(cursor[c], dword) \in Cursors
        /\ ~Last(cursor[c]) => NextSlot(cursor[c]) \in Cursors
    BY <2>1, <2>2, AdvanceType, NextSlotType
  <2>4. cursor' \in [Callers -> Cursors]
    BY <1>9, <2>3 DEF Search, TypeOK, dword
  <2>5. pc' \in [Callers -> {"idle", "address", "data", "write", "request",
                             "returned"}]
    BY <1>9 DEF Search, TypeOK
  <2> QED
    BY <1>9, <2>4, <2>5 DEF Search, TypeOK
<1>10. ASSUME NEW c \in Callers, Return(c)  PROVE TypeOK'
  BY <1>10, OnesZeroType, NoCursorType DEF Return, TypeOK
<1> QED
  BY <1>1, <1>2, <1>3, <1>4, <1>5, <1>6, <1>7, <1>8, <1>9, <1>10 DEF Next, Step

\* A step of one caller keeps what CallInv says of it.
LEMMA CallStep ==
  ASSUME ConfigAssumption, TypeOK, CallInv, [Next]_vars
  PROVE  CallInv'
<1> USE DEF locals
<1>1. CASE UNCHANGED vars
  BY <1>1 DEF CallInv, vars
<1>2. ASSUME NEW c \in Callers, Begin(c) \/ Step(c)  PROVE CallInv'
  <2>1. DOMAIN pc = Callers /\ DOMAIN call = Callers
    BY DEF TypeOK
  <2>2. \A d \in Callers \ {c} : Untouched(d)
    BY <1>2, Frame
  <2> DEFINE Mine ==
        /\ pc'[c] = "idle" <=> call'[c] = NoCall
        /\ pc'[c] = "request" => call'[c].op \in {"ReadPciConfig", "WritePciConfig"}
        /\ pc'[c] \in {"address", "data"} =>
             call'[c].op \in {"GetRegisterData", "ReadPci", "WritePci", SearchOp}
        /\ pc'[c] = "write" => call'[c].op = "WritePci"
  <2> SUFFICES Mine
    BY <2>2 DEF CallInv, Untouched
  <2>3. CASE Begin(c)
    <3>1. PICK n \in Calls[c] :
            /\ call' = [call EXCEPT ![c] = n]
            /\ pc' = [pc EXCEPT ![c] =
                        IF n.op \in {"ReadPciConfig", "WritePciConfig"}
                        THEN "request" ELSE "address"]
      BY <2>3 DEF Begin
    <3>2. IsCall(n) /\ n # NoCall
      BY NoCallIsNone DEF ConfigAssumption
    <3>3. n.op \in {"GetRegisterData", "ReadPci", "WritePci", SearchOp,
                    "ReadPciConfig", "WritePciConfig"}
      BY <3>2 DEF IsCall, SearchOp, Reads, Writes
    <3> QED
      BY <2>1, <3>1, <3>2, <3>3
  <2>4. CASE WriteAddress(c)
    BY <2>1, <2>4 DEF WriteAddress, CallInv
  <2>5. CASE ReadData(c)
    BY <2>1, <2>5 DEF ReadData, CallInv
  <2>6. CASE ReadOld(c)
    BY <2>1, <2>6 DEF ReadOld, CallInv
  <2>7. CASE WriteData(c)
    BY <2>1, <2>7 DEF WriteData, CallInv
  <2>8. CASE ReadPciConfig(c)
    BY <2>1, <2>8 DEF ReadPciConfig, CallInv
  <2>9. CASE WritePciConfig(c)
    BY <2>1, <2>9 DEF WritePciConfig, CallInv
  <2>10. CASE Search(c)
    BY <2>1, <2>10 DEF Search, CallInv
  <2>11. CASE Return(c)
    BY <2>1, <2>11 DEF Return
  <2> QED
    BY <1>2, <2>3, <2>4, <2>5, <2>6, <2>7, <2>8, <2>9, <2>10, <2>11 DEF Step
<1> QED
  BY <1>1, <1>2 DEF Next

\* Every variable keeps its type, and the requests of a call its order.
LEMMA TypesHold == ASSUME ConfigAssumption PROVE Spec => [](TypeOK /\ CallInv)
<1>1. Init => TypeOK /\ CallInv
  BY InitTyped
<1>2. TypeOK /\ CallInv /\ [Next]_vars => (TypeOK /\ CallInv)'
  BY TypeStep, CallStep
<1> QED
  BY <1>1, <1>2, PTL DEF Spec

\* Every variable holds a value of its type: what is read of a device and
\* what is written to it are always whole double words, and a search never
\* leaves the slots of the bus.
THEOREM TypeCorrect == Spec => []TypeOK
BY ConfigAssumption, TypesHold, PTL

-----------------------------------------------------------------------------
(* Between the requests of an access. *)

\* While no other caller's request comes between, CONFIG_ADDRESS holds what
\* the access wrote there, and the value it will write back is the register
\* with its own bytes put in.
LatchInv ==
  \A c \in Callers :
    InFlight(c) /\ ~disturbed[c] =>
      /\ latch = [device |-> Target(c).device, register |-> Reg(Target(c).offset)]
      /\ pc[c] = "write" =>
           value[c] = Merge(Register(latch.device, latch.register), call[c])

\* A step leaves the latch and the registers alone, or every access of
\* another caller that is between its requests is disturbed.
LEMMA Disturbs ==
  ASSUME TypeOK, NEW c \in Callers, Begin(c) \/ Step(c)
  PROVE  /\ \A d \in Callers \ {c} : disturbed[d] => disturbed'[d]
         /\ \/ UNCHANGED <<space, latch>>
            \/ \A d \in Callers \ {c} : InFlight(d) => disturbed'[d]
<1>1. DOMAIN disturbed = Callers
  BY DEF TypeOK
<1>2. CASE Begin(c)
  BY <1>2 DEF Begin
<1>3. CASE WriteAddress(c)
  BY <1>3 DEF WriteAddress, SetsLatch
<1>4. CASE ReadData(c)
  BY <1>4 DEF ReadData
<1>5. CASE ReadOld(c)
  BY <1>5 DEF ReadOld
<1>6. CASE WriteData(c)
  BY <1>6 DEF WriteData, WritesRegister
<1>7. CASE ReadPciConfig(c)
  BY <1>7 DEF ReadPciConfig, SetsLatch
<1>8. CASE WritePciConfig(c)
  BY <1>8 DEF WritePciConfig, SetsLatch, WritesRegister
<1>9. CASE Search(c)
  BY <1>9 DEF Search
<1>10. CASE Return(c)
  BY <1>1, <1>10 DEF Return
<1> QED
  BY <1>2, <1>3, <1>4, <1>5, <1>6, <1>7, <1>8, <1>9, <1>10 DEF Step

\* The only steps after which their own caller is between requests.
LEMMA StaysInFlight ==
  ASSUME TypeOK, NEW c \in Callers, Begin(c) \/ Step(c), InFlight(c)'
  PROVE  WriteAddress(c) \/ ReadOld(c)
<1>1. DOMAIN pc = Callers
  BY DEF TypeOK
<1>2. CASE Begin(c)
  BY <1>1, <1>2 DEF Begin, InFlight
<1>3. CASE ReadData(c)
  BY <1>1, <1>3 DEF ReadData, InFlight
<1>4. CASE WriteData(c)
  BY <1>1, <1>4 DEF WriteData, InFlight
<1>5. CASE ReadPciConfig(c)
  BY <1>1, <1>5 DEF ReadPciConfig, InFlight
<1>6. CASE WritePciConfig(c)
  BY <1>1, <1>6 DEF WritePciConfig, InFlight
<1>7. CASE Search(c)
  BY <1>1, <1>7 DEF Search, InFlight
<1>8. CASE Return(c)
  BY <1>1, <1>8 DEF Return, InFlight
<1> QED
  BY <1>2, <1>3, <1>4, <1>5, <1>6, <1>7, <1>8 DEF Step

LEMMA LatchStep ==
  ASSUME TypeOK, CallInv, LatchInv, [Next]_vars
  PROVE  LatchInv'
<1>1. CASE UNCHANGED vars
  BY <1>1 DEF LatchInv, InFlight, Target, Searching, Register, vars, locals
<1>2. ASSUME NEW c \in Callers, Begin(c) \/ Step(c),
             NEW d \in Callers, InFlight(d)', ~disturbed'[d]
      PROVE  /\ latch' = [device |-> Target(d)'.device,
                          register |-> Reg(Target(d)'.offset)]
             /\ pc'[d] = "write" =>
                  value'[d] = Merge(Register(latch.device, latch.register)',
                                    call'[d])
  <2>1. CASE d # c
    <3>1. Untouched(d) /\ InFlight(d)
      BY <1>2, <2>1, Frame DEF Untouched, InFlight
    <3>2. ~disturbed[d] /\ UNCHANGED <<space, latch>>
      BY <1>2, <2>1, <3>1, Disturbs
    <3>3. Target(d)' = Target(d)
      BY <3>1 DEF Target, Searching, Untouched
    <3>4. Register(latch.device, latch.register)' =
            Register(latch.device, latch.register)
      BY <3>2 DEF Register
    <3> QED
      BY <3>1, <3>2, <3>3, <3>4 DEF LatchInv, Untouched
  <2>2. CASE d = c /\ WriteAddress(c)
    <3>1. Target(c)' = Target(c)
      BY <2>2 DEF WriteAddress, locals, Target, Searching
    <3>2. pc'[c] = "data"
      BY <2>2 DEF WriteAddress, TypeOK
    <3> QED
      BY <2>2, <3>1, <3>2 DEF WriteAddress
  <2>3. CASE d = c /\ ReadOld(c)
    <3>1. Target(c)' = Target(c)
      BY <2>3 DEF ReadOld, Target, Searching
    <3>2. InFlight(c) /\ ~disturbed[c]
      BY <1>2, <2>3 DEF ReadOld, InFlight
    <3>3. value'[c] = Merge(Latched, call[c])
      BY <2>3, ReadsLatched DEF ReadOld, TypeOK
    <3>4. Latched = Register(latch.device, latch.register)'
      BY <2>3 DEF ReadOld, Latched, Register
    <3> QED
      BY <2>3, <3>1, <3>2, <3>3, <3>4 DEF ReadOld, LatchInv
  <2> QED
    BY <1>2, <2>1, <2>2, <2>3, StaysInFlight
<1>3. CASE Next
  BY <1>2, <1>3 DEF Next, LatchInv
<1> QED
  BY <1>1, <1>3

LEMMA InvariantsHold ==
  ASSUME ConfigAssumption
  PROVE  Spec => [](TypeOK /\ CallInv /\ LatchInv)
<1>1. Init => TypeOK /\ CallInv /\ LatchInv
  <2>1. Init => LatchInv
    BY DEF Init, LatchInv, InFlight
  <2> QED
    BY <2>1, InitTyped
<1>2. TypeOK /\ CallInv /\ LatchInv /\ [Next]_vars
        => (TypeOK /\ CallInv /\ LatchInv)'
  BY TypeStep, CallStep, LatchStep
<1> QED
  BY <1>1, <1>2, PTL DEF Spec

-----------------------------------------------------------------------------
(* Registers and bytes. *)

LEMMA SameNames ==
  /\ Space!Places = Places
  /\ \A o : Space!Reg(o) = Reg(o) /\ Space!Div(o) = Div(o)
BY DEF Space!Places, Space!Reg, Space!Div, Places, Reg, Div

LEMMA PlacesType ==
  ASSUME NEW o \in Places
  PROVE  /\ o \in Offset /\ Reg(o) \in Registers /\ Reg(o) \in RegisterOffset
         /\ Div(o) \in 0 .. 3 /\ o = Reg(o) + Div(o)
BY RegDiv DEF Places, Offset

\* The bytes of a register, one by one.
LEMMA BytesOfRegister ==
  ASSUME NEW d, NEW r \in RegisterOffset, NEW k \in 1 .. 4
  PROVE  Space!ByteAt(d, r + k - 1) = Register(d, r)[k]
<1> DEFINE o == r + (k - 1)
<1>1. o \in Offset /\ Reg(o) = r /\ Div(o) = k - 1 /\ o = r + k - 1
  BY RegOfSum, k - 1 \in 0 .. 3 DEF RegisterOffset, Offset
<1> HIDE DEF o
<1>2. CASE d \notin Devices
  BY <1>1, <1>2, OnesZeroType DEF Space!ByteAt, Register
<1>3. CASE d \in Devices /\ r \notin Registers
  BY <1>1, <1>3, SameNames, OnesZeroType DEF Space!ByteAt, Register, Places, Offset
<1>4. CASE d \in Devices /\ r \in Registers
  <2>1. o \in Places
    BY <1>1, <1>4 DEF Places, Offset
  <2>2. bytes[d][o] = space[d][r][k]
    BY <1>1, <1>4, <2>1 DEF bytes
  <2> QED
    BY <1>1, <1>4, <2>1, <2>2, SameNames DEF Space!ByteAt, Register
<1> QED
  BY <1>2, <1>3, <1>4

\* Aligned bytes lie in one double word.
LEMMA AlignedInOne ==
  ASSUME NEW o \in Offset, NEW size \in {1, 2, 4}
  PROVE  /\ o % size = 0 => Div(o) + size <= 4
         /\ size = 2 => (o % size = 0 <=> Div(o) \notin {1, 3})
         /\ size = 1 => o % size = 0
<1>1. CASE size = 1
  BY <1>1 DEF Div, Offset
<1>2. CASE size = 2
  BY <1>2 DEF Div, Offset
<1>3. CASE size = 4
  BY <1>3 DEF Div, Offset
<1> QED
  BY <1>1, <1>2, <1>3

LEMMA Shift ==
  ASSUME NEW p \in Int, NEW r \in Int, NEW d \in 0 .. 3, NEW size \in {1, 2, 4},
         NEW q \in p .. p + size - 1, p = r + d, d + size <= 4
  PROVE  d + (q - p) \in 0 .. 3 /\ q = r + (d + (q - p))
OBVIOUS

LEMMA InDoubleWord ==
  ASSUME NEW p \in Offset, NEW size \in {1, 2, 4}, Div(p) + size <= 4,
         NEW q \in p .. p + size - 1
  PROVE  Reg(q) = Reg(p)
<1>1. Reg(p) \in RegisterOffset /\ Div(p) \in 0 .. 3 /\ p = Reg(p) + Div(p)
  BY RegDiv
<1>2. PICK j \in 0 .. 3 : q = Reg(p) + j
  <2>1. p \in Int /\ Reg(p) \in Int
    BY <1>1 DEF RegisterOffset, Offset
  <2> QED
    BY <1>1, <2>1, Shift
<1>3. Reg(Reg(p) + j) = Reg(p)
  BY <1>1, RegOfSum
<1> QED
  BY <1>2, <1>3

LEMMA Distance ==
  ASSUME NEW p \in Offset, NEW q \in Offset, Reg(q) = Reg(p)
  PROVE  Div(q) - Div(p) = q - p
BY DEF Reg, Div, Offset

-----------------------------------------------------------------------------
(* The answers of reads. *)

LEMMA RegisterDataRight ==
  ASSUME TypeOK, NEW n, IsCall(n), n.op = "GetRegisterData"
  PROVE  Space!RegisterData(n) =
           [k \in 1 .. n.size |-> Register(n.device, Reg(n.offset))[k]]
<1>1. n.offset \in Offset /\ n.size \in {1, 2, 4}
  BY AccessType DEF SearchOp
<1>2. Reg(n.offset) \in RegisterOffset
  BY <1>1, RegDiv
<1>3. ASSUME NEW k \in 1 .. n.size
      PROVE  Space!ByteAt(n.device, Space!Reg(n.offset) + k - 1) =
               Register(n.device, Reg(n.offset))[k]
  BY <1>1, <1>2, k \in 1 .. 4, BytesOfRegister, SameNames
<1> QED
  BY <1>3 DEF Space!RegisterData

LEMMA PciDataRight ==
  ASSUME TypeOK, NEW n, IsCall(n), n.op = "ReadPci"
  PROVE  Space!PciData(n) =
           Shifted(Register(n.device, Reg(n.offset)), Div(n.offset), n.size)
<1>1. n.offset \in Offset /\ n.size \in {1, 2, 4}
  BY AccessType DEF SearchOp
<1>2. /\ Reg(n.offset) \in RegisterOffset /\ Div(n.offset) \in 0 .. 3
      /\ n.offset = Reg(n.offset) + Div(n.offset)
  BY <1>1, RegDiv
<1>3. ASSUME NEW k \in 1 .. n.size, ~(Div(n.offset) + k > 4)
      PROVE  Space!ByteAt(n.device, n.offset + k - 1) =
               Register(n.device, Reg(n.offset))[Div(n.offset) + k]
  <2>1. Div(n.offset) + k \in 1 .. 4
    BY <1>1, <1>2, <1>3
  <2>2. n.offset + k - 1 = Reg(n.offset) + (Div(n.offset) + k) - 1
    BY <1>1, <1>2 DEF RegisterOffset, Offset
  <2> QED
    BY <1>2, <2>1, <2>2, BytesOfRegister
<1> QED
  BY <1>3, SameNames DEF Space!PciData, Shifted

LEMMA ConfigDataRight ==
  ASSUME TypeOK, NEW n, IsCall(n), n.op = "ReadPciConfig"
  PROVE  Space!ConfigData(n) =
           IF Aligned(n) /\ (n.device \in Devices \/ n.size = 2)
           THEN HalData(n) ELSE OnesOf(n.size)
<1>1. n.offset \in Offset /\ n.size \in {1, 2, 4}
  BY AccessType DEF SearchOp
<1>2. /\ Reg(n.offset) \in RegisterOffset /\ Div(n.offset) \in 0 .. 3
      /\ n.offset = Reg(n.offset) + Div(n.offset)
  BY <1>1, RegDiv
<1>3. Space!Aligned(n) <=> Aligned(n)
  BY DEF Space!Aligned, Aligned
<1>4. ASSUME NEW k \in 1 .. n.size, Aligned(n)
      PROVE  Space!ByteAt(n.device, n.offset + k - 1) =
               Register(n.device, Reg(n.offset))[Div(n.offset) + k]
  <2>1. Div(n.offset) + k \in 1 .. 4
    BY <1>1, <1>2, <1>4, AlignedInOne DEF Aligned
  <2>2. n.offset + k - 1 = Reg(n.offset) + (Div(n.offset) + k) - 1
    BY <1>1, <1>2 DEF RegisterOffset, Offset
  <2> QED
    BY <1>2, <2>1, <2>2, BytesOfRegister
<1>5. CASE ~Aligned(n)
  BY <1>3, <1>5 DEF Space!ConfigData, OnesOf
<1>6. CASE Aligned(n) /\ (n.device \in Devices \/ n.size = 2)
  BY <1>3, <1>4, <1>6 DEF Space!ConfigData, HalData
<1>7. CASE Aligned(n) /\ n.device \notin Devices
  <2>1. ASSUME NEW k \in 1 .. n.size
        PROVE  Space!ByteAt(n.device, n.offset + k - 1) = 255
    BY <1>7 DEF Space!ByteAt
  <2>2. Space!ConfigData(n) = OnesOf(n.size)
    BY <1>3, <1>7, <2>1 DEF Space!ConfigData, OnesOf
  <2> QED
    BY <1>6, <1>7, <2>2
<1> QED
  BY <1>5, <1>6, <1>7

-----------------------------------------------------------------------------
(* The effect of writes. *)

LEMMA BytesShape ==
  bytes' = [e \in Devices |-> [o \in Places |-> bytes'[e][o]]]
BY DEF bytes

LEMMA BytesUnchanged == ASSUME UNCHANGED space PROVE UNCHANGED bytes
BY DEF bytes

\* Writing a register changes its four bytes and no other.
LEMMA BytesOfWrite ==
  ASSUME TypeOK, NEW d, NEW r \in RegisterOffset, NEW dword \in Dword,
         WriteRegister(d, r, dword)
  PROVE  \A e \in Devices, o \in Places :
           bytes'[e][o] = IF Writable(d, r) /\ e = d /\ Reg(o) = r
                          THEN dword[Div(o) + 1] ELSE bytes[e][o]
<1>1. ASSUME NEW e \in Devices, NEW o \in Places
      PROVE  space'[e][Reg(o)] =
               IF Writable(d, r) /\ e = d /\ Reg(o) = r
               THEN dword ELSE space[e][Reg(o)]
  <2>1. Reg(o) \in Registers
    BY PlacesType
  <2> QED
    BY <2>1 DEF WriteRegister, TypeOK, Writable
<1> QED
  BY <1>1 DEF bytes

\* A double word with aligned bytes put in is the effect ConfigSpace states.
LEMMA PutBytes ==
  ASSUME ConfigAssumption, TypeOK, NEW n, IsCall(n), n.op \in Writes, Aligned(n),
         NEW dword \in Dword,
         \A k \in 1 .. 4 :
           dword[k] = IF k - 1 - Div(n.offset) \in 0 .. n.size - 1
                      THEN n.value[k - Div(n.offset)]
                      ELSE Register(n.device, Reg(n.offset))[k],
         WriteRegister(n.device, Reg(n.offset), dword)
  PROVE  bytes' = Space!Written(n)
<1>1. n.offset \in Offset /\ n.size \in {1, 2, 4}
  BY AccessType DEF Writes, SearchOp
<1>0. PICK v : v = n.value
  OBVIOUS
<1>2. PICK p \in Offset, size \in {1, 2, 4} : p = n.offset /\ size = n.size
  BY <1>1
<1>3. Reg(p) \in RegisterOffset /\ Div(p) + size <= 4
  BY <1>2, RegDiv, AlignedInOne DEF Aligned
<1>4. PICK r \in RegisterOffset, d \in {n.device} : r = Reg(p)
  BY <1>3
<1> DEFINE Hit(e, o) == Writable(d, r) /\ e = d /\ Reg(o) = r
<1>5. \A e \in Devices, o \in Places :
        bytes'[e][o] = IF Hit(e, o) THEN dword[Div(o) + 1] ELSE bytes[e][o]
  <2>1. WriteRegister(d, r, dword)
    BY <1>2, <1>4
  <2> QED
    BY <1>4, <2>1, BytesOfWrite
<1>6. ASSUME NEW e \in Devices, NEW o \in Places
      PROVE  bytes'[e][o] = IF Space!Covers(n, e, o) THEN v[o - p + 1]
                            ELSE bytes[e][o]
  <2>1. o \in Offset /\ Reg(o) \in Registers /\ Div(o) \in 0 .. 3
    BY PlacesType
  <2>2. Space!Covers(n, e, o) <=>
          e = d /\ o \in p .. p + size - 1 /\ <<e, Reg(o)>> \notin ReadOnly
    BY <1>2, <1>4, SameNames DEF Space!Covers, Space!Aligned, Aligned
  <2>3. o \in p .. p + size - 1 => Reg(o) = r
    BY <1>3, <1>4, InDoubleWord
  <2>4. CASE ~Hit(e, o)
    <3>1. ~Space!Covers(n, e, o)
      BY <2>1, <2>2, <2>3, <2>4 DEF Writable
    <3> QED
      BY <1>5, <2>4, <3>1
  <2>5. CASE Hit(e, o)
    <3>1. PICK k \in 1 .. 4 : k = Div(o) + 1
      BY <2>1
    <3>2. PICK old : old = bytes[e][o]
      OBVIOUS
    <3>3. dword[k] = IF k - 1 - Div(p) \in 0 .. size - 1
                     THEN v[k - Div(p)] ELSE old
      <4>1. Register(d, r)[k] = old
        BY <2>1, <2>5, <3>1, <3>2 DEF Register, Writable, bytes
      <4> QED
        BY <1>0, <1>2, <1>4, <4>1
    <3>4. dword[k] = IF o \in p .. p + size - 1 THEN v[o - p + 1] ELSE old
      <4>1. Div(o) - Div(p) = o - p /\ Div(o) \in Int /\ Div(p) \in Int
        BY <1>4, <2>1, <2>5, RegDiv, Distance
      <4>2. k - 1 - Div(p) = o - p /\ k - Div(p) = o - p + 1
        BY <3>1, <4>1
      <4>3. o - p \in 0 .. size - 1 <=> o \in p .. p + size - 1
        BY <2>1 DEF Offset
      <4> QED
        BY <3>3, <4>2, <4>3
    <3>5. Space!Covers(n, e, o) <=> o \in p .. p + size - 1
      BY <2>2, <2>5 DEF Writable
    <3> QED
      BY <1>5, <2>5, <3>1, <3>2, <3>4, <3>5
  <2> QED
    BY <2>4, <2>5
<1>7. Space!Written(n) = [e \in Devices |-> [o \in Places |->
        IF Space!Covers(n, e, o) THEN v[o - p + 1] ELSE bytes[e][o]]]
  BY <1>0, <1>2, SameNames DEF Space!Written
<1> QED
  BY <1>6, <1>7, BytesShape

\* A word at an odd offset is written back as it was.
LEMMA PutNothing ==
  ASSUME TypeOK, NEW n, IsCall(n), n.op \in Writes, ~Aligned(n),
         WriteRegister(n.device, Reg(n.offset),
                       Register(n.device, Reg(n.offset)))
  PROVE  bytes' = Space!Written(n)
<1>1. n.offset \in Offset /\ Reg(n.offset) \in RegisterOffset
  BY AccessType, RegDiv DEF Writes, SearchOp
<1>2. \A e \in Devices, o \in Places : bytes'[e][o] = bytes[e][o]
  <2>1. ASSUME NEW e \in Devices, NEW o \in Places,
               e = n.device, Reg(o) = Reg(n.offset)
        PROVE  Register(n.device, Reg(n.offset))[Div(o) + 1] = bytes[e][o]
    BY <2>1, PlacesType DEF Register, bytes
  <2> QED
    BY <1>1, <2>1, BytesOfWrite, RegisterType
<1>3. \A d, o : ~Space!Covers(n, d, o)
  BY DEF Space!Covers, Space!Aligned, Aligned
<1> QED
  BY <1>2, <1>3, BytesShape, SameNames DEF Space!Written

\* Whatever is written to whichever register, it is one double word.
LEMMA WritesOneDoubleWord ==
  ASSUME TypeOK, NEW d, NEW r \in RegisterOffset, NEW dword \in Dword,
         WriteRegister(d, r, dword)
  PROVE  Space!OneDoubleWord
<1>1. \A e \in Devices, o \in Places :
        bytes'[e][o] = IF Writable(d, r) /\ e = d /\ Reg(o) = r
                       THEN dword[Div(o) + 1] ELSE bytes[e][o]
  BY BytesOfWrite
<1>2. bytes' \in Space!AllBytes
  <2>1. ASSUME NEW e \in Devices, NEW o \in Places
        PROVE  bytes[e][o] \in 0 .. 255 /\ dword[Div(o) + 1] \in 0 .. 255
    <3>1. space[e][Reg(o)] \in Dword /\ Div(o) + 1 \in 1 .. 4
      BY PlacesType DEF TypeOK
    <3> QED
      BY <3>1 DEF bytes, Dword, Bytes, Byte
  <2> QED
    BY <1>1, <2>1, BytesShape, SameNames DEF Space!AllBytes
<1>3. ASSUME NEW e \in Devices, NEW o \in Places, bytes'[e][o] # bytes[e][o]
      PROVE  e = d /\ Reg(o) = r
  BY <1>1, <1>3
<1> QED
  BY <1>2, <1>3, SameNames DEF Space!OneDoubleWord

-----------------------------------------------------------------------------
(* The contract of ConfigSpace is kept: every step is one of its steps.    *)

\* What the steps of a call share.
LEMMA Serves ==
  ASSUME TypeOK, CallInv, NEW c \in Callers,
         pc[c] \notin {"idle", "returned"},
         pc' = [pc EXCEPT ![c] = "returned"],
         UNCHANGED call,
         \A d \in Callers \ {c} : answer'[d] = answer[d],
         Space!DisturbsOthers(c)
  PROVE  Space!Serve(c)
<1>1. call[c] # NoCall /\ ~served[c]
  BY DEF CallInv, served
<1>2. served' = [served EXCEPT ![c] = TRUE]
  BY DEF TypeOK, served
<1> QED
  BY <1>1, <1>2 DEF Space!Serve, Space!Others

LEMMA SetsLatchDisturbs ==
  ASSUME TypeOK, NEW c \in Callers,
         SetsLatch(c) \/ WritesRegister(c) \/ UNCHANGED disturbed
  PROVE  Space!DisturbsOthers(c)
BY DEF TypeOK, SetsLatch, WritesRegister, InFlight, Searching,
       Space!DisturbsOthers

LEMMA BeginRefines ==
  ASSUME TypeOK, CallInv, NEW c \in Callers, Begin(c)
  PROVE  Space!Begin(c)
<1>1. call[c] = NoCall
  BY DEF Begin, CallInv
<1>2. UNCHANGED served
  BY DEF Begin, TypeOK, served
<1>3. UNCHANGED bytes
  BY BytesUnchanged DEF Begin
<1> QED
  BY <1>1, <1>2, <1>3 DEF Begin, Space!Begin

LEMMA WriteAddressRefines ==
  ASSUME TypeOK, NEW c \in Callers, WriteAddress(c)
  PROVE  Space!Between(c)
<1>1. UNCHANGED served
  BY DEF WriteAddress, TypeOK, served
<1>2. UNCHANGED bytes
  BY BytesUnchanged DEF WriteAddress
<1>3. Space!DisturbsOthers(c)
  BY SetsLatchDisturbs DEF WriteAddress
<1> QED
  BY <1>1, <1>2, <1>3 DEF WriteAddress, Space!Between

LEMMA ReadOldRefines ==
  ASSUME TypeOK, NEW c \in Callers, ReadOld(c)
  PROVE  Space!Between(c)
<1>1. UNCHANGED served
  BY DEF ReadOld, TypeOK, served
<1>2. UNCHANGED bytes
  BY BytesUnchanged DEF ReadOld
<1>3. Space!DisturbsOthers(c)
  BY SetsLatchDisturbs DEF ReadOld
<1> QED
  BY <1>1, <1>2, <1>3 DEF ReadOld, Space!Between

LEMMA SearchRefines ==
  ASSUME TypeOK, CallInv, NEW c \in Callers, Search(c)
  PROVE  Space!Between(c) \/ Space!Search(c)
<1>1. UNCHANGED bytes
  BY BytesUnchanged DEF Search
<1>2. Space!DisturbsOthers(c)
  BY SetsLatchDisturbs DEF Search
<1>3. CASE pc' = [pc EXCEPT ![c] = "returned"]
  <2>1. Space!Serve(c)
    BY <1>2, <1>3, Serves DEF Search
  <2> QED
    BY <1>1, <2>1 DEF Search, Searching, Space!Search
<1>4. CASE pc' = [pc EXCEPT ![c] = "address"]
  <2>1. UNCHANGED served
    BY <1>4 DEF Search, TypeOK, served
  <2> QED
    BY <1>1, <1>2, <2>1 DEF Search, Space!Between
<1> QED
  BY <1>3, <1>4 DEF Search

\* An access whose own requests nothing came between reads the register it
\* asked for.
LEMMA LatchedIsAsked ==
  ASSUME LatchInv, NEW c \in Callers, InFlight(c), ~disturbed[c],
         ~Searching(c)
  PROVE  /\ latch.device = call[c].device
         /\ latch.register = Reg(call[c].offset)
         /\ Latched = Register(call[c].device, Reg(call[c].offset))
BY DEF LatchInv, Target, Latched

LEMMA ReadDataRefines ==
  ASSUME ConfigAssumption, TypeOK, CallInv, LatchInv,
         NEW c \in Callers, ReadData(c)
  PROVE  Space!Read(c)
<1>1. Space!Serve(c)
  <2>1. Space!DisturbsOthers(c)
    BY SetsLatchDisturbs DEF ReadData
  <2> QED
    BY <2>1, Serves DEF ReadData, TypeOK
<1>2. UNCHANGED bytes
  BY BytesUnchanged DEF ReadData
<1>3. IsCall(call[c]) /\ answer'[c] = Got(c)
  BY CallType DEF ReadData, CallInv, TypeOK
<1>4. ASSUME ~disturbed[c]  PROVE Got(c) = Space!Right(call[c])
  <2>1. Latched = Register(call[c].device, Reg(call[c].offset))
    BY <1>4, LatchedIsAsked DEF ReadData, InFlight, Searching
  <2>2. /\ ReadIoPortDword(CONFIG_DATA, Latched) = Latched
        /\ ReadIoPortWord(CONFIG_DATA, Latched) = [k \in 1 .. 2 |-> Latched[k]]
        /\ Latched = [k \in 1 .. 4 |-> Latched[k]]
    BY ReadsLatched DEF Dword, Bytes
  <2>3. CASE call[c].op = "GetRegisterData"
    <3>1. Space!RegisterData(call[c]) = [k \in 1 .. call[c].size |-> Latched[k]]
      BY <1>3, <2>1, <2>3, RegisterDataRight
    <3>2. call[c].size \in {2, 4}
      BY <1>3, <2>3, AccessType DEF Sizes, SearchOp
    <3>3. Got(c) = [k \in 1 .. call[c].size |-> Latched[k]]
      BY <2>2, <2>3, <3>2 DEF Got
    <3> QED
      BY <2>3, <3>1, <3>3 DEF Space!Right
  <2>4. CASE call[c].op = "ReadPci"
    <3>1. Space!PciData(call[c]) =
            Shifted(Latched, Div(call[c].offset), call[c].size)
      BY <1>3, <2>1, <2>4, PciDataRight
    <3> QED
      BY <2>2, <2>4, <3>1 DEF Space!Right, Got
  <2> QED
    BY <2>3, <2>4 DEF ReadData
<1> QED
  BY <1>1, <1>2, <1>3, <1>4 DEF ReadData, Space!Read

LEMMA ReadPciConfigRefines ==
  ASSUME ConfigAssumption, TypeOK, CallInv, NEW c \in Callers, ReadPciConfig(c)
  PROVE  Space!Read(c)
<1>1. Space!Serve(c)
  <2>1. Space!DisturbsOthers(c)
    BY SetsLatchDisturbs DEF ReadPciConfig
  <2> QED
    BY <2>1, Serves DEF ReadPciConfig, TypeOK
<1>2. UNCHANGED bytes
  BY BytesUnchanged DEF ReadPciConfig
<1>3. IsCall(call[c])
  BY CallType DEF ReadPciConfig, CallInv
<1>4. answer'[c] = Space!ConfigData(call[c])
  BY <1>3, ConfigDataRight DEF ReadPciConfig, TypeOK
<1> QED
  BY <1>1, <1>2, <1>4 DEF ReadPciConfig, Space!Read, Space!Right

LEMMA WriteDataRefines ==
  ASSUME ConfigAssumption, TypeOK, CallInv, LatchInv,
         NEW c \in Callers, WriteData(c)
  PROVE  Space!Write(c)
<1>1. Space!Serve(c)
  <2>1. Space!DisturbsOthers(c)
    BY SetsLatchDisturbs DEF WriteData
  <2> QED
    BY <2>1, Serves DEF WriteData, TypeOK
<1>2. IsCall(call[c]) /\ call[c].op = "WritePci"
  BY CallType DEF WriteData, CallInv
<1>3. value[c] \in Dword /\ latch.register \in RegisterOffset
  BY DEF TypeOK, RegisterOffset, Offset
<1>4. WriteRegister(latch.device, latch.register, value[c])
  BY <1>3, ConfigDataType, WritePort DEF WriteData, Dword
<1>5. CASE disturbed[c]
  BY <1>1, <1>2, <1>3, <1>4, <1>5, WritesOneDoubleWord DEF Space!Write
<1>6. CASE ~disturbed[c]
  <2>1. PICK n : n = call[c]
    OBVIOUS
  <2>2. /\ latch.device = n.device /\ latch.register = Reg(n.offset)
        /\ value[c] = Merge(Register(n.device, Reg(n.offset)), n)
    BY <1>2, <1>6, <2>1, LatchedIsAsked
       DEF WriteData, InFlight, Searching, LatchInv
  <2>3. IsCall(n) /\ n.op = "WritePci" /\ n.op \in Writes
        /\ n.offset \in Offset /\ n.size \in {1, 2}
    BY <1>2, <2>1, AccessType DEF Writes, SearchOp, Sizes
  <2>4. Aligned(n) <=> ~(n.size = 2 /\ Div(n.offset) \in {1, 3})
    BY <2>3, AlignedInOne DEF Aligned
  <2>5. CASE Aligned(n)
    <3>1. \A k \in 1 .. 4 :
            value[c][k] = IF k - 1 - Div(n.offset) \in 0 .. n.size - 1
                          THEN n.value[k - Div(n.offset)]
                          ELSE Register(n.device, Reg(n.offset))[k]
      BY <2>2, <2>4, <2>5 DEF Merge
    <3>2. WriteRegister(n.device, Reg(n.offset), value[c])
      BY <1>4, <2>2
    <3>3. bytes' = Space!Written(n)
      BY <1>3, <2>3, <2>5, <3>1, <3>2, PutBytes
    <3> QED
      BY <1>1, <1>2, <2>1, <3>3 DEF Space!Write
  <2>6. CASE ~Aligned(n)
    <3>1. WriteRegister(n.device, Reg(n.offset),
                        Register(n.device, Reg(n.offset)))
      BY <1>4, <2>2, <2>4, <2>6 DEF Merge
    <3>2. bytes' = Space!Written(n)
      BY <2>3, <2>6, <3>1, PutNothing
    <3> QED
      BY <1>1, <1>2, <2>1, <3>2 DEF Space!Write
  <2> QED
    BY <2>5, <2>6
<1> QED
  BY <1>5, <1>6

LEMMA WritePciConfigRefines ==
  ASSUME ConfigAssumption, TypeOK, CallInv, NEW c \in Callers, WritePciConfig(c)
  PROVE  Space!Write(c)
<1>1. Space!Serve(c)
  <2>1. Space!DisturbsOthers(c)
    BY SetsLatchDisturbs DEF WritePciConfig
  <2> QED
    BY <2>1, Serves DEF WritePciConfig, TypeOK
<1>2. IsCall(call[c]) /\ call[c].op = "WritePciConfig"
  BY CallType DEF WritePciConfig, CallInv
<1>3. CASE UNCHANGED space /\ answer' = [answer EXCEPT ![c] = <<0>>]
  <2>1. UNCHANGED bytes /\ answer'[c] = <<0>>
    BY <1>3, BytesUnchanged DEF TypeOK
  <2> QED
    BY <1>1, <1>2, <2>1 DEF Space!Write
<1>4. CASE /\ Aligned(call[c])
           /\ WriteRegister(call[c].device, Reg(call[c].offset),
                            HalMerge(call[c]))
  <2>1. PICK n : n = call[c]
    OBVIOUS
  <2>2. PICK dword \in Dword : dword = HalMerge(n)
    BY <1>2, <2>1, HalMergeType
  <2>3. \A k \in 1 .. 4 :
          dword[k] = IF k - 1 - Div(n.offset) \in 0 .. n.size - 1
                     THEN n.value[k - Div(n.offset)]
                     ELSE Register(n.device, Reg(n.offset))[k]
    BY <2>2 DEF HalMerge
  <2>4. IsCall(n) /\ n.op \in Writes /\ Aligned(n)
        /\ WriteRegister(n.device, Reg(n.offset), dword)
    BY <1>2, <1>4, <2>1, <2>2 DEF Writes
  <2>5. bytes' = Space!Written(n)
    BY <2>3, <2>4, PutBytes
  <2> QED
    BY <1>1, <1>2, <2>1, <2>5 DEF Space!Write
<1> QED
  BY <1>3, <1>4 DEF WritePciConfig

LEMMA ReturnRefines ==
  ASSUME TypeOK, NEW c \in Callers, Return(c)
  PROVE  Space!Return(c)
<1>1. served[c] /\ served' = [served EXCEPT ![c] = FALSE]
  BY DEF Return, TypeOK, served
<1>2. UNCHANGED bytes
  BY BytesUnchanged DEF Return
<1>3. Space!Others(c)
  BY DEF Return, Space!Others
<1> QED
  BY <1>1, <1>2, <1>3 DEF Return, Space!Return

LEMMA InitRefines ==
  ASSUME ConfigAssumption, Init
  PROVE  Space!Init
<1>1. bytes \in Space!AllBytes
  <2>1. \A d \in Devices, r \in Registers : space[d][r] \in Dword
    BY InitTyped DEF TypeOK
  <2>2. ASSUME NEW d \in Devices, NEW o \in Places
        PROVE  space[d][Reg(o)][Div(o) + 1] \in 0 .. 255
    <3>1. space[d][Reg(o)] \in Dword /\ Div(o) + 1 \in 1 .. 4
      <4>1. Reg(o) \in Registers /\ Div(o) \in 0 .. 3
        BY PlacesType, Zenon
      <4>2. Div(o) + 1 \in 1 .. 4
        BY <4>1
      <4>3. space[d][Reg(o)] \in Dword
        BY <2>1, <4>1
      <4> QED
        BY <4>2, <4>3
    <3> QED
      BY <3>1 DEF Dword, Bytes, Byte
  <2> QED
    BY <2>2, SameNames DEF bytes, Space!AllBytes
<1>2. served = [c \in Callers |-> FALSE]
  BY DEF Init, served
<1> QED
  BY <1>1, <1>2 DEF Init, Space!Init

LEMMA NextRefines ==
  ASSUME ConfigAssumption, TypeOK, CallInv, LatchInv, [Next]_vars
  PROVE  [Space!Next]_(Space!spaceVars)
<1>1. CASE UNCHANGED vars
  BY <1>1 DEF vars, Space!spaceVars, bytes, served
<1>2. ASSUME NEW c \in Callers, Begin(c) \/ Step(c)  PROVE Space!Next
  <2>1. \/ Space!Begin(c) \/ Space!Read(c) \/ Space!Write(c)
        \/ Space!Search(c) \/ Space!Return(c) \/ Space!Between(c)
    BY <1>2, BeginRefines, WriteAddressRefines, ReadOldRefines, SearchRefines,
       ReadDataRefines, ReadPciConfigRefines, WriteDataRefines,
       WritePciConfigRefines, ReturnRefines DEF Step
  <2> QED
    BY <2>1 DEF Space!Next
<1> QED
  BY <1>1, <1>2 DEF Next

\* Accesses keep the contract: every call takes effect at once, on the bytes
\* it names, unless a request of another caller came between its own, and even
\* then it spoils no more than one double word.
THEOREM Keeps == Spec => KeepsConfigSpace
<1>1. Init => Space!Init
  BY ConfigAssumption, InitRefines
<1>2. TypeOK /\ CallInv /\ LatchInv /\ [Next]_vars
        => [Space!Next]_(Space!spaceVars)
  BY ConfigAssumption, NextRefines
<1>3. Spec => [](TypeOK /\ CallInv /\ LatchInv)
  BY ConfigAssumption, InvariantsHold
<1> QED
  BY <1>1, <1>2, <1>3, PTL DEF Spec, KeepsConfigSpace, Space!Spec

-----------------------------------------------------------------------------
(* The search for controllers. *)

\* What there is to report of a function and the word at one of the offsets.
Reportable(d, i) ==
  LET chip == Register(d, 0)
      word == Shifted(Register(d, Reg(offsets[i])), Div(offsets[i]), 2)
  IN  IF IsSmBus(Register(d, 8)) /\ chip # Ones /\ IsIoAddress(word)
      THEN {<<BaseAddress(chip, word), r>> : r \in ReaderOf(chip)}
      ELSE {}

Here(k) == <<k.dev, k.fun>>

\* The slots the loops have left behind, and the words read of the one they
\* are at.
Earlier(k, d) == d[1] < k.dev \/ (d[1] = k.dev /\ d[2] < k.fun)
Passed(k, d, i) == Earlier(k, d) \/ (d = Here(k) /\ 2 * i < k.i)

Reports(k, S) ==
  \A a : a \in S <=>
    \E d \in Slots, i \in 1 .. 10 : Passed(k, d, i) /\ a \in Reportable(d, i)

\* The local variables of the search are those of its slot.
AtSlot(k) ==
  /\ k.i > 0 => k.chip = Register(Here(k), 0) /\ k.chip # Ones
  /\ k.i > 0 /\ k.i % 2 = 0 => IsSmBus(Register(Here(k), 8))

AllReported(S) ==
  \A a : a \in S <=> \E d \in Slots, i \in 1 .. 10 : a \in Reportable(d, i)

\* The cursor before and after one access of the search.
LEMMA CursorParts ==
  ASSUME NEW k \in Cursors
  PROVE  /\ k.dev \in 0 .. PCI_MAX_DEV - 1 /\ k.fun \in 0 .. PCI_MAX_FUN - 1
         /\ k.i \in 0 .. 20
         /\ Here(k) \in Slots
         /\ SearchTarget(k).device = Here(k)
         /\ k.i = 0 => SearchTarget(k).offset = 0
         /\ k.i % 2 = 1 => SearchTarget(k).offset = 8
<1>1. /\ k.dev \in 0 .. PCI_MAX_DEV - 1 /\ k.fun \in 0 .. PCI_MAX_FUN - 1
      /\ k.i \in 0 .. 20
  BY offsetsType DEF Cursors
<1>2. Here(k) \in Slots /\ SearchTarget(k).device = Here(k)
  BY <1>1 DEF Here, Slots, SearchTarget
<1>3. k.i = 0 => SearchTarget(k).offset = 0
  BY DEF SearchTarget
<1>4. k.i % 2 = 1 => SearchTarget(k).offset = 8
  BY <1>1 DEF SearchTarget
<1> QED
  BY <1>1, <1>2, <1>3, <1>4

LEMMA WordTarget ==
  ASSUME NEW k \in Cursors, NEW j \in 1 .. 10, k.i = 2 * j
  PROVE  SearchTarget(k).offset = offsets[j]
<1>1. k.i # 0 /\ k.i % 2 # 1 /\ k.i \div 2 = j
  BY DEF Cursors
<1> QED
  BY <1>1 DEF SearchTarget

LEMMA SlotParts ==
  ASSUME NEW d \in Slots
  PROVE  /\ d[1] \in 0 .. PCI_MAX_DEV - 1 /\ d[2] \in 0 .. PCI_MAX_FUN - 1
         /\ \A x, y : d = <<x, y>> <=> d[1] = x /\ d[2] = y
BY DEF Slots

\* Past the last word of a slot, and past a slot that has nothing.
LEMMA NextSlotPasses ==
  ASSUME ConfigAssumption, NEW k \in Cursors, ~Last(k),
         NEW d \in Slots, NEW i \in 1 .. 10
  PROVE  Passed(NextSlot(k), d, i) <=> Earlier(k, d) \/ d = Here(k)
<1>1. /\ k.dev \in 0 .. PCI_MAX_DEV - 1 /\ k.fun \in 0 .. PCI_MAX_FUN - 1
      /\ PCI_MAX_DEV \in Nat \ {0} /\ PCI_MAX_FUN \in Nat \ {0}
  BY DEF Cursors, ConfigAssumption
<1>2. d[1] \in 0 .. PCI_MAX_DEV - 1 /\ d[2] \in 0 .. PCI_MAX_FUN - 1
  BY SlotParts
<1>3. d = Here(k) <=> d[1] = k.dev /\ d[2] = k.fun
  BY SlotParts DEF Here
<1>4. NextSlot(k).i = 0
  BY DEF NextSlot, NoCursor
<1>5. Passed(NextSlot(k), d, i) <=> Earlier(NextSlot(k), d)
  BY <1>4 DEF Passed
<1>6. CASE k.fun < PCI_MAX_FUN - 1
  <2>1. NextSlot(k).dev = k.dev /\ NextSlot(k).fun = k.fun + 1
    BY <1>6 DEF NextSlot, NoCursor
  <2> QED
    BY <1>1, <1>2, <1>3, <1>5, <2>1 DEF Earlier
<1>7. CASE ~(k.fun < PCI_MAX_FUN - 1)
  <2>1. NextSlot(k).dev = k.dev + 1 /\ NextSlot(k).fun = 0
    BY <1>7 DEF NextSlot, NoCursor
  <2> QED
    BY <1>1, <1>2, <1>3, <1>5, <1>7, <2>1 DEF Earlier
<1> QED
  BY <1>6, <1>7

LEMMA LastPasses ==
  ASSUME ConfigAssumption, NEW k \in Cursors, Last(k), NEW d \in Slots
  PROVE  Earlier(k, d) \/ d = Here(k)
<1>1. d[1] \in 0 .. PCI_MAX_DEV - 1 /\ d[2] \in 0 .. PCI_MAX_FUN - 1
  BY SlotParts
<1>2. d = Here(k) <=> d[1] = k.dev /\ d[2] = k.fun
  BY SlotParts DEF Here
<1>3. PCI_MAX_DEV \in Nat \ {0} /\ PCI_MAX_FUN \in Nat \ {0}
  BY DEF ConfigAssumption
<1> QED
  BY <1>1, <1>2, <1>3 DEF Earlier, Last

\* What one access adds is what there is to report of its word; where it adds
\* nothing and words are passed over, there is nothing to report of them.
LEMMA ReportedRight ==
  ASSUME TypeOK, NEW k \in Cursors, AtSlot(k), NEW j \in 1 .. 10, k.i = 2 * j
  PROVE  Reported(k, Register(Here(k), Reg(offsets[j]))) = Reportable(Here(k), j)
<1>1. SearchTarget(k).offset = offsets[j]
  BY WordTarget
<1>2. k.i > 0 /\ k.i % 2 = 0
  OBVIOUS
<1>3. k.chip = Register(Here(k), 0) /\ k.chip # Ones /\ IsSmBus(Register(Here(k), 8))
  BY <1>2 DEF AtSlot
<1> QED
  BY <1>1, <1>2, <1>3 DEF Reported, Reportable

LEMMA ReportedNothing ==
  ASSUME NEW k \in Cursors, k.i = 0 \/ k.i % 2 = 1, NEW dword
  PROVE  Reported(k, dword) = {}
BY DEF Reported

LEMMA NothingToReport ==
  ASSUME NEW d, Register(d, 0) = Ones \/ ~IsSmBus(Register(d, 8)), NEW i
  PROVE  Reportable(d, i) = {}
BY DEF Reportable


\* The words that have been read when the access at k is over.
Reached(k, d, i) == Passed(k, d, i) \/ (d = Here(k) /\ k.i = 2 * i)

LEMMA AccessAdds ==
  ASSUME TypeOK, NEW k \in Cursors, AtSlot(k), NEW S, Reports(k, S),
         NEW dword, dword = Register(Here(k), Reg(SearchTarget(k).offset)),
         NEW a
  PROVE  a \in S \union Reported(k, dword) <=>
           \E d \in Slots, i \in 1 .. 10 :
             Reached(k, d, i) /\ a \in Reportable(d, i)
<1>1. a \in S <=>
        \E d \in Slots, i \in 1 .. 10 : Passed(k, d, i) /\ a \in Reportable(d, i)
  BY DEF Reports
<1>2. k.i \in 0 .. 20 /\ Here(k) \in Slots
  BY CursorParts
<1>3. CASE k.i = 0 \/ k.i % 2 = 1
  <2>1. \A i \in 1 .. 10 : k.i # 2 * i
    BY <1>2, <1>3
  <2>2. Reported(k, dword) = {}
    BY <1>3, ReportedNothing
  <2> QED
    BY <1>1, <2>1, <2>2 DEF Reached
<1>4. ASSUME NEW j \in 1 .. 10, k.i = 2 * j
      PROVE  a \in S \union Reported(k, dword) <=>
               \E d \in Slots, i \in 1 .. 10 :
                 Reached(k, d, i) /\ a \in Reportable(d, i)
  <2>1. Reported(k, dword) = Reportable(Here(k), j)
    BY <1>4, WordTarget, ReportedRight
  <2>2. \A i \in 1 .. 10 : k.i = 2 * i <=> i = j
    BY <1>4
  <2>3. a \in Reportable(Here(k), j) <=>
          \E d \in Slots, i \in 1 .. 10 :
            d = Here(k) /\ i = j /\ a \in Reportable(d, i)
    BY <1>2
  <2> QED
    BY <1>1, <2>1, <2>2, <2>3 DEF Reached
<1>5. k.i = 0 \/ k.i % 2 = 1 \/ \E j \in 1 .. 10 : k.i = 2 * j
  BY <1>2
<1> QED
  BY <1>3, <1>4, <1>5

LEMMA RegOfTwo == Reg(0) = 0 /\ Reg(8) = 8
BY DEF Reg, Div

\* A slot that is left has nothing to report but what was read.
LEMMA SkipMisses ==
  ASSUME TypeOK, NEW k \in Cursors,
         NEW dword, dword = Register(Here(k), Reg(SearchTarget(k).offset)),
         Skip(k, dword), NEW i \in 1 .. 10
  PROVE  Reached(k, Here(k), i) \/ Reportable(Here(k), i) = {}
<1>1. k.i \in 0 .. 20 /\ Len(offsets) = 10
  BY CursorParts, offsetsType
<1>2. CASE k.i = 0 /\ dword = Ones
  BY <1>2, CursorParts, RegOfTwo, NothingToReport
<1>3. CASE k.i >= 20
  BY <1>1, <1>3 DEF Reached, Passed
<1>4. CASE k.i = 19 /\ ~IsSmBus(dword)
  <2>1. k.i % 2 = 1
    BY <1>4
  <2> QED
    BY <1>4, <2>1, CursorParts, RegOfTwo, NothingToReport
<1> QED
  BY <1>1, <1>2, <1>3, <1>4 DEF Skip

\* Nor has a word that is passed over.
LEMMA AdvanceMisses ==
  ASSUME TypeOK, NEW k \in Cursors,
         NEW dword, dword = Register(Here(k), Reg(SearchTarget(k).offset)),
         ~Skip(k, dword), NEW d \in Slots, NEW i \in 1 .. 10
  PROVE  /\ Reached(k, d, i) => Passed(Advance(k, dword), d, i)
         /\ Passed(Advance(k, dword), d, i) =>
              Reached(k, d, i) \/ Reportable(d, i) = {}
<1>1. /\ k.i \in 0 .. 20 /\ Len(offsets) = 10
      /\ k.dev \in Int /\ k.fun \in Int
  BY CursorParts, offsetsType
<1>2. PICK n : n = Advance(k, dword)
  OBVIOUS
<1>3. n.dev = k.dev /\ n.fun = k.fun
  BY <1>2 DEF Advance, Cursors
<1>4. Here(n) = Here(k) /\ (Earlier(n, d) <=> Earlier(k, d))
  BY <1>3 DEF Here, Earlier
<1>5. /\ Reached(k, d, i) <=> Earlier(k, d) \/ (d = Here(k) /\ (2 * i < k.i \/ k.i = 2 * i))
      /\ Passed(n, d, i) <=> Earlier(k, d) \/ (d = Here(k) /\ 2 * i < n.i)
  BY <1>4 DEF Reached, Passed
<1>6. CASE k.i = 0
  <2>1. n.i = 1
    BY <1>2, <1>6 DEF Advance, Cursors
  <2> QED
    BY <1>2, <1>5, <1>6, <2>1
<1>7. CASE k.i # 0 /\ k.i % 2 = 1 /\ ~IsSmBus(dword)
  <2>1. n.i = k.i + 2
    BY <1>2, <1>7 DEF Advance, Cursors
  <2>2. Reportable(Here(k), i) = {}
    BY <1>7, CursorParts, RegOfTwo, NothingToReport
  <2> QED
    BY <1>1, <1>2, <1>5, <2>1, <2>2
<1>8. CASE k.i # 0 /\ ~(k.i % 2 = 1 /\ ~IsSmBus(dword))
  <2>1. n.i = k.i + 1
    BY <1>2, <1>8 DEF Advance, Cursors
  <2>2. 2 * i < k.i + 1 <=> 2 * i < k.i \/ k.i = 2 * i
    BY <1>1
  <2> QED
    BY <1>2, <1>5, <2>1, <2>2
<1> QED
  BY <1>6, <1>7, <1>8

LEMMA AdvanceAtSlot ==
  ASSUME TypeOK, NEW k \in Cursors, AtSlot(k),
         NEW dword, dword = Register(Here(k), Reg(SearchTarget(k).offset)),
         ~Skip(k, dword)
  PROVE  AtSlot(Advance(k, dword))
<1>1. k.i \in 0 .. 20
  BY CursorParts
<1>2. PICK n : n = Advance(k, dword)
  OBVIOUS
<1>3. Here(n) = Here(k)
  BY <1>2 DEF Advance, Cursors, Here
<1>4. CASE k.i = 0
  <2>1. n.i = 1 /\ n.chip = dword
    BY <1>2, <1>4 DEF Advance, Cursors
  <2>2. dword # Ones /\ dword = Register(Here(k), 0)
    BY <1>4, CursorParts, RegOfTwo DEF Skip
  <2> QED
    BY <1>2, <1>3, <2>1, <2>2 DEF AtSlot
<1>5. CASE k.i > 0
  <2>1. k.chip = Register(Here(k), 0) /\ k.chip # Ones
    BY <1>5 DEF AtSlot
  <2>2. n.chip = k.chip
    BY <1>2, <1>5 DEF Advance, Cursors
  <2>3. n.i > 0 /\ n.i % 2 = 0 => IsSmBus(Register(Here(k), 8))
    <3>1. CASE k.i % 2 = 1 /\ ~IsSmBus(dword)
      <4>1. n.i = k.i + 2
        BY <1>1, <1>2, <1>5, <3>1 DEF Advance, Cursors
      <4> QED
        BY <1>1, <3>1, <4>1
    <3>2. CASE k.i % 2 = 1 /\ IsSmBus(dword)
      BY <3>2, CursorParts, RegOfTwo
    <3>3. CASE k.i % 2 = 0
      <4>1. n.i = k.i + 1
        BY <1>1, <1>2, <1>5, <3>3 DEF Advance, Cursors
      <4> QED
        BY <1>1, <3>3, <4>1
    <3> QED
      BY <1>1, <3>1, <3>2, <3>3
  <2> QED
    BY <1>2, <1>3, <2>1, <2>2, <2>3 DEF AtSlot
<1> QED
  BY <1>1, <1>4, <1>5

\* One access of a search at which nothing came between.
LEMMA SearchAccess ==
  ASSUME ConfigAssumption, TypeOK, NEW k \in Cursors, AtSlot(k),
         NEW S, Reports(k, S),
         NEW dword, dword = Register(Here(k), Reg(SearchTarget(k).offset)),
         NEW R, R = S \union Reported(k, dword)
  PROVE  /\ Skip(k, dword) /\ Last(k) => AllReported(R)
         /\ Skip(k, dword) /\ ~Last(k) =>
              Reports(NextSlot(k), R) /\ AtSlot(NextSlot(k))
         /\ ~Skip(k, dword) =>
              Reports(Advance(k, dword), R) /\ AtSlot(Advance(k, dword))
<1>1. \A a : a \in R <=> \E d \in Slots, i \in 1 .. 10 :
               Reached(k, d, i) /\ a \in Reportable(d, i)
  BY AccessAdds
<1>2. ASSUME Skip(k, dword), NEW a
      PROVE  a \in R <=> \E d \in Slots, i \in 1 .. 10 :
               (Earlier(k, d) \/ d = Here(k)) /\ a \in Reportable(d, i)
  <2>1. \A d \in Slots, i \in 1 .. 10 :
          Reached(k, d, i) => Earlier(k, d) \/ d = Here(k)
    BY DEF Reached, Passed
  <2>2. \A d \in Slots, i \in 1 .. 10 : Earlier(k, d) => Reached(k, d, i)
    BY DEF Reached, Passed
  <2>3. \A i \in 1 .. 10 : Reached(k, Here(k), i) \/ Reportable(Here(k), i) = {}
    BY <1>2, SkipMisses
  <2> QED
    BY <1>1, <2>1, <2>2, <2>3
<1>3. ASSUME Skip(k, dword), Last(k) PROVE AllReported(R)
  <2>1. \A d \in Slots : Earlier(k, d) \/ d = Here(k)
    BY <1>3, LastPasses
  <2> QED
    BY <1>2, <1>3, <2>1 DEF AllReported
<1>4. ASSUME Skip(k, dword), ~Last(k)
      PROVE  Reports(NextSlot(k), R) /\ AtSlot(NextSlot(k))
  <2>1. \A d \in Slots, i \in 1 .. 10 :
          Passed(NextSlot(k), d, i) <=> Earlier(k, d) \/ d = Here(k)
    BY <1>4, NextSlotPasses
  <2>2. NextSlot(k).i = 0
    BY DEF NextSlot, NoCursor
  <2> QED
    BY <1>2, <1>4, <2>1, <2>2 DEF Reports, AtSlot
<1>5. ASSUME ~Skip(k, dword)
      PROVE  Reports(Advance(k, dword), R) /\ AtSlot(Advance(k, dword))
  <2>1. \A d \in Slots, i \in 1 .. 10 :
          /\ Reached(k, d, i) => Passed(Advance(k, dword), d, i)
          /\ Passed(Advance(k, dword), d, i) =>
               Reached(k, d, i) \/ Reportable(d, i) = {}
    BY <1>5, AdvanceMisses
  <2>2. PICK n : n = Advance(k, dword)
    OBVIOUS
  <2>3. Reports(n, R)
    BY <1>1, <2>1, <2>2 DEF Reports
  <2> QED
    BY <1>5, <2>2, <2>3, AdvanceAtSlot
<1> QED
  BY <1>3, <1>4, <1>5

\* A search at which nothing came between has reported what there is to
\* report up to where it is.
SearchedRight(c) ==
  /\ pc[c] = "idle" => found[c] = {} /\ cursor[c] = NoCursor
  /\ Searching(c) /\ ~disturbed[c] =>
       /\ pc[c] \in {"address", "data"} =>
            AtSlot(cursor[c]) /\ Reports(cursor[c], found[c])
       /\ pc[c] = "returned" => AllReported(found[c])

SearchInv == \A c \in Callers : SearchedRight(c)

\* At the start nothing was passed.
LEMMA StartOfSearch ==
  ASSUME ConfigAssumption PROVE AtSlot(NoCursor) /\ Reports(NoCursor, {})
<1>1. NoCursor.dev = 0 /\ NoCursor.fun = 0 /\ NoCursor.i = 0
  BY DEF NoCursor
<1>2. \A d \in Slots, i \in 1 .. 10 : ~Passed(NoCursor, d, i)
  BY <1>1, SlotParts DEF Passed, Earlier
<1> QED
  BY <1>1, <1>2 DEF AtSlot, Reports

\* A step leaves the registers alone, or disturbs the searches of others.
LEMMA DisturbsSearches ==
  ASSUME TypeOK, NEW c \in Callers, Begin(c) \/ Step(c)
  PROVE  UNCHANGED space \/ \A d \in Callers \ {c} : Searching(d) => disturbed'[d]
<1>1. CASE WriteData(c)
  BY <1>1 DEF WriteData, WritesRegister
<1>2. CASE WritePciConfig(c)
  BY <1>2 DEF WritePciConfig, WritesRegister
<1>3. CASE Begin(c) \/ WriteAddress(c) \/ ReadData(c) \/ ReadOld(c)
           \/ ReadPciConfig(c) \/ Search(c) \/ Return(c)
  BY <1>3 DEF Begin, WriteAddress, ReadData, ReadOld, ReadPciConfig, Search, Return
<1> QED
  BY <1>1, <1>2, <1>3 DEF Step

LEMMA FoundFrame ==
  ASSUME TypeOK, NEW c \in Callers, Begin(c) \/ Step(c)
  PROVE  \A d \in Callers \ {c} : found'[d] = found[d]
<1>1. DOMAIN found = Callers
  BY DEF TypeOK
<1>2. CASE Search(c)
  BY <1>1, <1>2 DEF Search
<1>3. CASE Return(c)
  BY <1>1, <1>3 DEF Return
<1>4. CASE ~Search(c) /\ ~Return(c)
  BY <1>4 DEF Begin, Step, WriteAddress, ReadData, ReadOld, WriteData,
              ReadPciConfig, WritePciConfig, locals
<1> QED
  BY <1>2, <1>3, <1>4

\* What is said of a search depends on the registers only.
LEMMA SameRegisters ==
  ASSUME UNCHANGED space
  PROVE  /\ \A d, r : Register(d, r)' = Register(d, r)
         /\ \A k : AtSlot(k)' <=> AtSlot(k)
         /\ \A k, S : Reports(k, S)' <=> Reports(k, S)
         /\ \A S : AllReported(S)' <=> AllReported(S)
<1>1. \A d, r : Register(d, r)' = Register(d, r)
  BY DEF Register
<1>2. \A d, i : Reportable(d, i)' = Reportable(d, i)
  BY <1>1 DEF Reportable
<1> QED
  BY <1>1, <1>2 DEF AtSlot, Reports, AllReported

LEMMA OthersSearch ==
  ASSUME TypeOK, SearchInv, NEW c \in Callers, Begin(c) \/ Step(c),
         NEW d \in Callers \ {c}
  PROVE  SearchedRight(d)'
<1>1. Untouched(d) /\ found'[d] = found[d]
  BY Frame, FoundFrame
<1>2. (Searching(d)' <=> Searching(d)) /\ SearchedRight(d)
  BY <1>1 DEF Untouched, Searching, SearchInv, SearchedRight
<1>3. pc'[d] = "idle" => found'[d] = {} /\ cursor'[d] = NoCursor
  BY <1>1, <1>2 DEF Untouched, SearchedRight
<1>4. ASSUME Searching(d)', ~disturbed'[d]
      PROVE  /\ pc'[d] \in {"address", "data"} =>
                  AtSlot(cursor[d])' /\ Reports(cursor[d], found[d])'
             /\ pc'[d] = "returned" => AllReported(found[d])'
  <2>1. ~disturbed[d] /\ Searching(d) /\ UNCHANGED space
    BY <1>2, <1>4, Disturbs, DisturbsSearches
  <2>2. PICK k, S : k = cursor[d] /\ S = found[d] /\ k = cursor'[d] /\ S = found'[d]
    BY <1>1 DEF Untouched
  <2>3. /\ pc[d] \in {"address", "data"} => AtSlot(k) /\ Reports(k, S)
        /\ pc[d] = "returned" => AllReported(S)
    BY <1>2, <2>1, <2>2 DEF SearchedRight
  <2>4. /\ AtSlot(k)' <=> AtSlot(k)
        /\ Reports(k, S)' <=> Reports(k, S)
        /\ AllReported(S)' <=> AllReported(S)
    BY <2>1, SameRegisters
  <2> QED
    BY <1>1, <2>2, <2>3, <2>4 DEF Untouched
<1> QED
  BY <1>3, <1>4 DEF SearchedRight

LEMMA OwnSearch ==
  ASSUME ConfigAssumption, TypeOK, LatchInv, SearchInv,
         NEW c \in Callers, Search(c)
  PROVE  SearchedRight(c)'
<1>1. PICK k, S, dword :
        /\ k = cursor[c] /\ S = found[c]
        /\ dword = ReadIoPortDword(CONFIG_DATA, Latched)
  OBVIOUS
<1>2. /\ pc[c] = "data" /\ Searching(c) /\ UNCHANGED <<space, call, disturbed>>
      /\ found' = [found EXCEPT ![c] = S \union Reported(k, dword)]
      /\ IF Skip(k, dword)
         THEN IF Last(k) THEN pc' = [pc EXCEPT ![c] = "returned"]
              ELSE /\ pc' = [pc EXCEPT ![c] = "address"]
                   /\ cursor' = [cursor EXCEPT ![c] = NextSlot(k)]
         ELSE /\ pc' = [pc EXCEPT ![c] = "address"]
              /\ cursor' = [cursor EXCEPT ![c] = Advance(k, dword)]
  BY <1>1 DEF Search
<1>3. DOMAIN pc = Callers /\ DOMAIN found = Callers /\ DOMAIN cursor = Callers
      /\ k \in Cursors
  BY <1>1 DEF TypeOK
<1>4. PICK R : R = S \union Reported(k, dword) /\ R = found'[c]
  BY <1>2, <1>3
<1>5. pc'[c] # "idle"
  BY <1>2, <1>3
<1>6. ASSUME ~disturbed'[c]
      PROVE  /\ pc'[c] \in {"address", "data"} =>
                  AtSlot(cursor[c])' /\ Reports(cursor[c], found[c])'
             /\ pc'[c] = "returned" => AllReported(found[c])'
  <2>1. ~disturbed[c] /\ InFlight(c)
    BY <1>2, <1>6 DEF InFlight
  <2>2. AtSlot(k) /\ Reports(k, S)
    BY <1>1, <1>2, <2>1 DEF SearchInv, SearchedRight
  <2>3. dword = Register(Here(k), Reg(SearchTarget(k).offset))
    <3>1. Target(c) = SearchTarget(k) /\ SearchTarget(k).device = Here(k)
      BY <1>1, <1>2, <1>3, CursorParts DEF Target
    <3>2. latch = [device |-> Target(c).device,
                   register |-> Reg(Target(c).offset)]
      BY <2>1 DEF LatchInv
    <3>3. dword = Latched
      BY <1>1, ReadsLatched
    <3> QED
      BY <3>1, <3>2, <3>3 DEF Latched
  <2>4. /\ Skip(k, dword) /\ Last(k) => AllReported(R)
        /\ Skip(k, dword) /\ ~Last(k) =>
             Reports(NextSlot(k), R) /\ AtSlot(NextSlot(k))
        /\ ~Skip(k, dword) =>
             Reports(Advance(k, dword), R) /\ AtSlot(Advance(k, dword))
    BY <1>3, <1>4, <2>2, <2>3, SearchAccess
  <2>5. CASE Skip(k, dword) /\ Last(k)
    <3>1. pc'[c] = "returned"
      BY <1>2, <1>3, <2>5
    <3>2. AllReported(R)'
      BY <1>2, <2>4, <2>5, SameRegisters
    <3> QED
      BY <1>4, <3>1, <3>2
  <2>6. ASSUME NEW n, pc'[c] = "address", cursor'[c] = n,
               Reports(n, R), AtSlot(n)
        PROVE  /\ pc'[c] \in {"address", "data"} =>
                    AtSlot(cursor[c])' /\ Reports(cursor[c], found[c])'
               /\ pc'[c] = "returned" => AllReported(found[c])'
    <3>1. AtSlot(n)' /\ Reports(n, R)'
      BY <1>2, <2>6, SameRegisters
    <3> QED
      BY <1>4, <2>6, <3>1
  <2>7. CASE Skip(k, dword) /\ ~Last(k)
    <3>1. pc'[c] = "address" /\ cursor'[c] = NextSlot(k)
      BY <1>2, <1>3, <2>7
    <3> QED
      BY <2>4, <2>6, <2>7, <3>1
  <2>8. CASE ~Skip(k, dword)
    <3>1. pc'[c] = "address" /\ cursor'[c] = Advance(k, dword)
      BY <1>2, <1>3, <2>8
    <3> QED
      BY <2>4, <2>6, <2>8, <3>1
  <2> QED
    BY <2>5, <2>7, <2>8
<1> QED
  BY <1>5, <1>6 DEF SearchedRight

LEMMA OwnStep ==
  ASSUME ConfigAssumption, TypeOK, CallInv, LatchInv, SearchInv,
         NEW c \in Callers, Begin(c) \/ Step(c)
  PROVE  SearchedRight(c)'
<1>1. DOMAIN pc = Callers /\ DOMAIN call = Callers /\ DOMAIN found = Callers
      /\ DOMAIN cursor = Callers /\ DOMAIN disturbed = Callers
  BY DEF TypeOK
<1>2. CASE Begin(c)
  <2>1. pc[c] = "idle" /\ UNCHANGED <<space, found, cursor>>
        /\ pc'[c] \in {"request", "address"}
    BY <1>1, <1>2 DEF Begin, locals
  <2>2. found'[c] = {} /\ cursor'[c] = NoCursor
    BY <2>1 DEF SearchInv, SearchedRight
  <2>3. AtSlot(NoCursor)' /\ Reports(NoCursor, {})'
    BY <2>1, StartOfSearch, SameRegisters
  <2> QED
    BY <2>1, <2>2, <2>3 DEF SearchedRight
<1>3. CASE WriteAddress(c)
  <2>1. pc[c] = "address" /\ pc'[c] = "data"
        /\ UNCHANGED <<space, call, found, cursor>>
    BY <1>1, <1>3 DEF WriteAddress, locals
  <2>4. disturbed'[c] = (disturbed[c] \/ (c # c /\ InFlight(c)))
    BY <1>3, Zenon DEF WriteAddress, SetsLatch
  <2>5. disturbed'[c] = disturbed[c]
    <3>1. disturbed[c] \in BOOLEAN
      BY DEF TypeOK
    <3> QED
      BY <2>4, <3>1
  <2>2. disturbed'[c] = disturbed[c] /\ (Searching(c)' <=> Searching(c))
    BY <2>1, <2>5, Zenon DEF Searching
  <2>3. ASSUME Searching(c)', ~disturbed'[c]
        PROVE  AtSlot(cursor[c])' /\ Reports(cursor[c], found[c])'
    <3>1. PICK k, S : k = cursor[c] /\ S = found[c]
      OBVIOUS
    <3>2. AtSlot(k) /\ Reports(k, S)
      BY <2>1, <2>2, <2>3, <3>1 DEF SearchInv, SearchedRight
    <3>3. AtSlot(k)' /\ Reports(k, S)'
      BY <2>1, <3>2, SameRegisters
    <3> QED
      BY <2>1, <3>1, <3>3
  <2> QED
    BY <2>1, <2>3 DEF SearchedRight
<1>4. CASE Search(c)
  BY <1>4, OwnSearch
<1>5. CASE Return(c)
  <2>1. found'[c] = {} /\ cursor'[c] = NoCursor /\ call'[c].op = "none"
    BY <1>1, <1>5 DEF Return, NoCall
  <2> QED
    BY <2>1 DEF SearchedRight, Searching
<1>6. CASE ReadData(c) \/ ReadOld(c) \/ WriteData(c) \/ ReadPciConfig(c)
           \/ WritePciConfig(c)
  <2>1. call[c].op # SearchOp
    BY <1>6 DEF ReadData, ReadOld, WriteData, ReadPciConfig, WritePciConfig,
                CallInv, SearchOp
  <2>2. pc'[c] # "idle" /\ UNCHANGED call
    BY <1>1, <1>6 DEF ReadData, ReadOld, WriteData, ReadPciConfig, WritePciConfig
  <2> QED
    BY <2>1, <2>2 DEF SearchedRight, Searching, SearchOp
<1> QED
  BY <1>2, <1>3, <1>4, <1>5, <1>6 DEF Step

LEMMA SearchStep ==
  ASSUME ConfigAssumption, TypeOK, CallInv, LatchInv, SearchInv, [Next]_vars
  PROVE  SearchInv'
<1>1. CASE UNCHANGED vars
  BY <1>1, SameRegisters DEF vars, locals, SearchInv, SearchedRight, Searching
<1>2. ASSUME NEW c \in Callers, Begin(c) \/ Step(c) PROVE SearchInv'
  <2>1. \A d \in Callers : SearchedRight(d)'
    BY <1>2, OthersSearch, OwnStep
  <2> QED
    BY <2>1 DEF SearchInv
<1> QED
  BY <1>1, <1>2 DEF Next

\* Outside of the slots with a device there is nothing to report.
LEMMA ReportsControllers ==
  ASSUME ConfigAssumption, NEW S, AllReported(S) PROVE S = Controllers
<1>1. Controllers = UNION {UNION {Reportable(d, i) : i \in 1 .. 10} : d \in Devices}
  BY offsetsType DEF Controllers, Reportable, offsets
<1>2. \A d \in Slots \ Devices, i \in 1 .. 10 : Reportable(d, i) = {}
  BY NothingToReport DEF Register
<1>3. \A a : a \in S <=> \E d \in Devices, i \in 1 .. 10 : a \in Reportable(d, i)
  BY <1>2 DEF AllReported, ConfigAssumption
<1>4. \A a : a \in Controllers <=>
             \E d \in Devices, i \in 1 .. 10 : a \in Reportable(d, i)
  BY <1>1
<1> QED
  BY <1>3, <1>4

\* On any bus, whatever other callers do: a search at which nothing came
\* between reports the controllers of the machine, all of them and nothing
\* else.
THEOREM SearchesAreRight == Spec => []SearchIsRight
<1>1. Init => SearchInv
  BY DEF Init, SearchInv, SearchedRight, Searching, NoCall
<1>2. TypeOK /\ CallInv /\ LatchInv /\ SearchInv /\ [Next]_vars => SearchInv'
  BY ConfigAssumption, SearchStep
<1>3. SearchInv => SearchIsRight
  BY ConfigAssumption, ReportsControllers DEF SearchInv, SearchedRight, SearchIsRight
<1>4. Spec => [](TypeOK /\ CallInv /\ LatchInv)
  BY ConfigAssumption, InvariantsHold
<1> QED
  BY <1>1, <1>2, <1>3, <1>4, PTL DEF Spec
=============================================================================
