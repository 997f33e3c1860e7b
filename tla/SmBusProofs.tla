----------------------------- MODULE SmBusProofs -----------------------------
(***************************************************************************)
(* Theorems about SmBus, for any modules, any size, any limits: types and  *)
(* the bytes any number of readers get, and, for one reader of a           *)
(* controller that is not VIA's, that SmBus implements SpdContract.  The   *)
(* last part bounds the steps a call of ReadSpdData can take.              *)
(***************************************************************************)
EXTENDS SmBus, TLAPS

-----------------------------------------------------------------------------
(* Types. *)

LEMMA SizeType == Size \in Nat \ {0}
BY SmBusAssumption

LEMMA IndexFacts == 0 \in Index /\ Index \subseteq Nat
BY SizeType DEF Index

LEMMA IndexNext ==
  ASSUME NEW n \in Index, n # Size - 1
  PROVE  n + 1 \in Index
BY SizeType DEF Index

LEMMA PortBits ==
  ASSUME ControllerTypes
  PROVE  Host \in SUBSET Bits /\ Status \in SUBSET Bits
<1>1. \A f \in SUBSET Bits : Ports(f) \in SUBSET Bits
  BY DEF Ports
<1>2. status \in SUBSET Bits
  BY DEF ControllerTypes
<1>3. \A f \in SUBSET Bits :
        {0, 1, 2} \in SUBSET Bits /\ f \union {0} \in SUBSET Bits
  BY DEF Bits
<1> QED
  BY <1>1, <1>2, <1>3 DEF Host, Status

LEMMA StatusBits ==
  /\ Success \in SUBSET Bits
  /\ NotThere \in SUBSET Bits
  /\ BusError \in SUBSET Bits
<1>1. {1} \in SUBSET Bits /\ {2} \in SUBSET Bits /\ {3} \in SUBSET Bits
  BY DEF Bits
<1>2. {4} \in SUBSET Bits /\ {7} \in SUBSET Bits
  BY DEF Bits
<1>3. {1, 2} \in SUBSET Bits /\ {4, 7} \in SUBSET Bits
  BY DEF Bits
<1>4. {0, 1, 2, 7} \in SUBSET Bits
  BY DEF Bits
<1>5. Success \in SUBSET Bits
  BY <1>1, <1>2 DEF Success
<1>6. NotThere \in SUBSET Bits
  BY <1>1, <1>3 DEF NotThere
<1>7. BusError \in SUBSET Bits
  BY <1>2, <1>4 DEF BusError
<1> QED
  BY <1>5, <1>6, <1>7

LEMMA ReserveType ==
  ASSUME ControllerTypes, Reserve
  PROVE  status' \in SUBSET Bits
<1>1. 6 \in Bits
  BY DEF Bits
<1>2. status \in SUBSET Bits
  BY DEF ControllerTypes
<1>3. status' = status \union {6} \/ status' = status
  BY DEF Reserve
<1> QED
  BY <1>1, <1>2, <1>3

\* A step that leaves the controller alone, or only its status.
LEMMA ControllerSame ==
  ASSUME ControllerTypes, UNCHANGED <<chip, bus, address, command, busy, target,
                                      datum>>,
         status' \in SUBSET Bits
  PROVE  ControllerTypes'
BY DEF ControllerTypes

LEMMA ReturnType ==
  ASSUME ReaderTypes, NEW r \in Readers, NEW from,
         NEW answer \in {"TRUE", "FALSE"}, Return(r, from, answer)
  PROVE  ReaderTypes'
BY IndexFacts DEF ReaderTypes, Return, At, ReaderStates

\* A step of a reader that goes on.
LEMMA MoveType ==
  ASSUME ReaderTypes, NEW r \in Readers, NEW from, NEW to \in ReaderStates,
         At(r, from, to), UNCHANGED Slot, UNCHANGED result,
         byte' \in [Readers -> Index], error' \in [Readers -> Nat],
         flag' \in [Readers -> SUBSET Bits]
  PROVE  ReaderTypes'
BY DEF ReaderTypes, At

\* What is read of a module, shifted or not, has the type of a buffer.
LEMMA FinishedType ==
  ASSUME NEW v \in [Index -> Bytes \union {"none"}], NEW w \in Finished(v)
  PROVE  w \in [Index -> Bytes \union {"none"}]
BY DEF Finished, quaere, Shifted

LEMMA FinishedBytes ==
  ASSUME NEW v, \A n \in Index : v[n] \in Bytes, NEW w \in Finished(v)
  PROVE  \A n \in Index : w[n] \in Bytes
<1>1. w = v \/ w \in [Index -> Bytes]
  BY DEF Finished, quaere, Shifted
<1> QED
  BY <1>1

LEMMA ReadClearType ==
  ASSUME TypeOK, NEW r \in Readers, ReadClear(r)
  PROVE  TypeOK'
<1>1. BufferTypes' /\ ControllerTypes'
  BY ReserveType, ControllerSame DEF TypeOK, BufferTypes, ReadClear
<1>2. CASE Return(r, "flag", "FALSE")
  BY <1>2, ReturnType, <1>1 DEF TypeOK
<1>3. CASE ~Return(r, "flag", "FALSE")
  <2>1. PICK to \in {"slot", "flag", "clear"} : At(r, "flag", to)
    BY <1>3 DEF ReadClear
  <2>2. error[r] \in Nat
    BY DEF TypeOK, ReaderTypes
  <2>3. PICK e \in Nat : error' = [error EXCEPT ![r] = e]
    <3>1. CASE Clear(Host)
      BY <1>3, <3>1 DEF ReadClear
    <3>2. CASE ~Clear(Host)
      <4>1. error' = [error EXCEPT ![r] = error[r] + 1]
        BY <1>3, <3>2 DEF ReadClear
      <4>2. error[r] + 1 \in Nat
        BY <2>2
      <4> QED
        BY <4>1, <4>2
    <3> QED
      BY <3>1, <3>2
  <2>4. error' \in [Readers -> Nat]
    BY <2>3 DEF TypeOK, ReaderTypes
  <2>5. UNCHANGED <<Slot, byte, flag, result>>
    BY <1>3 DEF ReadClear
  <2>6. ReaderTypes'
    BY <2>1, <2>4, <2>5, MoveType DEF TypeOK, ReaderTypes, ReaderStates
  <2> QED
    BY <1>1, <2>6 DEF TypeOK
<1> QED
  BY <1>2, <1>3

LEMMA WriteType ==
  ASSUME TypeOK, NEW r \in Readers,
         WriteClear(r) \/ WriteSlot(r) \/ WriteIndex(r) \/ WriteStart(r)
  PROVE  TypeOK'
<1>1. PICK to \in {"flag", "index", "start", "first", "poll"},
           from \in ReaderStates : At(r, from, to)
  BY DEF WriteClear, WriteSlot, WriteIndex, WriteStart, ReaderStates
<1>2. UNCHANGED <<Slot, byte, error, flag, result, SpdData, chip, bus, datum>>
  BY DEF WriteClear, WriteSlot, WriteIndex, WriteStart
<1>3. ReaderTypes' /\ BufferTypes'
  BY <1>1, <1>2, MoveType
     DEF TypeOK, ReaderTypes, BufferTypes, ReaderStates
<1>4. CASE WriteClear(r)
  BY <1>3, <1>4, ControllerSame DEF TypeOK, ControllerTypes, WriteClear
<1>5. CASE WriteSlot(r) \/ WriteIndex(r)
  <2>1. /\ address' \in Slots \union {NoSlot} /\ command' \in Index
        /\ UNCHANGED <<busy, target, status>>
    BY <1>5 DEF TypeOK, ReaderTypes, ControllerTypes, WriteSlot, WriteIndex
  <2> QED
    BY <1>2, <1>3, <2>1 DEF TypeOK, ControllerTypes
<1>6. CASE WriteStart(r)
  <2>1. target' \in [slot : Slots \union {NoSlot}, index : Index]
    <3>1. /\ address \in Slots \union {NoSlot} /\ command \in Index
          /\ target \in [slot : Slots \union {NoSlot}, index : Index]
      BY DEF TypeOK, ControllerTypes
    <3>2. \/ target' = [slot |-> address, index |-> command]
          \/ target' = target
      BY <1>6 DEF WriteStart
    <3> QED
      BY <3>1, <3>2
  <2>2. status' \in SUBSET Bits /\ busy' \in BOOLEAN
        /\ UNCHANGED <<address, command>>
    BY <1>6 DEF TypeOK, ControllerTypes, WriteStart
  <2> QED
    BY <1>2, <1>3, <2>1, <2>2 DEF TypeOK, ControllerTypes
<1> QED
  BY <1>4, <1>5, <1>6

LEMMA LookType ==
  ASSUME TypeOK, NEW r \in Readers, FirstLook(r) \/ Look(r)
  PROVE  TypeOK'
<1>1. PICK to \in {"poll", "data"}, from \in ReaderStates : At(r, from, to)
  BY DEF FirstLook, Look, ReaderStates
<1>2. UNCHANGED <<Slot, byte, error, result, SpdData>>
  BY DEF FirstLook, Look
<1>3. flag' \in [Readers -> SUBSET Bits]
  BY PortBits DEF TypeOK, ReaderTypes, FirstLook, Look
<1>4. ReaderTypes' /\ BufferTypes'
  BY <1>1, <1>2, <1>3, MoveType
     DEF TypeOK, ReaderTypes, BufferTypes, ReaderStates
<1>5. ControllerTypes'
  BY ReserveType, ControllerSame DEF TypeOK, FirstLook, Look
<1> QED
  BY <1>4, <1>5 DEF TypeOK

LEMMA PollType == ASSUME TypeOK, NEW r \in Readers, Poll(r) PROVE TypeOK'
<1>1. BufferTypes' /\ ControllerTypes'
  BY ControllerSame DEF TypeOK, BufferTypes, ControllerTypes, Poll, controller
<1>2. CASE Return(r, "poll", "FALSE")
  BY <1>1, <1>2, ReturnType DEF TypeOK
<1>3. CASE ~Return(r, "poll", "FALSE")
  <2>1. /\ At(r, "poll", "look") /\ error' = [error EXCEPT ![r] = @ + 1]
        /\ UNCHANGED <<Slot, byte, flag, result>>
    BY <1>3 DEF Poll
  <2>2. error' \in [Readers -> Nat]
    BY <2>1 DEF TypeOK, ReaderTypes
  <2> QED
    BY <1>1, <2>1, <2>2, MoveType DEF TypeOK, ReaderTypes, ReaderStates
<1> QED
  BY <1>2, <1>3

LEMMA DataType == ASSUME TypeOK, NEW r \in Readers, ReadData(r) PROVE TypeOK'
<1> DEFINE v == [SpdData[r] EXCEPT ![byte[r]] = datum]
<1>1. v \in [Index -> Bytes \union {"none"}]
  BY DEF TypeOK, BufferTypes, ControllerTypes, ReaderTypes
<1>2. ControllerTypes'
  BY ControllerSame DEF TypeOK, ControllerTypes, ReadData, controller
<1>3. CASE byte[r] = Size - 1
  <2>1. Return(r, "data", "TRUE")
    BY <1>3 DEF ReadData
  <2>2. PICK w \in Finished(v) : SpdData' = [SpdData EXCEPT ![r] = w]
    BY <1>3 DEF ReadData
  <2>3. w \in [Index -> Bytes \union {"none"}]
    BY <1>1, FinishedType
  <2>4. BufferTypes'
    BY <2>2, <2>3 DEF TypeOK, BufferTypes
  <2> QED
    BY <1>2, <2>1, <2>4, ReturnType DEF TypeOK
<1>4. CASE byte[r] # Size - 1
  <2>1. /\ At(r, "data", "clear") /\ SpdData' = [SpdData EXCEPT ![r] = v]
        /\ byte' = [byte EXCEPT ![r] = byte[r] + 1]
        /\ error' = [error EXCEPT ![r] = 0]
        /\ UNCHANGED <<Slot, flag, result>>
    BY <1>4 DEF ReadData
  <2>2. byte[r] + 1 \in Index
    BY <1>4, IndexNext DEF TypeOK, ReaderTypes
  <2>3. byte' \in [Readers -> Index] /\ error' \in [Readers -> Nat]
    BY <2>1, <2>2 DEF TypeOK, ReaderTypes
  <2>4. BufferTypes'
    BY <1>1, <2>1 DEF TypeOK, BufferTypes
  <2> QED
    BY <1>2, <2>1, <2>3, <2>4, MoveType DEF TypeOK, ReaderTypes, ReaderStates
<1> QED
  BY <1>3, <1>4

LEMMA CompleteType == ASSUME TypeOK, Complete PROVE TypeOK'
<1>1. status' \in SUBSET Bits
  BY StatusBits DEF TypeOK, ControllerTypes, Complete
<1>2. target.slot \in Modules => Contents[target.slot][target.index] \in Bytes
  <2>1. target.index \in Index
    BY DEF TypeOK, ControllerTypes
  <2>2. Contents \in [Modules -> [Index -> Bytes]]
    BY SmBusAssumption
  <2> QED
    BY <2>1, <2>2
<1>3. datum' \in Bytes \union {"none"}
  BY <1>2 DEF TypeOK, ControllerTypes, Complete
<1> QED
  BY <1>1, <1>3
     DEF TypeOK, ReaderTypes, BufferTypes, ControllerTypes, Complete, reader

LEMMA TypeStep == TypeOK /\ [Next]_vars => TypeOK'
<1> SUFFICES ASSUME TypeOK, [Next]_vars PROVE TypeOK'
  OBVIOUS
<1>1. ASSUME NEW r \in Readers, Unknown(r) \/ Kill(r) PROVE TypeOK'
  <2>1. \E from : Return(r, from, "FALSE")
    BY <1>1 DEF Unknown, Kill
  <2>2. ReaderTypes'
    BY <2>1, ReturnType DEF TypeOK
  <2> QED
    BY <1>1, <2>2
       DEF TypeOK, BufferTypes, ControllerTypes, Unknown, Kill, controller
<1>2. ASSUME NEW r \in Readers, Read(r) PROVE TypeOK'
  BY <1>1, <1>2, ReadClearType, WriteType, LookType, PollType, DataType
     DEF Read
<1>3. ASSUME NEW r \in Readers, NEW s \in Slots, ReadSpdData(r, s)
      PROVE  TypeOK'
  BY <1>3 DEF TypeOK, ReaderTypes, BufferTypes, ControllerTypes, ReadSpdData,
              At, ReaderStates, Nothing, controller
<1>4. CASE UNCHANGED vars
  BY <1>4 DEF TypeOK, ReaderTypes, BufferTypes, ControllerTypes, vars, reader,
              controller
<1> QED
  BY <1>1, <1>2, <1>3, <1>4, CompleteType DEF Next

LEMMA TypeInit == Init => TypeOK
<1> SUFFICES ASSUME Init PROVE TypeOK
  OBVIOUS
<1>1. ReaderTypes
  BY IndexFacts DEF Init, ReaderTypes, ReaderStates
<1>2. BufferTypes
  BY DEF Init, BufferTypes, Nothing
<1>3. chip \in ChipTypes /\ bus \in {"controller", "no driver", "nothing"}
  BY SmBusAssumption DEF Init
<1>4. target \in [slot : Slots \union {NoSlot}, index : Index]
  <2>1. target = [slot |-> NoSlot, index |-> 0]
    BY DEF Init
  <2> QED
    BY <2>1, IndexFacts
<1>5. /\ address \in Slots \union {NoSlot} /\ busy \in BOOLEAN
      /\ status \in SUBSET Bits /\ datum \in Bytes \union {"none"}
  BY DEF Init
<1>6. command \in Index
  BY IndexFacts DEF Init
<1>7. ControllerTypes
  BY <1>3, <1>4, <1>5, <1>6 DEF ControllerTypes
<1> QED
  BY <1>1, <1>2, <1>7 DEF TypeOK

\* No register, local or buffer ever holds anything but a value of its type:
\* no reader writes outside its buffer, whatever the others do.
THEOREM TypeCorrect == Spec => []TypeOK
BY TypeInit, TypeStep, PTL DEF Spec

-----------------------------------------------------------------------------
(* Bytes.  A reader that sees a transaction end well finds a byte in the   *)
(* data register, whoever began that transaction.                          *)

\* A status that no success has a part in.
Unread(f) ==
  /\ chip \in SIS => 3 \notin f
  /\ chip \in NForce => /\ 7 \in f => 4 \in f \/ 1 \in f
                        /\ 0 \in f => 1 \in f
  /\ chip = "ATISB" => (1 \in f => 2 \in f)
  /\ chip \notin SIS \union NForce \union {"ATISB"} => 1 \notin f

StatusInv == datum = "none" => Unread(status)

\* Where nothing answers, no reader gets as far as a look, VIA's because it
\* sees that there is no module.
PortsInv ==
  bus = "nothing" => \A r \in Readers :
    \/ pc[r] \in {"idle", "unknown", "clear", "flag"}
    \/ /\ chip = "VIA8235"
       /\ pc[r] \in {"slot", "index", "start", "first"}
    \/ chip = "VIA8235" /\ pc[r] = "poll" /\ 2 \in flag[r]

DataInv == \A r \in Readers : pc[r] = "data" => datum # "none"

FilledInv ==
  \A r \in Readers :
    /\ pc[r] \in {"idle", "unknown"} => byte[r] = 0
    /\ \A n \in Index : n < byte[r] => SpdData[r][n] \in Bytes

BytesInv == StatusInv /\ PortsInv /\ DataInv /\ FilledInv /\ BytesAreReal

LEMMA UnreadGrows ==
  ASSUME NEW f, Unread(f)
  PROVE  Unread(f \union NotThere) /\ Unread(f \union BusError)
<1>1. CASE chip \in SIS
  BY <1>1 DEF Unread, NotThere, BusError, SIS, NForce
<1>2. CASE chip \in NForce
  BY <1>2 DEF Unread, NotThere, BusError, SIS, NForce
<1>3. CASE chip = "ATISB"
  BY <1>3 DEF Unread, NotThere, BusError, SIS, NForce
<1>4. CASE chip \notin SIS \union NForce \union {"ATISB"}
  BY <1>4 DEF Unread, NotThere, BusError
<1> QED
  BY <1>1, <1>2, <1>3, <1>4

LEMMA UnreadStays ==
  ASSUME NEW f, Unread(f)
  PROVE  Unread({}) /\ Unread(f \union {6})
BY DEF Unread

LEMMA UnreadNotDone ==
  ASSUME NEW f, Unread(f)
  PROVE  ~Done(f) /\ (chip \notin NForce => ~Done(f \union {0}))
<1>1. CASE chip \in SIS
  BY <1>1 DEF Unread, Done, SIS, NForce
<1>2. CASE chip \in NForce
  BY <1>2 DEF Unread, Done, SIS, NForce
<1>3. CASE chip = "ATISB"
  BY <1>3 DEF Unread, Done, SIS, NForce
<1>4. CASE chip \notin SIS \union NForce \union {"ATISB"}
  BY <1>4 DEF Unread, Done, SIS, NForce
<1> QED
  BY <1>1, <1>2, <1>3, <1>4

\* A look that finds the transaction done finds a byte.
LEMMA DoneHasByte ==
  ASSUME ControllerTypes, StatusInv, bus # "nothing", Done(Status)
  PROVE  datum # "none"
<1> SUFFICES ASSUME datum = "none" PROVE FALSE
  OBVIOUS
<1>1. Unread(status)
  BY DEF StatusInv
<1>2. CASE bus = "controller"
  BY <1>1, <1>2, UnreadNotDone DEF Status, Ports
<1>3. CASE bus # "controller"
  <2>1. Status = {}
    BY <1>3 DEF ControllerTypes, Status, Ports
  <2>2. ~Done({})
    BY <1>1, UnreadStays, UnreadNotDone
  <2> QED
    BY <2>1, <2>2
<1> QED
  BY <1>2, <1>3

\* The status grows by the end of a transaction, or is cleared.
LEMMA StatusStep ==
  ASSUME TypeOK, StatusInv, [Next]_vars
  PROVE  StatusInv'
<1> SUFFICES ASSUME datum' = "none" PROVE Unread(status)'
  BY DEF StatusInv
<1>1. ASSUME chip' = chip, NEW f, Unread(f), status' = f
      PROVE  Unread(status)'
  BY <1>1 DEF Unread
<1>2. CASE Complete
  <2>1. target.slot \in Modules => Contents[target.slot][target.index] # "none"
    <3>1. target.index \in Index
      BY DEF TypeOK, ControllerTypes
    <3>2. Contents \in [Modules -> [Index -> Bytes]] /\ "none" \notin Bytes
      BY SmBusAssumption
    <3> QED
      BY <3>1, <3>2
  <2>2. datum = "none" /\ chip' = chip
    BY <1>2, <2>1 DEF Complete
  <2>3. \/ status' = status \union NotThere
        \/ status' = status \union BusError
    BY <1>2, <2>1 DEF Complete
  <2> QED
    BY <1>1, <2>2, <2>3, UnreadGrows DEF StatusInv
<1>3. CASE ~Complete
  <2>1. UNCHANGED <<chip, datum>>
    BY <1>3 DEF Next, Read, Unknown, WriteClear, ReadClear, WriteSlot,
       WriteIndex, WriteStart, FirstLook, Poll, Look, ReadData, Kill,
       ReadSpdData, vars, controller
  <2>2. status' \in {status, {}, status \union {6}}
    BY <1>3 DEF Next, Read, Unknown, WriteClear, ReadClear, WriteSlot,
       WriteIndex, WriteStart, FirstLook, Poll, Look, ReadData, Kill,
       ReadSpdData, Reserve, vars, controller
  <2>3. Unread(status)
    BY <2>1 DEF StatusInv
  <2> QED
    BY <1>1, <2>1, <2>2, <2>3, UnreadStays
<1> QED
  BY <1>2, <1>3

\* What a step does to the reader that takes it and to the other readers.
LEMMA OthersWait ==
  ASSUME TypeOK, NEW r \in Readers, NEW q \in Readers, q # r,
         Read(r) \/ Kill(r) \/ \E s \in Slots : ReadSpdData(r, s)
  PROVE  /\ pc'[q] = pc[q] /\ byte'[q] = byte[q] /\ flag'[q] = flag[q]
         /\ SpdData'[q] = SpdData[q] /\ result'[q] = result[q]
<1> USE DEF TypeOK, ReaderTypes, BufferTypes
<1>1. CASE Kill(r) \/ Unknown(r) \/ \E s \in Slots : ReadSpdData(r, s)
  BY <1>1 DEF Kill, Unknown, ReadSpdData, Return, At
<1>2. CASE WriteClear(r) \/ WriteSlot(r) \/ WriteIndex(r) \/ WriteStart(r)
  BY <1>2 DEF WriteClear, WriteSlot, WriteIndex, WriteStart, At
<1>3. CASE ReadClear(r)
  BY <1>3 DEF ReadClear, Return, At
<1>4. CASE FirstLook(r) \/ Look(r)
  BY <1>4 DEF FirstLook, Look, At
<1>5. CASE Poll(r)
  BY <1>5 DEF Poll, Return, At
<1>6. CASE ReadData(r)
  <2>1. PICK w : SpdData' = [SpdData EXCEPT ![r] = w]
    BY <1>6 DEF ReadData
  <2>2. Return(r, "data", "TRUE") \/ At(r, "data", "clear")
    BY <1>6 DEF ReadData
  <2>3. \/ Return(r, "data", "TRUE")
        \/ /\ At(r, "data", "clear")
           /\ byte' = [byte EXCEPT ![r] = @ + 1] /\ UNCHANGED <<flag, result>>
    BY <1>6 DEF ReadData
  <2> QED
    BY <2>1, <2>3 DEF Return, At
<1> QED
  BY <1>1, <1>2, <1>3, <1>4, <1>5, <1>6 DEF Read

\* Next, from the readers' side.
LEMMA NextCases ==
  ASSUME [Next]_vars
  PROVE  \/ UNCHANGED <<chip, bus, reader>>
         \/ \E r \in Readers : /\ chip' = chip /\ bus' = bus /\ datum' = datum
                               /\ \/ Read(r) \/ Kill(r)
                                  \/ \E s \in Slots : ReadSpdData(r, s)
BY DEF Next, Read, Unknown, WriteClear, ReadClear, WriteSlot,
       WriteIndex, WriteStart, FirstLook, Poll, Look, ReadData, Kill,
       ReadSpdData, Complete, vars, controller, reader

\* A reader that returned, or was asked, has got nowhere yet.
LEMMA ReturnStep ==
  ASSUME TypeOK, NEW r \in Readers, NEW from, NEW answer,
         Return(r, from, answer)
  PROVE  pc'[r] = "idle" /\ byte'[r] = 0 /\ result'[r] = answer
BY DEF TypeOK, ReaderTypes, Return, At

\* Where nothing answers, a reader returns before it looks for a byte.
LEMMA PortsStep ==
  ASSUME TypeOK, PortsInv, [Next]_vars
  PROVE  PortsInv'
<1> SUFFICES ASSUME bus' = "nothing", NEW q \in Readers
             PROVE  (\/ pc[q] \in {"idle", "unknown", "clear", "flag"}
                     \/ /\ chip = "VIA8235"
                        /\ pc[q] \in {"slot", "index", "start", "first"}
                     \/ chip = "VIA8235" /\ pc[q] = "poll" /\ 2 \in flag[q])'
  BY DEF PortsInv
<1>1. CASE UNCHANGED <<chip, bus, reader>>
  BY <1>1 DEF PortsInv, reader
<1>2. ASSUME NEW r \in Readers, chip' = chip, bus' = bus,
             Read(r) \/ Kill(r) \/ \E s \in Slots : ReadSpdData(r, s)
      PROVE  (\/ pc[q] \in {"idle", "unknown", "clear", "flag"}
              \/ /\ chip = "VIA8235"
                 /\ pc[q] \in {"slot", "index", "start", "first"}
              \/ chip = "VIA8235" /\ pc[q] = "poll" /\ 2 \in flag[q])'
  <2>1. CASE q # r
    BY <1>2, <2>1, OthersWait DEF PortsInv
  <2>2. CASE q = r /\ \E from, answer : Return(q, from, answer)
    BY <2>2, ReturnStep
  <2>3. CASE q = r /\ ~\E from, answer : Return(q, from, answer)
    <3> USE <2>3 DEF TypeOK, ReaderTypes
    <3>1. CASE \E s \in Slots : ReadSpdData(q, s)
      BY <1>2, <3>1 DEF ReadSpdData, At
    <3>2. CASE WriteClear(q) \/ WriteSlot(q) \/ WriteIndex(q) \/ WriteStart(q)
      BY <1>2, <3>2 DEF PortsInv, WriteClear, WriteSlot, WriteIndex,
                        WriteStart, At
    <3>3. CASE ReadClear(q)
      <4>1. Host = Bits
        BY <1>2 DEF Host, Ports
      <4>2. chip = "VIA8235" \/ ~Clear(Host)
        BY <4>1 DEF Clear, Bits
      <4>3. ~Return(q, "flag", "FALSE")
        BY <2>3
      <4>4. pc'[q] = IF Clear(Host) THEN "slot"
                     ELSE IF chip = "VIA8235" THEN "flag" ELSE "clear"
        BY <3>3, <4>3 DEF ReadClear, At
      <4> QED
        BY <1>2, <4>2, <4>4
    <3>4. CASE FirstLook(q)
      <4>1. Status = Bits
        BY <1>2 DEF Status, Ports
      <4>3. 2 \in Bits
        BY DEF Bits
      <4>2. pc'[q] = "poll" /\ flag'[q] = Status /\ pc[q] = "first"
        BY <3>4 DEF FirstLook, At
      <4> QED
        BY <1>2, <4>1, <4>2, <4>3 DEF PortsInv
    <3>5. CASE Poll(q)
      <4>1. chip = "VIA8235" /\ pc[q] = "poll" /\ 2 \in flag[q]
        BY <1>2, <3>5 DEF PortsInv, Poll
      <4>2. NoModule(flag[q])
        BY <4>1 DEF NoModule, SIS, NForce
      <4>3. Return(q, "poll", "FALSE")
        BY <3>5, <4>1, <4>2 DEF Poll
      <4> QED
        BY <4>3
    <3>6. CASE Look(q) \/ ReadData(q)
      BY <1>2, <3>6 DEF PortsInv, Look, ReadData, At, Return
    <3> QED
      BY <1>2, <3>1, <3>2, <3>3, <3>4, <3>5, <3>6 DEF Read, Unknown, Kill
  <2> QED
    BY <2>1, <2>2, <2>3
<1> QED
  BY <1>1, <1>2, NextCases

LEMMA DataStep ==
  ASSUME TypeOK, StatusInv, PortsInv, DataInv, [Next]_vars
  PROVE  DataInv'
<1> SUFFICES ASSUME NEW q \in Readers, pc'[q] = "data" PROVE datum' # "none"
  BY DEF DataInv
<1>1. CASE pc[q] = "data"
  <2>1. datum # "none"
    BY <1>1 DEF DataInv
  <2>2. datum' # datum => \E s \in Modules : target.slot = s
                            /\ datum' = Contents[s][target.index]
    BY DEF Next, Read, Unknown, WriteClear, ReadClear, WriteSlot,
       WriteIndex, WriteStart, FirstLook, Poll, Look, ReadData, Kill,
       ReadSpdData, Complete, vars, controller
  <2>3. target.index \in Index
    BY DEF TypeOK, ControllerTypes
  <2>4. Contents \in [Modules -> [Index -> Bytes]] /\ "none" \notin Bytes
    BY SmBusAssumption
  <2> QED
    BY <2>1, <2>2, <2>3, <2>4
<1>2. CASE pc[q] # "data"
  <2>1. PICK r \in Readers : /\ chip' = chip /\ bus' = bus /\ datum' = datum
                             /\ \/ Read(r) \/ Kill(r)
                                \/ \E s \in Slots : ReadSpdData(r, s)
    BY <1>2, NextCases DEF reader
  <2>2. q = r
    BY <1>2, <2>1, OthersWait
  <2>3. ~\E from, answer : Return(q, from, answer)
    BY ReturnStep
  <2>4. Look(q) /\ Done(Status)
    BY <1>2, <2>1, <2>2, <2>3 DEF TypeOK, ReaderTypes, Read, Unknown,
       WriteClear, ReadClear, WriteSlot, WriteIndex, WriteStart, FirstLook,
       Poll, Look, ReadData, Kill, ReadSpdData, At
  <2>5. bus # "nothing"
    BY <2>4 DEF PortsInv, Look, At
  <2> QED
    BY <2>1, <2>4, <2>5, DoneHasByte DEF TypeOK
<1> QED
  BY <1>1, <1>2

\* The buffer of a reader is written by its ReadData, and cleared with byte.
LEMMA BufferKept ==
  ASSUME TypeOK, NEW q \in Readers, [Next]_vars, ~ReadData(q),
         ~\E s \in Slots : ReadSpdData(q, s)
  PROVE  /\ SpdData'[q] = SpdData[q] /\ (byte'[q] = byte[q] \/ byte'[q] = 0)
         /\ result'[q] \in {result[q], "FALSE"}
         /\ pc'[q] = "idle" => pc[q] = "idle" \/ byte'[q] = 0
         /\ pc'[q] = "unknown" => pc[q] = "unknown"
<1>1. CASE UNCHANGED <<chip, bus, reader>>
  BY <1>1 DEF reader
<1>2. ASSUME NEW r \in Readers,
             Read(r) \/ Kill(r) \/ \E s \in Slots : ReadSpdData(r, s), q # r
      PROVE  /\ SpdData'[q] = SpdData[q] /\ byte'[q] = byte[q]
             /\ result'[q] = result[q] /\ pc'[q] = pc[q]
  BY <1>2, OthersWait
<1>3. ASSUME Read(q) \/ Kill(q)
      PROVE  /\ SpdData' = SpdData
             /\ \/ UNCHANGED <<byte, result>> /\ pc'[q] \notin {"idle", "unknown"}
                \/ \E from : Return(q, from, "FALSE")
  BY <1>3 DEF TypeOK, ReaderTypes, Read, Unknown,
       WriteClear, ReadClear, WriteSlot, WriteIndex, WriteStart, FirstLook,
       Poll, Look, Kill, At
<1> QED
  BY <1>1, <1>2, <1>3, NextCases, ReturnStep

\* The bytes before the current one are bytes of some module.
LEMMA FilledStep ==
  ASSUME TypeOK, DataInv, FilledInv, BytesAreReal, [Next]_vars
  PROVE  FilledInv' /\ BytesAreReal'
<1> SUFFICES ASSUME NEW q \in Readers
             PROVE  /\ (pc[q] \in {"idle", "unknown"} => byte[q] = 0)'
                    /\ (\A n \in Index : n < byte[q] => SpdData[q][n] \in Bytes)'
                    /\ (result[q] = "TRUE" =>
                          \A n \in Index : SpdData[q][n] \in Bytes)'
  BY DEF FilledInv, BytesAreReal
<1> USE IndexFacts
<1>1. CASE ~ReadData(q) /\ ~\E s \in Slots : ReadSpdData(q, s)
  <2>1. /\ SpdData'[q] = SpdData[q] /\ (byte'[q] = byte[q] \/ byte'[q] = 0)
        /\ result'[q] \in {result[q], "FALSE"}
        /\ pc'[q] = "idle" => pc[q] = "idle" \/ byte'[q] = 0
        /\ pc'[q] = "unknown" => pc[q] = "unknown"
    BY <1>1, BufferKept
  <2> QED
    BY <2>1 DEF FilledInv, BytesAreReal
<1>2. CASE \E s \in Slots : ReadSpdData(q, s)
  <2>1. pc[q] = "idle" /\ byte' = byte /\ result'[q] = "none"
    BY <1>2 DEF TypeOK, ReaderTypes, ReadSpdData, At
  <2> QED
    BY <2>1 DEF FilledInv
<1>3. CASE ReadData(q)
  <2> DEFINE v == [SpdData[q] EXCEPT ![byte[q]] = datum]
  <2>1. byte[q] \in Index /\ datum \in Bytes /\ pc[q] = "data"
    BY <1>3 DEF TypeOK, ReaderTypes, ControllerTypes, DataInv, ReadData, At,
                Return
  <2>2. \A n \in Index : n <= byte[q] => v[n] \in Bytes
    <3> SUFFICES ASSUME NEW n \in Index, n <= byte[q] PROVE v[n] \in Bytes
      OBVIOUS
    <3>1. SpdData[q] \in [Index -> Bytes \union {"none"}]
      BY DEF TypeOK, BufferTypes
    <3>2. CASE n = byte[q]
      BY <2>1, <3>1, <3>2
    <3>3. CASE n # byte[q]
      <4>1. n < byte[q]
        <5>1. n \in Nat /\ byte[q] \in Nat
          BY <2>1
        <5> QED
          BY <3>3, <5>1
      <4>2. SpdData[q][n] \in Bytes
        BY <4>1 DEF FilledInv
      <4>3. v[n] = SpdData[q][n]
        BY <3>1, <3>3
      <4> QED
        BY <4>2, <4>3
    <3> QED
      BY <3>2, <3>3
  <2>3. CASE byte[q] = Size - 1
    <3>1. Return(q, "data", "TRUE")
      BY <1>3, <2>3 DEF ReadData
    <3>2. PICK w \in Finished(v) : SpdData' = [SpdData EXCEPT ![q] = w]
      BY <1>3, <2>3 DEF ReadData
    <3>3. \A n \in Index : v[n] \in Bytes
      BY <2>2, <2>3, SizeType DEF Index
    <3>4. \A n \in Index : w[n] \in Bytes
      BY <3>2, <3>3, FinishedBytes
    <3>5. SpdData'[q] = w
      BY <3>2 DEF TypeOK, BufferTypes
    <3> QED
      BY <3>1, <3>4, <3>5, ReturnStep
  <2>4. CASE byte[q] # Size - 1
    <3>1. /\ SpdData' = [SpdData EXCEPT ![q] = v]
          /\ byte' = [byte EXCEPT ![q] = byte[q] + 1]
          /\ pc' = [pc EXCEPT ![q] = "clear"] /\ result' = result
      BY <1>3, <2>4 DEF ReadData, At
    <3>2. SpdData'[q] = v /\ byte'[q] = byte[q] + 1 /\ pc'[q] = "clear"
      BY <3>1 DEF TypeOK, BufferTypes, ReaderTypes
    <3>3. \A n \in Index : n < byte[q] + 1 => n <= byte[q]
      <4>1. byte[q] \in Nat /\ \A n \in Index : n \in Nat
        BY <2>1
      <4> QED
        BY <4>1
    <3>4. result[q] = "TRUE" => \A n \in Index : v[n] \in Bytes
      BY <2>1 DEF BytesAreReal, TypeOK, BufferTypes
    <3> QED
      BY <2>2, <3>1, <3>2, <3>3, <3>4
  <2> QED
    BY <2>3, <2>4
<1> QED
  BY <1>1, <1>2, <1>3

LEMMA BytesKept == Spec => [](BytesInv /\ FilledInv)
<1>1. Init => BytesInv
  BY IndexFacts DEF Init, BytesInv, StatusInv, Unread, PortsInv, DataInv,
                    FilledInv, BytesAreReal
<1>2. TypeOK /\ BytesInv /\ [Next]_vars => BytesInv'
  BY StatusStep, PortsStep, DataStep, FilledStep DEF BytesInv
<1>3. BytesInv => FilledInv
  BY DEF BytesInv
<1> QED
  BY <1>1, <1>2, <1>3, TypeCorrect, PTL DEF Spec

\* However many readers use the controller at once, whoever is told TRUE has
\* bytes that were read from modules, as many as were asked for: no place of
\* the buffer is left as it was, and none comes from ports nobody answers.
THEOREM BytesAreRead == Spec => []BytesAreReal
<1>1. BytesInv => BytesAreReal
  BY DEF BytesInv
<1> QED
  BY <1>1, BytesKept, PTL

-----------------------------------------------------------------------------
(* One reader of a controller that is not VIA's keeps the contract of      *)
(* ReadSpdData, whatever the controller does: every behaviour of SmBus is  *)
(* a behaviour of SpdContract.  The VIA reader does not: it does not wait  *)
(* until the controller is free, and may get the byte of a transaction     *)
(* that an earlier reader began.                                           *)

OneReader == "VIA8235" \notin Chips /\ \E r \in Readers : Readers = {r}

-----------------------------------------------------------------------------
(* The invariant. *)

ChipInv == chip \in Chips

\* Without a controller nothing begins.
BusInv == bus # "controller" => ~busy /\ status = {}

\* A reader waits for an answer about a slot, or it is idle; VIA's look ahead
\* is not taken.
AskedInv(r) ==
  /\ pc[r] = "idle" => Slot[r] = NoSlot
  /\ pc[r] # "idle" => Slot[r] \in Slots /\ result[r] = "none"
  /\ pc[r] # "first"

\* A status on which only the end of a transaction can set the bits a reader
\* waits for.
Unsaid(f) == IF chip \in NForce THEN f = {} ELSE 1 \notin f /\ 3 \notin f

\* Once the controller was seen clear nothing is under way, so the registers
\* are the reader's own ...
RegistersInv(r) ==
  /\ pc[r] \in {"slot", "index", "start"} =>
       ~busy /\ bus # "nothing" /\ (chip \notin NForce => Unsaid(status))
  /\ pc[r] \in {"index", "start"} => address = Slot[r]
  /\ pc[r] = "start" => command = byte[r]

Right(r) == Slot[r] \in Modules /\ datum = Contents[Slot[r]][byte[r]]

\* ... and so is the transaction it waits for ...
LookInv(r) ==
  pc[r] \in {"poll", "look"} =>
    /\ bus # "nothing"
    /\ busy => /\ target.slot = Slot[r] /\ target.index = byte[r]
               /\ Unsaid(status)
    /\ ~busy /\ Done(status) => Right(r)

\* ... and the byte it finds.
ByteInv(r) == pc[r] = "data" => ~busy /\ Right(r)

PrefixInv(r) ==
  \A n \in Index : n < byte[r] =>
    Slot[r] \in Modules /\ SpdData[r][n] = Contents[Slot[r]][n]

ReaderInv(r) ==
  AskedInv(r) /\ RegistersInv(r) /\ LookInv(r) /\ ByteInv(r) /\ PrefixInv(r)

OneInv == ChipInv /\ BusInv /\ \A r \in Readers : ReaderInv(r)

-----------------------------------------------------------------------------
(* The bits. *)

LEMMA UnsaidNotDone ==
  ASSUME NEW f, Unsaid(f)
  PROVE  ~Done(f) /\ (chip \notin NForce => ~Done(f \union {0}))
<1>1. CASE chip \in NForce
  BY <1>1 DEF Unsaid, Done, SIS, NForce
<1>2. CASE chip \notin NForce
  BY <1>2 DEF Unsaid, Done, SIS, NForce
<1> QED
  BY <1>1, <1>2

LEMMA UnsaidFailed ==
  ASSUME NEW f, Unsaid(f)
  PROVE  ~Done(f \union NotThere) /\ ~Done(f \union BusError)
<1>1. CASE chip \in NForce
  BY <1>1 DEF Unsaid, Done, NotThere, BusError, SIS, NForce
<1>2. CASE chip \in SIS
  BY <1>2 DEF Unsaid, Done, NotThere, BusError, SIS, NForce
<1>3. CASE chip = "ATISB"
  BY <1>3 DEF Unsaid, Done, NotThere, BusError, SIS, NForce
<1>4. CASE chip \notin NForce \union SIS \union {"ATISB"}
  BY <1>4 DEF Unsaid, Done, NotThere, BusError, SIS, NForce
<1> QED
  BY <1>1, <1>2, <1>3, <1>4

\* A controller seen clear is free.
LEMMA ClearIsFree ==
  ASSUME ControllerTypes, BusInv, chip # "VIA8235", Clear(Host)
  PROVE  ~busy /\ bus # "nothing" /\ (chip \notin NForce => Unsaid(status))
<1>1. bus # "nothing"
  <2> SUFFICES ASSUME bus = "nothing" PROVE FALSE
    OBVIOUS
  <2>1. Host = Bits
    BY DEF Host, Ports
  <2>2. 1 \in Bits
    BY DEF Bits
  <2> QED
    BY <2>1, <2>2 DEF Clear
<1>2. CASE bus = "no driver"
  BY <1>1, <1>2 DEF BusInv, Unsaid
<1>3. CASE bus = "controller"
  <2>1. CASE chip \in NForce
    <3>1. Host = IF busy THEN {0, 1, 2} ELSE {}
      BY <1>3, <2>1 DEF Host, Ports
    <3>2. ~Clear({0, 1, 2})
      BY <2>1 DEF Clear, SIS, NForce
    <3> QED
      BY <1>1, <2>1, <3>1, <3>2
  <2>2. CASE chip \notin NForce
    <3>1. Host = status \union (IF busy THEN {0} ELSE {})
      BY <1>3, <2>2 DEF Host, Ports
    <3>2. 0 \notin Host /\ 1 \notin Host /\ 3 \notin Host
      BY DEF Clear
    <3> QED
      BY <1>1, <2>2, <3>1, <3>2 DEF Unsaid
  <2> QED
    BY <2>1, <2>2
<1> QED
  BY <1>1, <1>2, <1>3 DEF ControllerTypes

\* A look that finds the transaction done finds it over.
LEMMA DoneIsOver ==
  ASSUME ControllerTypes, BusInv, bus # "nothing", busy => Unsaid(status),
         Done(Status)
  PROVE  ~busy /\ Done(status)
<1>1. CASE bus = "controller"
  <2>1. Status = IF chip \notin NForce /\ busy THEN status \union {0}
                 ELSE status
    BY <1>1 DEF Status, Ports
  <2> QED
    BY <2>1, UnsaidNotDone
<1>2. CASE bus = "no driver"
  <2>1. Status = {} /\ status = {} /\ ~busy
    BY <1>2 DEF Status, Ports, BusInv
  <2> QED
    BY <2>1
<1> QED
  BY <1>1, <1>2 DEF ControllerTypes

-----------------------------------------------------------------------------
(* The steps. *)

LEMMA ChipStep == ASSUME ChipInv, [Next]_vars PROVE ChipInv' /\ bus' = bus
BY NextCases DEF ChipInv

LEMMA BusStep == ASSUME TypeOK, OneReader, ChipInv, BusInv, [Next]_vars PROVE BusInv'
<1> SUFFICES ASSUME bus # "controller" PROVE busy' = busy /\ status' = {}
  BY ChipStep DEF BusInv, ChipInv
<1> USE DEF BusInv
<1>1. CASE UNCHANGED controller
  BY <1>1 DEF controller
<1>2. CASE Complete
  BY <1>2 DEF Complete
<1>3. ASSUME NEW r \in Readers,
             WriteClear(r) \/ WriteSlot(r) \/ WriteIndex(r) \/ WriteStart(r)
      PROVE  UNCHANGED <<busy, status>>
  BY <1>3 DEF WriteClear, WriteSlot, WriteIndex, WriteStart
<1>4. ASSUME NEW r \in Readers, ReadClear(r) \/ FirstLook(r) \/ Look(r)
      PROVE  UNCHANGED <<busy, status>>
  BY <1>4 DEF ReadClear, FirstLook, Look, Reserve
<1>5. ASSUME NEW r \in Readers,
             Unknown(r) \/ Poll(r) \/ ReadData(r) \/ Kill(r)
               \/ \E s \in Slots : ReadSpdData(r, s)
      PROVE  UNCHANGED controller
  BY <1>5 DEF Unknown, Poll, ReadData, Kill, ReadSpdData
<1> QED
  BY <1>1, <1>2, <1>3, <1>4, <1>5 DEF Next, Read, vars

\* A reader that has returned waits for nothing.
LEMMA ReturnInv ==
  ASSUME TypeOK, NEW r \in Readers, NEW from, NEW answer,
         Return(r, from, answer)
  PROVE  ReaderInv(r)'
<1>1. pc'[r] = "idle" /\ Slot'[r] = NoSlot /\ byte'[r] = 0
  BY DEF TypeOK, ReaderTypes, Return, At
<1>2. \A n \in Index : ~(n < 0)
  BY IndexFacts
<1> QED
  BY <1>1, <1>2 DEF ReaderInv, AskedInv, RegistersInv, LookInv, ByteInv,
                    PrefixInv

LEMMA AskStep ==
  ASSUME TypeOK, FilledInv, NEW r \in Readers, NEW s \in Slots,
         ReadSpdData(r, s)
  PROVE  ReaderInv(r)'
<1>1. /\ pc'[r] \in {"unknown", "clear"} /\ Slot'[r] = s
      /\ byte' = byte /\ pc[r] = "idle" /\ result'[r] = "none"
  BY DEF TypeOK, ReaderTypes, ReadSpdData, At
<1>2. byte[r] = 0
  BY <1>1 DEF FilledInv
<1>3. \A n \in Index : ~(n < 0)
  BY IndexFacts
<1> QED
  BY <1>1, <1>2, <1>3 DEF ReaderInv, AskedInv, RegistersInv, LookInv, ByteInv,
                          PrefixInv

LEMMA ClearStep ==
  ASSUME TypeOK, ChipInv, OneReader, BusInv, NEW r \in Readers, ReaderInv(r),
         WriteClear(r) \/ ReadClear(r), ~\E from, answer : Return(r, from, answer)
  PROVE  ReaderInv(r)'
<1>1. /\ pc[r] \in {"clear", "flag"} /\ pc'[r] \in {"slot", "flag", "clear"}
      /\ UNCHANGED <<Slot, byte, result, SpdData, chip, bus, busy>>
  BY DEF TypeOK, ReaderTypes, WriteClear, ReadClear, At
<1>2. chip # "VIA8235"
  BY DEF ChipInv, OneReader
<1>3. CASE pc'[r] = "slot"
  <2>1. ReadClear(r)
    BY <1>3 DEF TypeOK, ReaderTypes, WriteClear, At
  <2>2. Clear(Host) /\ status' = status
    BY <1>2, <1>3, <2>1 DEF TypeOK, ReaderTypes, ReadClear, Reserve, At
  <2>3. ~busy /\ bus # "nothing" /\ (chip \notin NForce => Unsaid(status))
    BY <1>2, <2>2, ClearIsFree DEF TypeOK
  <2> QED
    BY <1>1, <1>3, <2>2, <2>3
       DEF ReaderInv, AskedInv, RegistersInv, LookInv, ByteInv, PrefixInv, Unsaid
<1>4. CASE pc'[r] # "slot"
  BY <1>1, <1>4
     DEF ReaderInv, AskedInv, RegistersInv, LookInv, ByteInv, PrefixInv
<1> QED
  BY <1>3, <1>4

LEMMA WriteStep ==
  ASSUME TypeOK, NEW r \in Readers, ReaderInv(r), WriteSlot(r) \/ WriteIndex(r)
  PROVE  ReaderInv(r)'
<1>1. /\ UNCHANGED <<Slot, byte, result, SpdData, chip, bus, busy, status>>
      /\ \/ pc[r] = "slot" /\ pc'[r] = "index" /\ address' = Slot[r]
         \/ /\ pc[r] = "index" /\ pc'[r] = "start" /\ command' = byte[r]
            /\ address' = address
  BY DEF TypeOK, ReaderTypes, WriteSlot, WriteIndex, At
<1> QED
  BY <1>1 DEF ReaderInv, AskedInv, RegistersInv, LookInv, ByteInv, PrefixInv,
              Unsaid

LEMMA StartStep ==
  ASSUME TypeOK, ChipInv, OneReader, BusInv, NEW r \in Readers, ReaderInv(r),
         WriteStart(r)
  PROVE  ReaderInv(r)'
<1>1. /\ UNCHANGED <<Slot, byte, result, SpdData, chip, bus>>
      /\ pc[r] = "start" /\ pc'[r] = "poll"
  BY DEF TypeOK, ReaderTypes, ChipInv, OneReader, WriteStart, At
<1>2. /\ ~busy /\ bus # "nothing" /\ (chip \notin NForce => Unsaid(status))
      /\ address = Slot[r] /\ command = byte[r]
  BY <1>1 DEF ReaderInv, RegistersInv
<1>3. CASE bus = "controller"
  <2>1. /\ busy' = TRUE /\ target' = [slot |-> address, index |-> command]
        /\ status' = IF chip \in NForce THEN {} ELSE status
    BY <1>2, <1>3 DEF WriteStart
  <2>2. Unsaid(status)'
    BY <1>1, <1>2, <2>1 DEF Unsaid
  <2> QED
    BY <1>1, <1>2, <2>1, <2>2
       DEF ReaderInv, AskedInv, RegistersInv, LookInv, ByteInv, PrefixInv
<1>4. CASE bus # "controller"
  <2>1. busy' = busy /\ status' = {}
    BY <1>4 DEF WriteStart, BusInv
  <2>2. ~Done({})'
    BY <1>1 DEF Done, SIS, NForce
  <2> QED
    BY <1>1, <1>2, <2>1, <2>2
       DEF ReaderInv, AskedInv, RegistersInv, LookInv, ByteInv, PrefixInv
<1> QED
  BY <1>3, <1>4

LEMMA LookStep ==
  ASSUME TypeOK, ChipInv, OneReader, BusInv, NEW r \in Readers, ReaderInv(r),
         Look(r) \/ Poll(r), ~\E from, answer : Return(r, from, answer)
  PROVE  ReaderInv(r)'
<1>1. /\ UNCHANGED <<Slot, byte, result, SpdData, chip, bus, busy, target, datum>>
      /\ pc[r] \in {"poll", "look"}
  BY DEF TypeOK, ReaderTypes, Look, Poll, At, controller
<1>2. status' = status /\ chip # "VIA8235"
  BY DEF ChipInv, OneReader, Look, Poll, Reserve, controller
<1>3. pc'[r] = "data" => ~busy /\ Right(r)
  <2> SUFFICES ASSUME pc'[r] = "data" PROVE ~busy /\ Right(r)
    OBVIOUS
  <2>1. Done(Status)
    BY DEF TypeOK, ReaderTypes, Look, Poll, At
  <2>2. ~busy /\ Done(status)
    BY <1>1, <2>1, DoneIsOver DEF TypeOK, ReaderInv, LookInv
  <2> QED
    BY <1>1, <2>2 DEF ReaderInv, LookInv
<1>4. pc'[r] \in {"poll", "look", "data"}
  BY DEF TypeOK, ReaderTypes, Look, Poll, At
<1> QED
  BY <1>1, <1>2, <1>3, <1>4
     DEF ReaderInv, AskedInv, RegistersInv, LookInv, ByteInv, PrefixInv,
         Unsaid, Right, Done

LEMMA DataInvStep ==
  ASSUME TypeOK, NEW r \in Readers, ReaderInv(r), ReadData(r)
  PROVE  ReaderInv(r)'
<1>1. CASE byte[r] = Size - 1
  BY <1>1, ReturnInv DEF ReadData
<1>2. CASE byte[r] # Size - 1
  <2> DEFINE v == [SpdData[r] EXCEPT ![byte[r]] = datum]
  <2>1. /\ pc[r] = "data" /\ pc'[r] = "clear" /\ SpdData'[r] = v
        /\ byte'[r] = byte[r] + 1 /\ UNCHANGED <<Slot, result>>
    BY <1>2 DEF TypeOK, ReaderTypes, BufferTypes, ReadData, At
  <2>2. Right(r) /\ byte[r] \in Index
    BY <2>1 DEF TypeOK, ReaderTypes, ReaderInv, ByteInv
  <2>3. ASSUME NEW n \in Index, n < byte[r] + 1
        PROVE  v[n] = Contents[Slot[r]][n]
    <3>1. SpdData[r] \in [Index -> Bytes \union {"none"}]
      BY DEF TypeOK, BufferTypes
    <3>2. CASE n = byte[r]
      BY <2>2, <3>1, <3>2 DEF Right
    <3>3. CASE n # byte[r]
      <4>1. n \in Nat /\ byte[r] \in Nat
        BY <2>2, IndexFacts
      <4>2. n < byte[r]
        BY <2>3, <3>3, <4>1
      <4>3. v[n] = SpdData[r][n]
        BY <3>1, <3>3
      <4> QED
        BY <4>2, <4>3 DEF ReaderInv, PrefixInv
    <3> QED
      BY <3>2, <3>3
  <2>4. PrefixInv(r)'
    BY <2>1, <2>2, <2>3 DEF PrefixInv, Right
  <2> QED
    BY <2>1, <2>4 DEF ReaderInv, AskedInv, RegistersInv, LookInv, ByteInv
<1> QED
  BY <1>1, <1>2

LEMMA CompleteStep ==
  ASSUME TypeOK, NEW r \in Readers, ReaderInv(r), Complete
  PROVE  ReaderInv(r)'
<1>1. /\ UNCHANGED <<chip, bus, pc, Slot, byte, SpdData, result, address, command>>
      /\ busy /\ ~busy'
  BY DEF Complete, reader
<1>2. pc[r] \notin {"slot", "index", "start", "data"}
  BY <1>1 DEF ReaderInv, RegistersInv, ByteInv
<1>3. ASSUME pc[r] \in {"poll", "look"}, Done(status)'
      PROVE  Right(r)'
  <2>1. Unsaid(status) /\ target.slot = Slot[r] /\ target.index = byte[r]
    BY <1>1, <1>3 DEF ReaderInv, LookInv
  <2>2. status' # status \union NotThere /\ status' # status \union BusError
    <3>1. ~Done(status \union NotThere) /\ ~Done(status \union BusError)
      BY <2>1, UnsaidFailed
    <3>2. ASSUME NEW f, ~Done(f), status' = f PROVE FALSE
      BY <1>1, <1>3, <3>2 DEF Done
    <3> QED
      BY <3>1, <3>2
  <2>3. /\ target.slot \in Modules
        /\ datum' = Contents[target.slot][target.index]
    BY <2>2 DEF Complete
  <2> QED
    BY <1>1, <2>1, <2>3 DEF Right
<1> QED
  BY <1>1, <1>2, <1>3
     DEF ReaderInv, AskedInv, RegistersInv, LookInv, ByteInv, PrefixInv

LEMMA OneStep ==
  ASSUME TypeOK, OneReader, FilledInv, OneInv, [Next]_vars
  PROVE  OneInv'
<1> SUFFICES ASSUME NEW r \in Readers, Readers = {r} PROVE ReaderInv(r)'
  BY ChipStep, BusStep DEF OneInv, OneReader
<1>1. TypeOK /\ ChipInv /\ BusInv /\ ReaderInv(r)
  BY DEF OneInv
<1>2. CASE UNCHANGED vars
  BY <1>1, <1>2 DEF vars, reader, controller, ReaderInv, AskedInv,
     RegistersInv, LookInv, ByteInv, PrefixInv, Unsaid, Right, Done
<1>3. CASE \E from, answer : Return(r, from, answer)
  BY <1>3, ReturnInv
<1>4. CASE ~\E from, answer : Return(r, from, answer)
  <2>1. chip # "VIA8235" /\ ~Unknown(r) /\ ~Kill(r)
    BY <1>1, <1>4 DEF ChipInv, OneReader, Unknown, Kill
  <2>2. ~FirstLook(r)
    BY <1>1 DEF ReaderInv, AskedInv, FirstLook, At
  <2> QED
    BY <1>1, <1>2, <1>4, <2>1, <2>2, AskStep, ClearStep, WriteStep, StartStep,
       LookStep, DataInvStep, CompleteStep DEF Next, Read
<1> QED
  BY <1>3, <1>4

LEMMA OneInit == ASSUME Init PROVE OneInv
<1>1. \A n \in Index : ~(n < 0)
  BY IndexFacts
<1> QED
  BY <1>1 DEF Init, OneInv, ChipInv, BusInv, ReaderInv, AskedInv, RegistersInv,
              LookInv, ByteInv, PrefixInv

-----------------------------------------------------------------------------
(* The refinement. *)

LEMMA InitRefines == Init => Contract!Init
BY DEF Init, Contract!Init, Given

\* A step inside a call.
LEMMA InsideStutters ==
  ASSUME UNCHANGED <<Slot, result>>,
         \A r \in Readers : result[r] # "TRUE" \/ SpdData'[r] = SpdData[r]
  PROVE  UNCHANGED Contract!contract
<1>1. Given' = Given
  BY DEF Given
<1> QED
  BY <1>1 DEF Contract!contract

LEMMA RefuseStep ==
  ASSUME TypeOK, OneInv, NEW r \in Readers, NEW from, from # "idle",
         Return(r, from, "FALSE"), UNCHANGED SpdData
  PROVE  Contract!Refuse(r)
<1>1. pc[r] # "idle" /\ Slot[r] \in Slots /\ result[r] = "none"
  BY DEF OneInv, ReaderInv, AskedInv, Return, At
<1>2. Slot[r] # NoSlot
  BY <1>1, SmBusAssumption
<1>3. Given' = Given
  BY <1>1 DEF TypeOK, ReaderTypes, Given, Return
<1> QED
  BY <1>2, <1>3 DEF Contract!Refuse, Return

LEMMA AskRefines ==
  ASSUME TypeOK, OneInv, NEW r \in Readers, NEW s \in Slots, ReadSpdData(r, s)
  PROVE  Contract!Ask(r, s)
<1>1. Slot[r] = NoSlot
  BY DEF OneInv, ReaderInv, AskedInv, ReadSpdData, At
<1>2. Given' = [Given EXCEPT ![r] = Nothing]
  BY DEF TypeOK, ReaderTypes, BufferTypes, Given, ReadSpdData
<1> QED
  BY <1>1, <1>2 DEF Contract!Ask, ReadSpdData

\* The last byte completes the contents.
LEMMA GiveRefines ==
  ASSUME TypeOK, OneInv, NEW r \in Readers, ReadData(r), byte[r] = Size - 1
  PROVE  Contract!Give(r)
<1> DEFINE v == [SpdData[r] EXCEPT ![byte[r]] = datum]
<1>1. PICK w \in Finished(v) : SpdData' = [SpdData EXCEPT ![r] = w]
  BY DEF ReadData
<1>2. Return(r, "data", "TRUE") /\ pc[r] = "data"
  BY DEF ReadData, Return, At
<1>3. Right(r) /\ PrefixInv(r)
  BY <1>2 DEF OneInv, ReaderInv, ByteInv
<1>4. SpdData[r] \in [Index -> Bytes \union {"none"}] /\ byte[r] \in Index
  BY DEF TypeOK, BufferTypes, ReaderTypes
<1>5. Contents[Slot[r]] \in [Index -> Bytes]
  BY <1>3, SmBusAssumption DEF Right
<1>6. v = Contents[Slot[r]]
  <2>1. ASSUME NEW n \in Index PROVE v[n] = Contents[Slot[r]][n]
    <3>1. CASE n = byte[r]
      BY <1>3, <1>4, <3>1 DEF Right
    <3>2. CASE n # byte[r]
      <4>1. n < byte[r]
        BY <3>2, SizeType DEF Index
      <4> QED
        BY <1>3, <1>4, <3>2, <4>1 DEF PrefixInv
    <3> QED
      BY <3>1, <3>2
  <2>2. v \in [Index -> Bytes \union {"none"}]
    BY <1>3, <1>4, <1>5 DEF Right
  <2> QED
    BY <1>5, <2>1, <2>2
<1>7. w \in Answers(Slot[r])
  BY <1>1, <1>6 DEF Answers, Finished
<1>8. Given' = [Given EXCEPT ![r] = w]
  BY <1>1, <1>2 DEF TypeOK, ReaderTypes, BufferTypes, Given, Return
<1> QED
  BY <1>2, <1>3, <1>7, <1>8 DEF Contract!Give, Right, Return

LEMMA NextRefines ==
  ASSUME TypeOK, OneReader, OneInv, [Next]_vars
  PROVE  [Contract!Next]_(Contract!contract)
<1>1. CASE UNCHANGED vars \/ Complete
  BY <1>1, InsideStutters DEF Complete, vars, reader
<1>2. ASSUME NEW r \in Readers, NEW s \in Slots, ReadSpdData(r, s)
      PROVE  Contract!Next
  BY <1>2, AskRefines DEF Contract!Next
<1>3. ASSUME NEW r \in Readers, NEW from, from # "idle",
             Return(r, from, "FALSE"), UNCHANGED SpdData
      PROVE  Contract!Next
  BY <1>3, RefuseStep DEF Contract!Next, Contract!Answer
<1>4. ASSUME NEW r \in Readers, ReadData(r)
      PROVE  Contract!Next \/ UNCHANGED Contract!contract
  <2>1. CASE byte[r] = Size - 1
    BY <1>4, <2>1, GiveRefines DEF Contract!Next, Contract!Answer
  <2>2. CASE byte[r] # Size - 1
    <3>1. /\ UNCHANGED <<Slot, result>> /\ pc[r] = "data"
          /\ SpdData' = [SpdData EXCEPT ![r] = [@ EXCEPT ![byte[r]] = datum]]
      BY <1>4, <2>2 DEF ReadData, At
    <3>2. result[r] = "none"
      BY <3>1 DEF OneInv, ReaderInv, AskedInv
    <3>3. \A q \in Readers : result[q] # "TRUE" \/ SpdData'[q] = SpdData[q]
      BY <3>1, <3>2 DEF TypeOK, BufferTypes
    <3> QED
      BY <3>1, <3>3, InsideStutters
  <2> QED
    BY <2>1, <2>2
<1>5. ASSUME NEW r \in Readers, Read(r) \/ Kill(r), ~ReadData(r)
      PROVE  Contract!Next \/ UNCHANGED Contract!contract
  <2>1. /\ UNCHANGED SpdData
        /\ \/ UNCHANGED <<Slot, result>>
           \/ \E from : from # "idle" /\ Return(r, from, "FALSE")
    BY <1>5 DEF Read, Unknown, WriteClear, ReadClear, WriteSlot, WriteIndex,
       WriteStart, FirstLook, Poll, Look, Kill
  <2> QED
    BY <1>3, <2>1, InsideStutters
<1> QED
  BY <1>1, <1>2, <1>4, <1>5 DEF Next

\* One reader of a controller that is not VIA's gets what it asked for: the
\* answer TRUE comes with the contents of the module in the slot, shifted at
\* most by quaere, and never for an empty slot, for any modules, size and
\* limits, even if the controller is late, the bus fails or a reader before
\* this one was killed on its way.
THEOREM OneReaderKeepsContract ==
  ASSUME OneReader
  PROVE  Spec => Contract!Spec
<1>1. TypeOK /\ FilledInv /\ OneInv /\ [Next]_vars => OneInv'
  BY OneStep
<1>2. TypeOK /\ OneInv /\ [Next]_vars => [Contract!Next]_(Contract!contract)
  BY NextRefines
<1>3. Init => OneInv
  BY OneInit
<1> QED
  BY <1>1, <1>2, <1>3, InitRefines, TypeCorrect, BytesKept, PTL
     DEF Spec, Contract!Spec

-----------------------------------------------------------------------------
(* How many steps a call can take.                                         *)

\* The most steps for one byte, and for a call.
PerByte == 2 * ResetLimit + 2 * PollLimit + 6

MaxSteps == Size * PerByte

\* The steps a reader at place p may still take for its byte after e attempts.
ForThisByte(p, e) ==
  CASE p = "clear" -> 2 * (ResetLimit - e) + 2 * PollLimit + 6
    [] p = "flag"  -> 2 * (ResetLimit - e) + 2 * PollLimit + 5
    [] p = "slot"  -> 2 * PollLimit + 6
    [] p = "index" -> 2 * PollLimit + 5
    [] p = "start" -> 2 * PollLimit + 4
    [] p = "first" -> 2 * PollLimit + 3
    [] p = "poll"  -> 2 * (PollLimit - e) + 2
    [] p = "look"  -> 2 * (PollLimit - e) + 3
    [] OTHER       -> 1

\* ... and for the bytes behind byte n.
ForTheNext(n) == (Size - 1 - n) * PerByte

StepsLeft(r) ==
  CASE pc[r] = "idle"    -> 0
    [] pc[r] = "unknown" -> 1
    [] OTHER -> ForTheNext(byte[r]) + ForThisByte(pc[r], error[r])

\* The attempts a reader has counted, within the limit of the loop it is in.
AttemptsInv ==
  \A r \in Readers :
    /\ pc[r] \in {"idle", "unknown", "slot", "index", "start", "first"} =>
         error[r] = 0
    /\ pc[r] \in {"clear", "flag"} => error[r] <= ResetLimit
    /\ pc[r] \in {"poll", "look"} => error[r] <= PollLimit

\* A call of ReadSpdData never has more than MaxSteps steps before it.
StepsBounded == \A r \in Readers : StepsLeft(r) \in 0 .. MaxSteps

\* Every step of a reader leaves its call fewer steps, and no step of another
\* reader or of the controller gives it more.
StepsDecrease ==
  [][\A r \in Readers :
       /\ Read(r) => StepsLeft(r)' < StepsLeft(r)
       /\ pc[r] # "idle" => StepsLeft(r)' <= StepsLeft(r)]_vars

LEMMA LimitTypes == ResetLimit \in Nat /\ PollLimit \in Nat /\ PerByte \in Nat
<1>1. ResetLimit \in Nat /\ PollLimit \in Nat
  BY SmBusAssumption
<1> QED
  BY <1>1 DEF PerByte

\* A product is no smaller than one of its factors taken fewer times.
LEMMA FewerTimes ==
  ASSUME NEW m \in Nat, NEW n \in Nat, m <= n, NEW p \in Nat
  PROVE  m * p \in Nat /\ m * p <= n * p
<1>1. (n - m) \in Nat /\ (n - m) * p \in Nat
  OBVIOUS
<1>2. n * p = m * p + (n - m) * p
  OBVIOUS
<1>3. m * p \in Nat /\ n * p \in Nat
  OBVIOUS
<1> QED
  BY <1>1, <1>2, <1>3

LEMMA NextBytes ==
  ASSUME NEW n \in Index
  PROVE  /\ ForTheNext(n) \in Nat
         /\ ForTheNext(n) + PerByte <= MaxSteps
         /\ n + 1 \in Index => ForTheNext(n) = ForTheNext(n + 1) + PerByte
<1>0. \A m \in Int : m * PerByte = (m - 1) * PerByte + PerByte
  BY LimitTypes
<1>1. n \in Nat /\ Size - 1 - n \in Nat /\ Size - n \in Nat /\ Size - n <= Size /\ Size \in Nat
  BY SizeType DEF Index
<1>2. ForTheNext(n) \in Nat
  BY <1>1, FewerTimes, LimitTypes DEF ForTheNext
<1>3. (Size - n) * PerByte <= Size * PerByte
  <2>1. PICK m \in Nat : m = Size - n
    BY <1>1
  <2>2. m * PerByte <= Size * PerByte
    BY <1>1, <2>1, FewerTimes, LimitTypes
  <2> QED
    BY <2>1, <2>2
<1>4. (Size - n) * PerByte = (Size - 1 - n) * PerByte + PerByte
  <2>1. (Size - n) - 1 = Size - 1 - n
    BY <1>1
  <2> QED
    BY <1>0, <1>1, <2>1
<1>5. n + 1 \in Index => (Size - 1 - n) * PerByte
                           = (Size - 1 - (n + 1)) * PerByte + PerByte
  <2>1. (Size - 1 - n) - 1 = Size - 1 - (n + 1)
    BY <1>1 DEF Index
  <2> QED
    BY <1>0, <1>1, <2>1
<1> QED
  BY <1>2, <1>3, <1>4, <1>5 DEF ForTheNext, MaxSteps

\* A call that has returned, or was not begun, has no steps left.
LEMMA NoStepsLeft ==
  ASSUME NEW r \in Readers, pc[r] = "idle"
  PROVE  StepsLeft(r) = 0
BY DEF StepsLeft

LEMMA PlaceCounts ==
  /\ \A e : ForThisByte("clear", e) = 2 * (ResetLimit - e) + 2 * PollLimit + 6
  /\ \A e : ForThisByte("flag", e) = 2 * (ResetLimit - e) + 2 * PollLimit + 5
  /\ \A e : ForThisByte("slot", e) = 2 * PollLimit + 6
  /\ \A e : ForThisByte("index", e) = 2 * PollLimit + 5
  /\ \A e : ForThisByte("start", e) = 2 * PollLimit + 4
  /\ \A e : ForThisByte("first", e) = 2 * PollLimit + 3
  /\ \A e : ForThisByte("poll", e) = 2 * (PollLimit - e) + 2
  /\ \A e : ForThisByte("look", e) = 2 * (PollLimit - e) + 3
  /\ \A e : ForThisByte("data", e) = 1
BY DEF ForThisByte

LEMMA StepsType ==
  ASSUME TypeOK, AttemptsInv, NEW r \in Readers
  PROVE  /\ StepsLeft(r) \in 0 .. MaxSteps
         /\ pc[r] # "idle" => StepsLeft(r) > 0
<1>1. byte[r] \in Index /\ error[r] \in Nat /\ pc[r] \in ReaderStates
  BY DEF TypeOK, ReaderTypes
<1>2. pc[r] \notin {"idle", "unknown"} =>
        ForThisByte(pc[r], error[r]) \in 1 .. PerByte
  <2>1. /\ pc[r] \in {"clear", "flag"} => error[r] <= ResetLimit
        /\ pc[r] \in {"poll", "look"} => error[r] <= PollLimit
    BY DEF AttemptsInv
  <2>2. CASE pc[r] \in {"clear", "flag"}
    BY <1>1, <2>1, <2>2, LimitTypes, PlaceCounts DEF PerByte
  <2>3. CASE pc[r] \in {"slot", "index", "start", "first"}
    BY <2>3, LimitTypes, PlaceCounts DEF PerByte
  <2>4. CASE pc[r] \in {"poll", "look"}
    BY <1>1, <2>1, <2>4, LimitTypes, PlaceCounts DEF PerByte
  <2>5. CASE pc[r] = "data"
    BY <2>5, LimitTypes, PlaceCounts DEF PerByte
  <2> QED
    BY <1>1, <2>2, <2>3, <2>4, <2>5 DEF ReaderStates
<1>3. PerByte >= 1
  BY LimitTypes DEF PerByte
<1>4. MaxSteps \in Nat
  BY SizeType, LimitTypes DEF MaxSteps
<1>5. /\ ForTheNext(byte[r]) \in Nat
      /\ ForTheNext(byte[r]) + PerByte <= MaxSteps
  BY <1>1, NextBytes
<1>6. CASE pc[r] \in {"idle", "unknown"}
  BY <1>3, <1>4, <1>5, <1>6, LimitTypes DEF StepsLeft
<1>7. CASE pc[r] \notin {"idle", "unknown"}
  <2>1. StepsLeft(r) = ForTheNext(byte[r]) + ForThisByte(pc[r], error[r])
    BY <1>7 DEF StepsLeft
  <2> QED
    BY <2>1, <1>2, <1>4, <1>5, <1>7, LimitTypes
<1> QED
  BY <1>6, <1>7

\* A reader that goes on with its byte moves from p after d attempts to q
\* after e.
Onwards(p, d, q, e) ==
  \/ p = "clear" /\ q = "flag" /\ e = d
  \/ p = "flag" /\ q = "slot" /\ d < ResetLimit /\ e = 0
  \/ p = "flag" /\ q \in {"flag", "clear"} /\ d < ResetLimit /\ e = d + 1
  \/ p = "slot" /\ q = "index" /\ e = d
  \/ p = "index" /\ q = "start" /\ e = d
  \/ p = "start" /\ q \in {"first", "poll"} /\ e = d
  \/ p = "first" /\ q = "poll" /\ e = d
  \/ p = "poll" /\ q = "look" /\ d < PollLimit /\ e = d + 1
  \/ p = "look" /\ q \in {"poll", "data"} /\ e = d

LEMMA OnwardsDecreases ==
  ASSUME NEW p, NEW q, NEW d \in Nat, NEW e \in Nat, Onwards(p, d, q, e),
         p \in {"slot", "index", "start", "first"} => d = 0,
         p \in {"clear", "flag"} => d <= ResetLimit,
         p \in {"poll", "look"} => d <= PollLimit
  PROVE  /\ {p, q} \intersect {"idle", "unknown"} = {}
         /\ ForThisByte(q, e) < ForThisByte(p, d)
         /\ ForThisByte(p, d) \in Nat /\ ForThisByte(q, e) \in Nat
<1>1. p \in {"clear", "flag", "slot", "index", "start", "first", "poll", "look"}
      /\ q \in {"clear", "flag", "slot", "index", "start", "first", "poll",
                "look", "data"}
  BY DEF Onwards
<1>2. CASE p = "clear"
  BY <1>2, LimitTypes, PlaceCounts DEF Onwards
<1>3. CASE p = "flag"
  BY <1>3, LimitTypes, PlaceCounts DEF Onwards
<1>4. CASE p \in {"slot", "index"}
  BY <1>4, LimitTypes, PlaceCounts DEF Onwards
<1>5. CASE p \in {"start", "first"}
  BY <1>5, LimitTypes, PlaceCounts DEF Onwards
<1>6. CASE p = "poll"
  BY <1>6, LimitTypes, PlaceCounts DEF Onwards
<1>7. CASE p = "look"
  BY <1>7, LimitTypes, PlaceCounts DEF Onwards
<1>8. {p, q} \intersect {"idle", "unknown"} = {}
  BY <1>1
<1> QED
  BY <1>1, <1>2, <1>3, <1>4, <1>5, <1>6, <1>7, <1>8

\* The three things a step of a reader can be.
LEMMA ReadCases ==
  ASSUME TypeOK, AttemptsInv, NEW r \in Readers, Read(r)
  PROVE  /\ pc[r] # "idle"
         /\ \/ pc'[r] = "idle" /\ error'[r] = 0
            \/ /\ byte'[r] = byte[r]
               /\ Onwards(pc[r], error[r], pc'[r], error'[r])
            \/ /\ pc[r] = "data" /\ pc'[r] = "clear" /\ error'[r] = 0
               /\ byte[r] # Size - 1 /\ byte'[r] = byte[r] + 1
<1> USE DEF TypeOK, ReaderTypes
<1>1. CASE \E from, answer : Return(r, from, answer) /\ from # "idle"
  BY <1>1 DEF Return, At
<1>2. CASE ~\E from, answer : Return(r, from, answer) /\ from # "idle"
  <2>1. CASE WriteClear(r)
    BY <2>1 DEF WriteClear, At, Onwards
  <2>2. CASE ReadClear(r)
    BY <1>2, <2>2 DEF ReadClear, At, Onwards
  <2>3. CASE WriteSlot(r) \/ WriteIndex(r) \/ WriteStart(r)
    BY <2>3 DEF WriteSlot, WriteIndex, WriteStart, At, Onwards
  <2>4. CASE FirstLook(r) \/ Look(r)
    BY <2>4 DEF FirstLook, Look, At, Onwards
  <2>5. CASE Poll(r)
    BY <1>2, <2>5, LimitTypes DEF Poll, At, Onwards
  <2>6. CASE ReadData(r)
    BY <1>2, <2>6 DEF ReadData, At
  <2>7. ~Unknown(r)
    BY <1>2 DEF Unknown
  <2> QED
    BY <2>1, <2>2, <2>3, <2>4, <2>5, <2>6, <2>7 DEF Read
<1> QED
  BY <1>1, <1>2

LEMMA AttemptsInit == Init => AttemptsInv
BY DEF Init, AttemptsInv

\* A reader that does not take the step keeps its count and its place.
LEMMA OthersCount ==
  ASSUME TypeOK, NEW r \in Readers, NEW q \in Readers, q # r,
         Read(r) \/ Kill(r) \/ \E s \in Slots : ReadSpdData(r, s)
  PROVE  error'[q] = error[q]
<1> USE DEF TypeOK, ReaderTypes
<1>1. CASE \E from, answer : Return(r, from, answer)
  BY <1>1 DEF Return
<1>2. CASE error' = error
  BY <1>2
<1>3. CASE ReadClear(r)
  BY <1>1, <1>3 DEF ReadClear
<1>4. CASE Poll(r)
  BY <1>1, <1>4 DEF Poll
<1>5. CASE ReadData(r)
  BY <1>1, <1>5 DEF ReadData
<1> QED
  BY <1>1, <1>2, <1>3, <1>4, <1>5
     DEF Read, Kill, ReadSpdData, Unknown, WriteClear, WriteSlot, WriteIndex,
         WriteStart, FirstLook, Look

\* What any step does to one reader.
LEMMA StepOfReader ==
  ASSUME TypeOK, AttemptsInv, [Next]_vars, NEW r \in Readers
  PROVE  \/ ~Read(r) /\ pc'[r] = pc[r] /\ byte'[r] = byte[r]
                     /\ error'[r] = error[r]
         \/ Read(r)
         \/ pc[r] # "idle" /\ pc'[r] = "idle" /\ error'[r] = 0
         \/ /\ pc[r] = "idle" /\ pc'[r] \in {"unknown", "clear"}
            /\ error'[r] = 0
<1> USE DEF TypeOK, ReaderTypes
<1>1. CASE UNCHANGED <<chip, bus, reader>>
  BY <1>1 DEF reader
<1>2. ASSUME NEW q \in Readers,
             Read(q) \/ Kill(q) \/ \E s \in Slots : ReadSpdData(q, s)
      PROVE  \/ pc'[r] = pc[r] /\ byte'[r] = byte[r] /\ error'[r] = error[r]
             \/ Read(r)
             \/ pc[r] # "idle" /\ pc'[r] = "idle" /\ error'[r] = 0
             \/ /\ pc[r] = "idle" /\ pc'[r] \in {"unknown", "clear"}
                /\ error'[r] = 0
  <2>1. CASE q # r
    BY <1>2, <2>1, OthersWait, OthersCount
  <2>2. CASE q = r /\ Kill(r)
    BY <2>2 DEF Kill, Return, At
  <2>3. CASE q = r /\ \E s \in Slots : ReadSpdData(r, s)
    BY <2>3 DEF ReadSpdData, At, AttemptsInv
  <2> QED
    BY <1>2, <2>1, <2>2, <2>3
<1> QED
  BY <1>1, <1>2, NextCases

LEMMA AttemptsStep ==
  ASSUME TypeOK, AttemptsInv, [Next]_vars
  PROVE  AttemptsInv'
<1> SUFFICES ASSUME NEW r \in Readers
             PROVE  (/\ pc[r] \in {"idle", "unknown", "slot", "index", "start",
                                   "first"} => error[r] = 0
                     /\ pc[r] \in {"clear", "flag"} => error[r] <= ResetLimit
                     /\ pc[r] \in {"poll", "look"} => error[r] <= PollLimit)'
  BY DEF AttemptsInv
<1>1. /\ pc[r] \in {"idle", "unknown", "slot", "index", "start", "first"} =>
           error[r] = 0
      /\ pc[r] \in {"clear", "flag"} => error[r] <= ResetLimit
      /\ pc[r] \in {"poll", "look"} => error[r] <= PollLimit
      /\ error[r] \in Nat
  BY DEF AttemptsInv, TypeOK, ReaderTypes
<1>2. CASE pc'[r] = pc[r] /\ error'[r] = error[r]
  BY <1>1, <1>2
<1>3. CASE pc'[r] \in {"idle", "unknown", "clear"} /\ error'[r] = 0
  BY <1>3, LimitTypes
<1>4. CASE Onwards(pc[r], error[r], pc'[r], error'[r])
  BY <1>1, <1>4, LimitTypes DEF Onwards
<1> QED
  BY <1>2, <1>3, <1>4, StepOfReader, ReadCases

\* A step of a reader leaves it fewer steps.
LEMMA ReadDecreases ==
  ASSUME TypeOK, AttemptsInv, NEW r \in Readers, Read(r)
  PROVE  StepsLeft(r)' \in Nat /\ StepsLeft(r)' < StepsLeft(r)
<1> DEFINE here == ForTheNext(byte[r])
           there == ForTheNext(byte'[r])
<1>1. byte[r] \in Index /\ error[r] \in Nat
  BY DEF TypeOK, ReaderTypes
<1>2. here \in Nat
  BY <1>1, NextBytes
<1>3. StepsLeft(r) \in Nat /\ StepsLeft(r) > 0
  BY StepsType, ReadCases
<1>4. CASE pc'[r] = "idle"
  <2>1. StepsLeft(r)' = 0
    BY <1>4 DEF StepsLeft
  <2> QED
    BY <2>1, <1>3
<1>5. CASE byte'[r] = byte[r] /\ Onwards(pc[r], error[r], pc'[r], error'[r])
  <2>1. error'[r] \in Nat
    BY <1>1, <1>5 DEF Onwards
  <2>2. /\ {pc[r], pc'[r]} \intersect {"idle", "unknown"} = {}
        /\ ForThisByte(pc'[r], error'[r]) < ForThisByte(pc[r], error[r])
        /\ ForThisByte(pc[r], error[r]) \in Nat
        /\ ForThisByte(pc'[r], error'[r]) \in Nat
    BY <1>1, <1>5, <2>1, OnwardsDecreases DEF AttemptsInv
  <2>3. StepsLeft(r) = here + ForThisByte(pc[r], error[r])
    BY <2>2 DEF StepsLeft
  <2>4. StepsLeft(r)' = here + ForThisByte(pc'[r], error'[r])
    BY <1>5, <2>2 DEF StepsLeft, ForTheNext, PerByte, ForThisByte
  <2> HIDE DEF here
  <2> QED
    BY <1>2, <2>2, <2>3, <2>4
<1>6. CASE /\ pc[r] = "data" /\ pc'[r] = "clear" /\ error'[r] = 0
           /\ byte[r] # Size - 1 /\ byte'[r] = byte[r] + 1
  <2>1. byte[r] + 1 \in Index
    BY <1>1, <1>6, IndexNext
  <2>2. here = there + PerByte /\ there \in Nat
    BY <1>1, <1>6, <2>1, NextBytes
  <2>3. StepsLeft(r) = here + 1
    BY <1>6 DEF StepsLeft, ForThisByte
  <2>4. StepsLeft(r)' = there + ForThisByte("clear", 0)
    BY <1>6 DEF StepsLeft, ForTheNext, PerByte, ForThisByte
  <2>5. ForThisByte("clear", 0) = PerByte
    BY LimitTypes DEF ForThisByte, PerByte
  <2> HIDE DEF here, there
  <2> QED
    BY <1>2, <2>2, <2>3, <2>4, <2>5, LimitTypes
<1> QED
  BY <1>4, <1>5, <1>6, ReadCases

\* Every step of a call leaves it fewer steps, and no step of anybody else
\* gives it more: whatever the controller answers and whoever else uses it, a
\* call returns after at most MaxSteps steps of its own.
THEOREM CallsAreBounded == Spec => []StepsBounded /\ StepsDecrease
<1> DEFINE Decrease ==
             \A r \in Readers :
               /\ Read(r) => StepsLeft(r)' < StepsLeft(r)
               /\ pc[r] # "idle" => StepsLeft(r)' <= StepsLeft(r)
<1>1. Init => AttemptsInv
  BY AttemptsInit
<1>2. TypeOK /\ AttemptsInv /\ [Next]_vars => AttemptsInv'
  BY AttemptsStep
<1>3. TypeOK /\ AttemptsInv => StepsBounded
  BY StepsType DEF StepsBounded
<1>4. TypeOK /\ AttemptsInv /\ [Next]_vars => [Decrease]_vars
  <2> SUFFICES ASSUME TypeOK, AttemptsInv, [Next]_vars, NEW r \in Readers
               PROVE  /\ Read(r) => StepsLeft(r)' < StepsLeft(r)
                      /\ pc[r] # "idle" => StepsLeft(r)' <= StepsLeft(r)
    OBVIOUS
  <2>1. StepsLeft(r) \in Nat
    BY StepsType
  <2>2. CASE Read(r)
    <3>1. StepsLeft(r)' \in Nat /\ StepsLeft(r)' < StepsLeft(r)
      BY <2>2, ReadDecreases
    <3> QED
      BY <2>1, <3>1
  <2>3. CASE ~Read(r) /\ pc'[r] = pc[r] /\ byte'[r] = byte[r]
                      /\ error'[r] = error[r]
    <3>1. StepsLeft(r)' = StepsLeft(r)
      BY <2>3 DEF StepsLeft, ForTheNext, PerByte, ForThisByte
    <3> QED
      BY <2>1, <2>3, <3>1
  <2>4. CASE pc[r] # "idle" /\ pc'[r] = "idle" /\ ~Read(r)
    <3>1. StepsLeft(r)' = 0
      BY <2>4 DEF StepsLeft
    <3> QED
      BY <2>1, <2>4, <3>1
  <2>5. CASE pc[r] = "idle" /\ ~Read(r)
    BY <2>5
  <2> QED
    BY <2>2, <2>3, <2>4, <2>5, StepOfReader
<1>5. StepsDecrease <=> [][Decrease]_vars
  BY DEF StepsDecrease
<1> HIDE DEF Decrease
<1> QED
  BY <1>1, <1>2, <1>3, <1>4, <1>5, TypeCorrect, PTL DEF Spec
=============================================================================
