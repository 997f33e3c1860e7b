----------------------------- MODULE ConfigSpace -----------------------------
(***************************************************************************)
(* What access to PCI configuration space promises its callers, byte by    *)
(* byte: each call takes effect at once, on the bytes it names.  A call    *)
(* that another one came between (disturbed) may answer anything, and one  *)
(* that writes may write any one double word.                              *)
(***************************************************************************)
EXTENDS Integers, Sequences

CONSTANTS
  Callers,    \* threads that make calls
  Devices,    \* the devices on the bus
  Registers,  \* the double words a device has, by their offset
  ReadOnly,   \* the <<device, double word>>s that cannot be written
  Calls,      \* Calls[c]: the calls that caller c makes
  NoCall

VARIABLES
  bytes,      \* bytes[d][o]: the byte of device d at offset o
  call,       \* the call of each caller
  disturbed,  \* another call came between its steps
  served,     \* the call took effect and was answered
  answer      \* what it was answered

spaceVars == <<bytes, call, disturbed, served, answer>>

Div(offset) == offset % 4
Reg(offset) == offset - Div(offset)

Places == {o \in 0 .. 255 : Reg(o) \in Registers}

ByteAt(device, offset) ==
  IF device \notin Devices THEN 255
  ELSE IF offset \in Places THEN bytes[device][offset] ELSE 0

-----------------------------------------------------------------------------
(* The answers to calls that read.                                         *)

\* A double word, or its lower half.
RegisterData(c) ==
  [k \in 1 .. c.size |-> ByteAt(c.device, Reg(c.offset) + k - 1)]

\* A byte or a word; of a word in two double words the upper byte is lost.
PciData(c) ==
  [k \in 1 .. c.size |->
     IF Div(c.offset) + k > 4 THEN 0 ELSE ByteAt(c.device, c.offset + k - 1)]

Aligned(c) == c.offset % c.size = 0

\* Through the kernel: all ones when the offset is not aligned.
ConfigData(c) ==
  [k \in 1 .. c.size |->
     IF Aligned(c) THEN ByteAt(c.device, c.offset + k - 1) ELSE 255]

Right(c) == CASE c.op = "GetRegisterData" -> RegisterData(c)
              [] c.op = "ReadPci"         -> PciData(c)
              [] c.op = "ReadPciConfig"   -> ConfigData(c)

(* The effect of calls that write.                                         *)

\* A word at an odd offset is not written.
Covers(c, d, o) ==
  /\ d = c.device
  /\ o \in c.offset .. c.offset + c.size - 1
  /\ Aligned(c)
  /\ <<d, Reg(o)>> \notin ReadOnly

Written(c) ==
  [d \in Devices |->
     [o \in Places |-> IF Covers(c, d, o) THEN c.value[o - c.offset + 1]
                       ELSE bytes[d][o]]]

-----------------------------------------------------------------------------
AllBytes == [Devices -> [Places -> 0 .. 255]]

Init ==
  /\ bytes \in AllBytes
  /\ call = [c \in Callers |-> NoCall]
  /\ disturbed = [c \in Callers |-> FALSE]
  /\ served = [c \in Callers |-> FALSE]

\* Others may be disturbed by any step.
DisturbsOthers(c) ==
  /\ disturbed' \in [Callers -> BOOLEAN]
  /\ disturbed'[c] = disturbed[c]
  /\ \A d \in Callers : disturbed[d] => disturbed'[d]

Begin(c) ==
  /\ call[c] = NoCall
  /\ call' \in {[call EXCEPT ![c] = n] : n \in Calls[c]}
  /\ UNCHANGED <<bytes, disturbed, served, answer>>

Others(c) == \A d \in Callers \ {c} : answer'[d] = answer[d]

\* A call takes effect once.
Serve(c) ==
  /\ call[c] # NoCall
  /\ ~served[c]
  /\ served' = [served EXCEPT ![c] = TRUE]
  /\ Others(c) /\ DisturbsOthers(c)
  /\ UNCHANGED call

Read(c) ==
  /\ Serve(c)
  /\ call[c].op \in {"GetRegisterData", "ReadPci", "ReadPciConfig"}
  /\ disturbed[c] \/ answer'[c] = Right(call[c])
  /\ UNCHANGED bytes

\* One double word is written over, if any.
OneDoubleWord ==
  /\ bytes' \in AllBytes
  /\ \A d, e \in Devices, o, p \in Places :
       bytes'[d][o] # bytes[d][o] /\ bytes'[e][p] # bytes[e][p] =>
         d = e /\ Reg(o) = Reg(p)

Write(c) ==
  /\ Serve(c)
  /\ call[c].op \in {"WritePci", "WritePciConfig"}
  /\ \/ bytes' = Written(call[c])
     \/ UNCHANGED bytes /\ answer'[c] = <<0>>
     \/ disturbed[c] /\ OneDoubleWord

\* A search for controllers changes nothing; what it reports is not a
\* matter of this module.
Search(c) ==
  /\ Serve(c)
  /\ call[c].op = "EnumSmBusBaseAddress"
  /\ UNCHANGED bytes

Return(c) ==
  /\ served[c]
  /\ call' = [call EXCEPT ![c] = NoCall]
  /\ served' = [served EXCEPT ![c] = FALSE]
  /\ disturbed' = [disturbed EXCEPT ![c] = FALSE]
  /\ Others(c)
  /\ UNCHANGED bytes

\* A step in the middle of a call.
Between(c) ==
  /\ DisturbsOthers(c)
  /\ UNCHANGED <<bytes, call, served, answer>>

Next == \E c \in Callers :
          Begin(c) \/ Read(c) \/ Write(c) \/ Search(c) \/ Return(c) \/ Between(c)

Spec == Init /\ [][Next]_spaceVars
=============================================================================
