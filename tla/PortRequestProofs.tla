-------------------------- MODULE PortRequestProofs --------------------------
(***************************************************************************)
(* What the functions of PortRequest return, for every port and value: the *)
(* port number and the data share a buffer, and neither spoils the other.  *)
(***************************************************************************)
EXTENDS PortRequest, SequenceTheorems, TLAPS

LEMMA DwordIsSeq ==
  ASSUME NEW n \in Nat, NEW d \in Bytes(n)
  PROVE  d \in Seq(Byte) /\ Len(d) = n /\ DOMAIN d = 1 .. n
<1>1. d \in Seq(Byte)
  BY DEF Bytes, Seq
<1>2. DOMAIN d = 1 .. n
  BY DEF Bytes
<1> QED
  BY <1>1, <1>2, LenProperties

\* A prefix of a sequence, place by place.
LEMMA Prefix ==
  ASSUME NEW d \in Dword, NEW n \in 0 .. 4
  PROVE  SubSeq(d, 1, n) = [k \in 1 .. n |-> d[k]]
<1>1. d \in Seq(Byte) /\ Len(d) = 4
  BY DwordIsSeq DEF Dword
<1> QED
  BY <1>1, SMT

\* The three readers give what the port holds.
LEMMA ReadDword ==
  ASSUME NEW port \in Dword, NEW d \in Dword
  PROVE  ReadIoPortDword(port, d) = d
<1>1. DOMAIN Zero = 1 .. 4
  BY DEF Zero
<1>2. IOCTL_ReadPort(4, port, d) = [i \in 1 .. 4 |-> d[i]]
  BY DEF IOCTL_ReadPort, Dword, Bytes
<1>3. CopyBack(Zero, IOCTL_ReadPort(4, port, d)) = [i \in 1 .. 4 |-> d[i]]
  BY <1>1, <1>2 DEF CopyBack
<1> QED
  BY <1>3 DEF ReadIoPortDword, Dword, Bytes

LEMMA ReadWord ==
  ASSUME NEW port \in Dword, NEW d \in Dword
  PROVE  ReadIoPortWord(port, d) = [k \in 1 .. 2 |-> d[k]]
<1>1. SubSeq(port, 1, 2) = [k \in 1 .. 2 |-> port[k]]
  BY Prefix
<1>2. IOCTL_ReadPort(2, SubSeq(port, 1, 2), d) = [i \in 1 .. 2 |-> d[i]]
  BY <1>1 DEF IOCTL_ReadPort
<1>3. DOMAIN <<0, 0>> = 1 .. 2
  OBVIOUS
<1> QED
  BY <1>2, <1>3 DEF ReadIoPortWord, CopyBack

LEMMA ReadByte ==
  ASSUME NEW port \in Dword, NEW d \in Dword
  PROVE  ReadIoPortByte(port, d) = [k \in 1 .. 1 |-> d[k]]
<1>1. DOMAIN Zero = 1 .. 4
  BY DEF Zero
<1>2. IOCTL_ReadPort(1, port, d) =
        [i \in 1 .. 4 |-> IF i <= 1 THEN d[i] ELSE port[i]]
  BY DEF IOCTL_ReadPort, Dword, Bytes
<1>3. CopyBack(Zero, IOCTL_ReadPort(1, port, d))[1] = d[1]
  BY <1>1, <1>2 DEF CopyBack
<1> QED
  BY <1>3 DEF ReadIoPortByte

\* A writer hands its value to the port.
LEMMA WritePort ==
  ASSUME NEW port \in Dword, NEW n \in 0 .. 4, NEW v \in Bytes(n)
  PROVE  WriteIoPort(port, v) = v
<1>1. port \in Seq(Byte) /\ Len(port) = 4
  BY DwordIsSeq DEF Dword
<1>2. v \in Seq(Byte) /\ Len(v) = n /\ DOMAIN v = 1 .. n
  BY n \in Nat, DwordIsSeq
<1> DEFINE input == port \o v
<1>3. /\ input \in Seq(Byte) /\ Len(input) = Len(port) + Len(v)
      /\ \A i \in 1 .. Len(port) + Len(v) :
           input[i] = IF i <= Len(port) THEN port[i] ELSE v[i - Len(port)]
  BY <1>1, <1>2, ConcatProperties, Zenon
<1> HIDE DEF input
<1>4. \A i \in 1 .. n : input[4 + i] = v[i]
  BY <1>1, <1>2, <1>3
<1>5. SubSeq(input, 5, 4 + n) = [i \in 1 .. n |-> input[4 + i]]
  BY <1>1, <1>2, <1>3
<1>6. [i \in 1 .. n |-> input[4 + i]] = v
  BY <1>4 DEF Bytes
<1> QED
  BY <1>2, <1>5, <1>6 DEF input, WriteIoPort, IOCTL_WritePort, WriteInput
=============================================================================
