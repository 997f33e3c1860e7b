----------------------------- MODULE PortRequest -----------------------------
(***************************************************************************)
(* Reading and writing an I/O port through the driver: the six functions   *)
(* of helper_dll/helper_dll.c and the two handlers they reach in           *)
(* aspia_sys/ioctl_funct.c.  The requests are METHOD_BUFFERED: the handler *)
(* finds its input and leaves its output in one and the same buffer.       *)
(*                                                                         *)
(* Words and double words are the sequences of their bytes, lowest first.  *)
(***************************************************************************)
EXTENDS Integers, Sequences

Byte  == 0 .. 255
Bytes(n) == [1 .. n -> Byte]
Dword == Bytes(4)
Zero  == <<0, 0, 0, 0>>
Ones  == <<255, 255, 255, 255>>

\* IOCTL_ReadPort: the instruction overwrites the first bytes of the buffer,
\* behind them the port number stays; as many bytes go back as came in.
IOCTL_ReadPort(width, buffer, data) ==
  [i \in DOMAIN buffer |-> IF i <= width THEN data[i] ELSE buffer[i]]

\* DeviceIoControl copies what the handler left over the caller's variable.
CopyBack(variable, buffer) ==
  [i \in DOMAIN variable |->
     IF i \in DOMAIN buffer THEN buffer[i] ELSE variable[i]]

\* The three readers: data is what the port holds, and an answer of 0 stands
\* for a request that failed.
\* Mutant: the answer is not cut down to the byte.
ReadIoPortByteUncut(port, data) ==
  CopyBack(Zero, IOCTL_ReadPort(1, port, data))

ReadIoPortByte(port, data) ==
  <<CopyBack(Zero, IOCTL_ReadPort(1, port, data))[1]>>

\* Two bytes of the port number are all the request carries.
ReadIoPortWord(port, data) ==
  CopyBack(<<0, 0>>, IOCTL_ReadPort(2, SubSeq(port, 1, 2), data))

ReadIoPortDword(port, data) ==
  CopyBack(Zero, IOCTL_ReadPort(4, port, data))

\* The three writers: the port number, and behind it as many bytes of the
\* value as the request is for.
WriteInput(port, value) == port \o value

\* IOCTL_WritePort: the bytes behind the port number go to the port.
IOCTL_WritePort(width, buffer) == SubSeq(buffer, 5, 4 + width)

WriteIoPort(port, value) ==
  IOCTL_WritePort(Len(value), WriteInput(port, value))
=============================================================================
