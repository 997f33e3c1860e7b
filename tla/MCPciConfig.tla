----------------------------- MODULE MCPciConfig -----------------------------
(***************************************************************************)
(* PciConfig on a bus of four slots: a VIA8235 with its address at 0xD0,   *)
(* an AMD756 with its address at 0x58, a chip whose identity is known but  *)
(* whose class is that of a bridge, and nothing in the fourth.             *)
(***************************************************************************)
EXTENDS PciConfig

Via == <<0, 0>>
Bridge == <<0, 1>>
Amd == <<1, 0>>
Absent == <<1, 1>>
Chips == {Via, Bridge, Amd}

SmBusClass  == <<16, 0, 5, 12>>
BridgeClass == <<0, 0, 1, 6>>

Holding(id, class, word58, wordD0) ==
  [r \in {0, 8, \h58, \hD0} |->
     CASE r = 0 -> id [] r = 8 -> class
       [] r = \h58 -> word58 [] r = \hD0 -> wordD0]

Held ==
  [d \in Chips |->
     CASE d = Via ->
            Holding(Id(\h1106, \h3177), SmBusClass, Zero, <<1, 80, 0, 0>>)
       [] d = Amd ->
            Holding(Id(\h1022, \h7413), SmBusClass, <<1, 64, 0, 0>>, Zero)
       [] d = Bridge ->
            Holding(Id(\h8086, \h7113), BridgeClass, <<1, 48, 0, 0>>, Zero)]

Fixed == (Chips \X {0, 8, \h58, \hD0}) \ {<<Via, \hD0>>, <<Amd, \h58>>}

Read(op, d, o, n) == [op |-> op, device |-> d, offset |-> o, size |-> n]
Write(op, d, o, v) ==
  [op |-> op, device |-> d, offset |-> o, size |-> Len(v), value |-> v]

CONSTANTS searcher, other    \* the callers

Both == {
  Read("ReadPci", Amd, \h5A, 2),
  Read("ReadPciConfig", Amd, \h58, 4),
  Write("WritePciConfig", Via, \hD2, <<4, 3, 2, 1>>) }

\* Two searches at once set the latch no other way than an access and a
\* search do.
SomeCalls == [c \in Callers |-> Both \union
  IF c = searcher THEN {
    [op |-> "EnumSmBusBaseAddress"],
    Read("ReadPci", Via, \hD1, 1),
    Write("WritePci", Via, \hD1, <<7>>),
    Write("WritePciConfig", Absent, 0, <<1>>) }
  ELSE {
    Read("GetRegisterData", Via, \hD0, 2),
    Read("ReadPciConfig", Absent, 0, 1),
    Write("WritePci", Amd, \h5A, <<8, 9>>),
    Write("WritePci", Amd, \h59, <<8, 9>>),
    Write("WritePciConfig", Amd, \h5A, <<8, 9>>) }]

OneOrTwo == [c \in Callers |-> IF c = searcher THEN 1 ELSE 2]
=============================================================================
