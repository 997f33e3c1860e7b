------------------------------ MODULE MCLibrary ------------------------------
(***************************************************************************)
(* Library on a small machine: three processors of four numbers, drives of *)
(* every type and some whose tables do not agree, and GPUs one of which    *)
(* fills the table of sensors while the other does not.                    *)
(***************************************************************************)
EXTENDS Library

ConfigData == {<<252, 12, 0, 0>>}
FourBytes == {<<1, 2, 3, 4>>, Zero}

\* An attribute and a threshold whose fields follow from the Id.
A(id) == [id |-> id, value |-> id % 7, raw |-> 65536 + id]
T(id) == [id |-> id, threshold |-> id % 5]

Drive(model, attributes, thresholds) ==
  [model      |-> model,
   attributes |-> [i \in DOMAIN attributes |-> A(attributes[i])],
   thresholds |-> [i \in DOMAIN thresholds |-> T(thresholds[i])]]

SmallDrives == {
  Drive("other",     <<5, 0, \hC2, \hC5>>,      <<5, \hC2, 0, \hC5>>),
  Drive("other",     <<5, \hC2>>,               <<\hC2, 5>>),
  Drive("other",     <<5, \hC2>>,               <<5, 0>>),
  Drive("other",     <<\hE1, \hE8, \hE9>>,      <<\hE1, \hE8, \hE9>>),
  Drive("INTEL SSD", <<\hE1, 0, \hE8, \hE9>>,   <<0, \hE1, \hE8, \hE9>>),
  Drive("other",     <<\hAB, \hD1, \hE7, \hC2>>, <<\hAB, \hD1, \hE7, \hC2>>),
  Drive("PLEXTOR",   <<9, 0, 0, \hD1>>,         <<9, 0, 0, \hD1>>),
  Drive("other",     <<0, 0>>,                  <<0, 0>>) }

SmartRequests == {"CreateFile", "version", "enable", "attributes",
                  "thresholds", "identify", "geometry"}

Gpu(name, version, sensors, fan) ==
  [name |-> name, version |-> version, sensors |-> sensors, fan |-> fan]
S(target, temp) == [target |-> target, temp |-> temp]

Two == Gpu("two", 2, <<S("MEMORY", "m2"), S("GPU", "g2")>>, "f2")
Some == Gpu("some", 2, <<S("VCD_INLET", "i2")>>, "none")
One == Gpu("one", 1, <<S("GPU", "g1"), S("VCD_INLET", "i1")>>, "f1")
Mute == Gpu("none", 0, <<>>, "none")
Broken == Gpu("broken", 3, <<>>, "f3")

SmallGpuLists ==
  {<<>>, <<Two>>, <<Mute>>, <<Two, One>>, <<One, Two>>, <<Two, Some, Two>>,
   <<Broken, Two>>, <<Two, Mute>>}
=============================================================================
