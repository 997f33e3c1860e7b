------------------------------- MODULE MCSmBus -------------------------------
(***************************************************************************)
(* SmBus on small instances: two bytes of a module, one of them perhaps    *)
(* the byte quaere looks for, and an empty slot.                           *)
(***************************************************************************)
EXTENDS SmBus, TLC

CONSTANTS plain, shifted, empty    \* slots

Held == (plain :> (0 :> "a" @@ 1 :> "b")) @@ (shifted :> (0 :> "c" @@ 1 :> "0x95"))
Values == {"a", "b", "c", "0x95"}

NotVIA == ChipTypes \ {"VIA8235"}
Working == ChipTypes \ {"NVCK804", "UNKNOWN"}
EveryBus == {"controller", "no driver", "nothing"}
=============================================================================
