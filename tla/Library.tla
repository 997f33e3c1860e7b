------------------------------- MODULE Library -------------------------------
(***************************************************************************)
(* The helper library as one thread of the program uses it: calls of       *)
(* Ioctl, Smart and NvidiaApi, one after the other and in any order.  What *)
(* a call leaves behind (the thread's affinity, registers, open handles,   *)
(* the state of the NVIDIA interface) is there when the next one begins.   *)
(***************************************************************************)
EXTENDS Ioctl, Smart, NvidiaApi

library == <<kernel, smart, nvidia>>

Init == KernelInit /\ SmartInit /\ NvidiaInit

\* The thread is in no call.
Idle == place = "idle" /\ smPlace = "idle" /\ nvPlace = "idle"

Begin ==
  \/ BeginKernel /\ UNCHANGED <<smart, nvidia>>
  \/ BeginSmart /\ UNCHANGED <<kernel, nvidia>>
  \/ BeginNvidia /\ UNCHANGED <<kernel, smart>>

Step ==
  \/ KernelStep /\ UNCHANGED <<smart, nvidia>>
  \/ SmartStep /\ UNCHANGED <<kernel, nvidia>>
  \/ NvidiaStep /\ UNCHANGED <<kernel, smart>>

Next == (Idle /\ Begin) \/ Step

Spec == Init /\ [][Next]_library
=============================================================================
