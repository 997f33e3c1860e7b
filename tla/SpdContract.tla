----------------------------- MODULE SpdContract -----------------------------
(***************************************************************************)
(* What ReadSpdData (helper_dll/spd.c) promises its callers, without a     *)
(* word about the SMBus: it is asked for a slot, and in the end it answers *)
(* FALSE, or TRUE with the contents of the module in that slot.            *)
(***************************************************************************)
CONSTANTS
  Readers,          \* callers
  Slots,            \* slots for memory modules
  NoSlot,
  Modules,          \* slots with a module
  Answers(_),       \* Answers(s): what a caller may get for a module
  Nothing           \* an empty buffer

VARIABLES
  asked,            \* the slot a caller waits for
  answer,           \* the last answer, or "none"
  given             \* what the caller got with the answer TRUE

contract == <<asked, answer, given>>

Init ==
  /\ asked = [r \in Readers |-> NoSlot]
  /\ answer = [r \in Readers |-> "none"]
  /\ given = [r \in Readers |-> Nothing]

Ask(r, s) ==
  /\ asked[r] = NoSlot
  /\ asked' = [asked EXCEPT ![r] = s]
  /\ answer' = [answer EXCEPT ![r] = "none"]
  /\ given' = [given EXCEPT ![r] = Nothing]

Refuse(r) ==
  /\ asked[r] # NoSlot
  /\ asked' = [asked EXCEPT ![r] = NoSlot]
  /\ answer' = [answer EXCEPT ![r] = "FALSE"]
  /\ UNCHANGED given

Give(r) ==
  /\ asked[r] \in Modules
  /\ given' \in {[given EXCEPT ![r] = v] : v \in Answers(asked[r])}
  /\ asked' = [asked EXCEPT ![r] = NoSlot]
  /\ answer' = [answer EXCEPT ![r] = "TRUE"]

Answer(r) == Refuse(r) \/ Give(r)

Next == \E r \in Readers : Answer(r) \/ \E s \in Slots : Ask(r, s)

Spec == Init /\ [][Next]_contract

\* Every caller gets its answer.
FairSpec == Spec /\ \A r \in Readers : WF_contract(Answer(r))
=============================================================================
