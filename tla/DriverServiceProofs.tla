-------------------------- MODULE DriverServiceProofs --------------------------
(***************************************************************************)
(* Theorems about DriverService, for any number of programs, any sessions  *)
(* and any temporary directories: what programs leave behind and find, and *)
(* how soon each comes to its message loop or its end.                     *)
(***************************************************************************)
EXTENDS DriverService, TLAPS

-----------------------------------------------------------------------------
(* Types. *)

LEMMA UnloadType ==
  ASSUME TypeOK, Unload
  PROVE  /\ service' \in {"absent", "present", "marked"}
         /\ image' \in Directories \union {Installed}
         /\ driver' \in {"unloaded", "running", "unloading"}
BY DEF TypeOK, Unload

LEMMA CloseType ==
  ASSUME TypeOK, NEW closing, CloseHandles(closing)
  PROVE  /\ device' \in [Programs -> BOOLEAN]
         /\ service' \in {"absent", "present", "marked"}
         /\ image' \in Directories \union {Installed}
         /\ driver' \in {"unloaded", "running", "unloading"}
<1>1. device' \in [Programs -> BOOLEAN]
  BY DEF CloseHandles
<1>2. CASE Unload
  BY <1>1, <1>2, UnloadType
<1>3. CASE UNCHANGED <<driver, scm>>
  BY <1>1, <1>3 DEF TypeOK, scm
<1> QED
  BY <1>2, <1>3 DEF CloseHandles

\* Where a step of a program can lead.
LEMMA AtType ==
  ASSUME TypeOK, NEW p \in Programs, NEW from, NEW to \in ProgramStates,
         At(p, from, to)
  PROVE  /\ pc' \in [Programs -> ProgramStates]
         /\ pc[p] = from /\ pc'[p] = to
         /\ \A q \in Programs : q # p => pc'[q] = pc[q]
BY DEF TypeOK, At

\* What is noted of a step.
LEMMA HistoryType ==
  ASSUME TypeOK, [Next]_vars
  PROVE  interrupted' \in BOOLEAN /\ abandoned' \subseteq Directories
<1>1. \A p \in Programs : Copy(p) \subseteq Directories /\ Pending(p) \subseteq Directories
  BY DEF Copy, Pending, Directories
<1> USE <1>1 DEF TypeOK, history
<1>2. ASSUME NEW p \in Programs, Run(p)
      PROVE  interrupted' \in BOOLEAN /\ abandoned' \subseteq Directories
  <2>1. CASE LoadIcons(p) \/ CopyFile(p) \/ InstallDriver(p) \/ StartDriver(p)
             \/ OpenDevice(p) \/ Window(p) \/ UnloadClose(p) \/ Release(p)
    BY <2>1 DEF LoadIcons, CopyFile, InstallDriver, StartDriver, OpenDevice,
                Window, UnloadClose, Release
  <2>2. CASE OpenManager(p) \/ DeleteCopy(p)
    BY <2>2 DEF OpenManager, DeleteCopy
  <2>3. CASE UnloadManager(p) \/ StopDriver(p) \/ RemoveDriver(p)
    BY <2>3 DEF UnloadManager, StopDriver, RemoveDriver
  <2> QED
    BY <1>2, <2>1, <2>2, <2>3 DEF Run
<1>3. ASSUME NEW p \in Programs, Launch(p) \/ Quit(p) \/ Kill(p)
      PROVE  interrupted' \in BOOLEAN /\ abandoned' \subseteq Directories
  BY <1>3 DEF Launch, Quit, Kill
<1>4. CASE Reboot
  BY <1>4 DEF Reboot
<1>5. CASE UNCHANGED vars
  BY <1>5 DEF vars
<1> QED
  BY <1>2, <1>3, <1>4, <1>5 DEF Next

LEMMA RunType == ASSUME TypeOK, NEW p \in Programs, Run(p) PROVE TypeOK'
<1>0. interrupted' \in BOOLEAN /\ abandoned' \subseteq Directories
  BY HistoryType DEF Next
<1> USE <1>0 DEF TypeOK
<1>1. CASE LoadIcons(p)
  BY <1>1 DEF LoadIcons, At, ProgramStates, scm
<1>2. CASE CopyFile(p)
  BY <1>2 DEF CopyFile, At, ProgramStates, scm, Directories
<1>3. CASE OpenManager(p)
  BY <1>3 DEF OpenManager, At, ProgramStates, program, scm
<1>4. CASE InstallDriver(p)
  <2>1. pc' \in [Programs -> ProgramStates]
    BY <1>4 DEF InstallDriver, At, ProgramStates
  <2>2. service' \in {"absent", "present", "marked"}
        /\ image' \in Directories \union {Installed}
    BY <1>4 DEF InstallDriver, scm, Directories
  <2> QED
    BY <1>4, <2>1, <2>2 DEF InstallDriver, program
<1>5. CASE StartDriver(p)
  <2>1. pc' \in [Programs -> ProgramStates]
    BY <1>5 DEF StartDriver, At, ProgramStates
  <2>2. driver' \in {"unloaded", "running", "unloading"}
    BY <1>5 DEF StartDriver, DriverEntry
  <2>3. started' \in [Programs -> BOOLEAN]
    BY <1>5 DEF StartDriver
  <2> QED
    BY <1>5, <2>1, <2>2, <2>3 DEF StartDriver, scm
<1>6. CASE DeleteCopy(p)
  BY <1>6 DEF DeleteCopy, At, ProgramStates, program, scm
<1>7. CASE OpenDevice(p)
  BY <1>7 DEF OpenDevice, At, ProgramStates, scm
<1>8. CASE Window(p)
  BY <1>8 DEF Window, At, ProgramStates, scm
<1>9. CASE UnloadClose(p)
  <2>1. pc' \in [Programs -> ProgramStates]
    BY <1>9 DEF UnloadClose, At, ProgramStates
  <2> QED
    BY <1>9, <2>1, CloseType DEF UnloadClose, program
<1>10. CASE UnloadManager(p)
  BY <1>10 DEF UnloadManager, At, ProgramStates, Back, program, scm
<1>11. CASE StopDriver(p)
  <2>1. pc' \in [Programs -> ProgramStates]
    BY <1>11 DEF StopDriver, At, ProgramStates
  <2>2. /\ service' \in {"absent", "present", "marked"}
        /\ image' \in Directories \union {Installed}
        /\ driver' \in {"unloaded", "running", "unloading"}
    BY <1>11, UnloadType DEF StopDriver, scm
  <2> QED
    BY <1>11, <2>1, <2>2 DEF StopDriver, program
<1>12. CASE RemoveDriver(p)
  BY <1>12 DEF RemoveDriver, DeleteService, At, ProgramStates, Back, program
<1>13. CASE Release(p)
  <2>1. pc' \in [Programs -> ProgramStates]
    BY <1>13 DEF Release, At, ProgramStates
  <2> QED
    BY <1>13, <2>1, CloseType DEF Release, program
<1> QED
  BY <1>1, <1>2, <1>3, <1>4, <1>5, <1>6, <1>7, <1>8, <1>9, <1>10, <1>11,
     <1>12, <1>13 DEF Run

LEMMA TypeStep == TypeOK /\ [Next]_vars => TypeOK'
<1> SUFFICES ASSUME TypeOK, [Next]_vars PROVE TypeOK'
  OBVIOUS
<1>0. interrupted' \in BOOLEAN /\ abandoned' \subseteq Directories
  BY HistoryType
<1>1. ASSUME NEW p \in Programs, Run(p) PROVE TypeOK'
  BY <1>1, RunType
<1>2. ASSUME NEW p \in Programs, Launch(p) \/ Quit(p) PROVE TypeOK'
  BY <1>0, <1>2 DEF TypeOK, Launch, Quit, At, ProgramStates, scm
<1>3. ASSUME NEW p \in Programs, Kill(p) PROVE TypeOK'
  <2>1. pc' \in [Programs -> ProgramStates]
    BY <1>3 DEF Kill, ProgramStates, TypeOK
  <2> QED
    BY <1>0, <1>3, <2>1, CloseType DEF Kill, program, TypeOK
<1>4. CASE Reboot
  <2>1. pc' \in [Programs -> ProgramStates] /\ device' \in [Programs -> BOOLEAN]
    BY <1>4 DEF Reboot, ProgramStates
  <2> QED
    BY <1>0, <1>4, <2>1, UnloadType DEF Reboot, program, TypeOK
<1>5. CASE UNCHANGED vars
  BY <1>0, <1>5 DEF vars, program, scm, TypeOK
<1> QED
  BY <1>1, <1>2, <1>3, <1>4, <1>5 DEF Next

LEMMA TypeInit == Init => TypeOK
BY DEF Init, TypeOK, ProgramStates

\* Whatever fails or is killed, every variable keeps its type.
THEOREM TypeCorrect == Spec => []TypeOK
BY TypeInit, TypeStep, PTL DEF Spec

-----------------------------------------------------------------------------
(* The driver and its service. *)

\* The service control manager keeps a loaded driver's service, so that a
\* later program can still stop the driver.
NoOrphanDriver == driver # "unloaded" => service # "absent"

LEMMA NoOrphanRun ==
  ASSUME NoOrphanDriver, NEW p \in Programs, Run(p)
  PROVE  NoOrphanDriver'
<1> USE DEF NoOrphanDriver
<1>1. CASE LoadIcons(p) \/ CopyFile(p) \/ OpenManager(p) \/ DeleteCopy(p)
           \/ OpenDevice(p) \/ Window(p) \/ UnloadManager(p)
  BY <1>1 DEF LoadIcons, CopyFile, OpenManager, DeleteCopy, OpenDevice,
              Window, UnloadManager, scm
<1>2. CASE InstallDriver(p)
  BY <1>2 DEF InstallDriver, scm
<1>3. CASE StartDriver(p)
  BY <1>3 DEF StartDriver, DriverEntry, scm
<1>4. CASE UnloadClose(p) \/ Release(p)
  BY <1>4 DEF UnloadClose, Release, CloseHandles, Unload, scm
<1>5. CASE StopDriver(p)
  BY <1>5 DEF StopDriver, Unload, scm
<1>6. CASE RemoveDriver(p)
  BY <1>6 DEF RemoveDriver, DeleteService
<1> QED
  BY <1>1, <1>2, <1>3, <1>4, <1>5, <1>6 DEF Run

LEMMA NoOrphanStep == NoOrphanDriver /\ [Next]_vars => NoOrphanDriver'
<1> SUFFICES ASSUME NoOrphanDriver, [Next]_vars PROVE NoOrphanDriver'
  OBVIOUS
<1>1. ASSUME NEW p \in Programs, Run(p) PROVE NoOrphanDriver'
  BY <1>1, NoOrphanRun
<1>2. CASE \/ \E p \in Programs : Launch(p) \/ Quit(p)
           \/ UNCHANGED vars
  BY <1>2 DEF NoOrphanDriver, Launch, Quit, vars, scm
<1>3. CASE Reboot \/ \E p \in Programs : Kill(p)
  BY <1>3 DEF NoOrphanDriver, Kill, Reboot, CloseHandles, Unload, scm
<1> QED
  BY <1>1, <1>2, <1>3 DEF Next

-----------------------------------------------------------------------------
(* A device that was opened stays. *)

\* A program keeps the handle it opened until it gives it up itself, and a
\* driver with an open handle is not unloaded.
DeviceInv ==
  /\ \A p \in Programs :
       pc[p] \in {"window", "running"} /\ initialized[p] => device[p]
  /\ InUse(device) => driver # "unloaded"

\* A step that touches neither handles nor the driver.
LEMMA DeviceSame ==
  ASSUME TypeOK, DeviceInv, NEW p \in Programs, NEW to,
         pc' = [pc EXCEPT ![p] = to], UNCHANGED <<device, driver>>,
         \A q \in Programs : initialized'[q] => initialized[q],
         to \in {"window", "running"} /\ initialized'[p] => device[p]
  PROVE  DeviceInv'
<1>1. \A q \in Programs : q # p => pc'[q] = pc[q]
  BY DEF TypeOK
<1>2. pc'[p] = to
  BY DEF TypeOK
<1> QED
  BY <1>1, <1>2 DEF DeviceInv, InUse

\* A program that closes its handles is past its message loop.
LEMMA DeviceClosed ==
  ASSUME TypeOK, DeviceInv, NEW p \in Programs, CloseHandles({p}),
         NEW to, to \notin {"window", "running"},
         pc' = [pc EXCEPT ![p] = to], initialized' = initialized
  PROVE  DeviceInv'
<1>1. \A q \in Programs : q # p => pc'[q] = pc[q] /\ device'[q] = device[q]
  BY DEF TypeOK, CloseHandles
<1>2. pc'[p] = to
  BY DEF TypeOK
<1>3. InUse(device') => InUse(device)
  BY DEF CloseHandles, InUse
<1>4. InUse(device') => driver' # "unloaded"
  BY <1>3 DEF CloseHandles, DeviceInv
<1> QED
  BY <1>1, <1>2, <1>4 DEF DeviceInv, InUse

\* A program is initialized only once it has a device, and comes to
\* UnloadDriver after that only on its way out.
InitializedInv ==
  \A p \in Programs :
    initialized[p] =>
      \/ pc[p] \in {"window", "running", "release", "down"}
      \/ pc[p] \in {"close", "manager2", "stop", "remove"} /\ exiting[p]

LEMMA InitializedRun ==
  ASSUME TypeOK, InitializedInv, NEW p \in Programs, Run(p)
  PROVE  InitializedInv'
<1> USE DEF InitializedInv, At, TypeOK
<1>1. CASE LoadIcons(p) \/ CopyFile(p) \/ OpenManager(p)
  BY <1>1 DEF LoadIcons, CopyFile, OpenManager, program
<1>2. CASE InstallDriver(p) \/ StartDriver(p) \/ DeleteCopy(p)
  BY <1>2 DEF InstallDriver, StartDriver, DeleteCopy, program
<1>3. CASE OpenDevice(p)
  BY <1>3 DEF OpenDevice
<1>4. CASE Window(p)
  BY <1>4 DEF Window
<1>5. CASE UnloadClose(p) \/ UnloadManager(p) \/ StopDriver(p)
           \/ RemoveDriver(p) \/ Release(p)
  BY <1>5 DEF UnloadClose, UnloadManager, StopDriver, RemoveDriver, Release,
              Back, program
<1> QED
  BY <1>1, <1>2, <1>3, <1>4, <1>5 DEF Run

LEMMA InitializedStep ==
  TypeOK /\ InitializedInv /\ [Next]_vars => InitializedInv'
<1> SUFFICES ASSUME TypeOK, InitializedInv, [Next]_vars PROVE InitializedInv'
  OBVIOUS
<1>1. ASSUME NEW p \in Programs, Run(p) PROVE InitializedInv'
  BY <1>1, InitializedRun
<1>2. ASSUME NEW p \in Programs, Launch(p) PROVE InitializedInv'
  BY <1>2 DEF InitializedInv, TypeOK, Launch, At
<1>3. ASSUME NEW p \in Programs, Quit(p) PROVE InitializedInv'
  BY <1>3 DEF InitializedInv, TypeOK, Quit, At
<1>4. CASE Reboot \/ \E p \in Programs : Kill(p)
  BY <1>4 DEF InitializedInv, TypeOK, Kill, Reboot, program
<1>5. CASE UNCHANGED vars
  BY <1>5 DEF InitializedInv, vars, program
<1> QED
  BY <1>1, <1>2, <1>3, <1>4, <1>5 DEF Next

LEMMA DeviceRun ==
  ASSUME TypeOK, InitializedInv, DeviceInv, NEW p \in Programs, Run(p)
  PROVE  DeviceInv'
<1>1. CASE LoadIcons(p) \/ CopyFile(p) \/ OpenManager(p)
  <2>1. /\ pc[p] \in {"icons", "copy", "manager"}
        /\ \E to : pc' = [pc EXCEPT ![p] = to]
        /\ UNCHANGED <<device, driver, initialized>>
    BY <1>1 DEF LoadIcons, CopyFile, OpenManager, At, program
  <2> QED
    BY <2>1, DeviceSame DEF InitializedInv
<1>2. CASE InstallDriver(p) \/ DeleteCopy(p)
  <2>1. /\ pc[p] \in {"install", "delete"}
        /\ \E to : pc' = [pc EXCEPT ![p] = to]
        /\ UNCHANGED <<device, driver, initialized>>
    BY <1>2 DEF InstallDriver, DeleteCopy, At, program
  <2> QED
    BY <2>1, DeviceSame DEF InitializedInv
<1>3. CASE StartDriver(p)
  <2>1. /\ pc' = [pc EXCEPT ![p] = "delete"]
        /\ UNCHANGED <<device, initialized>>
        /\ driver' = driver \/ driver' = "running"
    BY <1>3 DEF StartDriver, DriverEntry, At
  <2>2. \A q \in Programs : pc'[q] = pc[q] \/ pc'[q] = "delete"
    BY <2>1 DEF TypeOK
  <2> QED
    BY <2>1, <2>2 DEF DeviceInv
<1>4. CASE OpenDevice(p)
  <2>1. CASE At(p, "open", "close") /\ UNCHANGED <<device, initialized>>
    BY <1>4, <2>1, DeviceSame DEF OpenDevice, At
  <2>2. CASE /\ driver = "running" /\ At(p, "open", "window")
             /\ device' = [device EXCEPT ![p] = TRUE]
             /\ initialized' = [initialized EXCEPT ![p] = TRUE]
    <3>1. /\ device'[p]
          /\ \A q \in Programs : q # p =>
               /\ pc'[q] = pc[q] /\ device'[q] = device[q]
               /\ initialized'[q] = initialized[q]
      BY <2>2 DEF At, TypeOK
    <3>2. driver' = "running"
      BY <1>4, <2>2 DEF OpenDevice
    <3> QED
      BY <3>1, <3>2 DEF DeviceInv
  <2> QED
    BY <1>4, <2>1, <2>2 DEF OpenDevice
<1>5. CASE Window(p)
  <2>1. /\ pc[p] = "window"
        /\ \E to : pc' = [pc EXCEPT ![p] = to]
        /\ UNCHANGED <<device, driver, initialized>>
    BY <1>5 DEF Window, At
  <2> QED
    BY <2>1, DeviceSame DEF DeviceInv
<1>6. CASE UnloadClose(p) \/ Release(p)
  <2>1. /\ CloseHandles({p}) /\ initialized' = initialized
        /\ \E to \in {"manager2", "down"} : pc' = [pc EXCEPT ![p] = to]
    BY <1>6 DEF UnloadClose, Release, At, program
  <2> QED
    BY <2>1, DeviceClosed
<1>7. CASE UnloadManager(p) \/ RemoveDriver(p)
  <2>1. /\ UNCHANGED <<device, driver, initialized, exiting>>
        /\ \E to \in {"stop", Back(p)} : pc' = [pc EXCEPT ![p] = to]
    BY <1>7 DEF UnloadManager, RemoveDriver, At, program
  <2>2. pc[p] \in {"manager2", "remove"}
    BY <1>7 DEF UnloadManager, RemoveDriver, At
  <2>3. initialized[p] => exiting[p]
    BY <2>2 DEF InitializedInv
  <2>4. initialized[p] => Back(p) = "release"
    BY <2>3 DEF Back
  <2> QED
    BY <2>1, <2>4, DeviceSame
<1>8. CASE StopDriver(p)
  <2>1. /\ pc' = [pc EXCEPT ![p] = "remove"]
        /\ UNCHANGED <<device, initialized>>
        /\ InUse(device) => driver' = driver \/ driver' = "unloading"
    BY <1>8 DEF StopDriver, At, program
  <2>2. \A q \in Programs : pc'[q] = pc[q] \/ pc'[q] = "remove"
    BY <2>1 DEF TypeOK
  <2> QED
    BY <2>1, <2>2 DEF DeviceInv
<1> QED
  BY <1>1, <1>2, <1>3, <1>4, <1>5, <1>6, <1>7, <1>8 DEF Run

LEMMA DeviceStep ==
  TypeOK /\ InitializedInv /\ DeviceInv /\ [Next]_vars => DeviceInv'
<1> SUFFICES ASSUME TypeOK, InitializedInv, DeviceInv, [Next]_vars
             PROVE  DeviceInv'
  OBVIOUS
<1>1. ASSUME NEW p \in Programs, Run(p) PROVE DeviceInv'
  BY <1>1, DeviceRun
<1>2. ASSUME NEW p \in Programs, Launch(p) PROVE DeviceInv'
  BY <1>2, DeviceSame DEF Launch, At, TypeOK
<1>3. ASSUME NEW p \in Programs, Quit(p) PROVE DeviceInv'
  BY <1>3, DeviceSame DEF Quit, At
<1>4. ASSUME NEW p \in Programs, Kill(p) PROVE DeviceInv'
  BY <1>4, DeviceClosed DEF Kill, program
<1>5. CASE Reboot
  BY <1>5 DEF Reboot, DeviceInv, InUse
<1>6. CASE UNCHANGED vars
  BY <1>6 DEF vars, program, DeviceInv, InUse
<1> QED
  BY <1>1, <1>2, <1>3, <1>4, <1>5, <1>6 DEF Next

\* Whatever the programs of other sessions load, unload or leave behind, a
\* program that runs with its driver initialized has an open device with
\* the driver behind it.
THEOREM DevicesStay == Spec => []DeviceUsable
<1> DEFINE Inv == TypeOK /\ InitializedInv /\ DeviceInv
<1>1. Init => Inv
  BY TypeInit DEF Init, InitializedInv, DeviceInv, InUse
<1>2. Inv /\ [Next]_vars => Inv'
  BY TypeStep, InitializedStep, DeviceStep
<1>3. Inv => DeviceUsable
  BY DEF DeviceInv, DeviceUsable, InUse
<1> QED
  BY <1>1, <1>2, <1>3, PTL DEF Spec

-----------------------------------------------------------------------------
(* What is left behind was left by a program that was killed or refused.   *)

\* The places from which a program still comes through StopDriver, and those
\* from which it still comes through RemoveDriver.
BeforeStop == {"delete", "open", "window", "running", "close", "manager2", "stop"}
BeforeRemove == BeforeStop \union {"start", "remove"}

\* Whoever has the driver started, or finds it running, will stop it.
DriverInv ==
  driver = "running" => \E q \in Programs : pc[q] \in BeforeStop

\* Whoever installs the service, or finds it, will remove it.
ServiceInv ==
  service = "present" => \E q \in Programs : pc[q] \in BeforeRemove

\* What is on its way out waits only for handles, and those are closed.
HandlesInv ==
  /\ \A q \in Programs : device[q] => pc[q] \in {"window", "running", "close"}
  /\ driver = "unloading" => InUse(device)
  /\ service = "marked" => driver # "unloaded"

\* A copy was left, or has a program that is about to delete it.
Deleting == {"manager", "install", "start", "delete"}

CopiesInv ==
  \A d \in copies :
    \/ d \in abandoned
    \/ \E q \in Programs : Temp[q] = d /\ canDelete[q] /\ pc[q] \in Deleting

\* One program moves within a set of places.
LEMMA MoveInside ==
  ASSUME TypeOK, NEW p \in Programs, NEW to, NEW S,
         pc' = [pc EXCEPT ![p] = to], pc[p] \in S => to \in S,
         \E q \in Programs : pc[q] \in S
  PROVE  \E q \in Programs : pc'[q] \in S
BY DEF TypeOK

-----------------------------------------------------------------------------
(* The driver. *)

LEMMA DriverRun ==
  ASSUME TypeOK, NoOrphanDriver, DriverInv,
         NEW p \in Programs, Run(p), ~interrupted'
  PROVE  DriverInv'
<1>1. CASE LoadIcons(p) \/ CopyFile(p) \/ OpenManager(p) \/ InstallDriver(p)
  <2>1. driver' = driver /\ pc[p] \in {"icons", "copy", "manager", "install"}
    BY <1>1 DEF LoadIcons, CopyFile, OpenManager, InstallDriver, At
  <2>2. \E to : pc' = [pc EXCEPT ![p] = to]
    BY <1>1 DEF LoadIcons, CopyFile, OpenManager, InstallDriver, At
  <2> QED
    BY <2>1, <2>2, MoveInside DEF DriverInv, BeforeStop
<1>2. CASE StartDriver(p)
  BY <1>2 DEF StartDriver, At, DriverInv, BeforeStop, TypeOK
<1>3. CASE DeleteCopy(p) \/ OpenDevice(p) \/ Window(p)
  <2>1. driver' = driver
    BY <1>3 DEF DeleteCopy, OpenDevice, Window
  <2>2. \E to \in {"open", "window", "close", "running"} :
          pc' = [pc EXCEPT ![p] = to]
    BY <1>3 DEF DeleteCopy, OpenDevice, Window, At
  <2> QED
    BY <2>1, <2>2, MoveInside DEF DriverInv, BeforeStop
<1>4. CASE UnloadClose(p)
  <2>1. driver' = "running" => driver = "running"
    BY <1>4 DEF UnloadClose, CloseHandles, Unload
  <2>2. pc' = [pc EXCEPT ![p] = "manager2"]
    BY <1>4 DEF UnloadClose, At
  <2> QED
    BY <2>1, <2>2, MoveInside DEF DriverInv, BeforeStop
<1>5. CASE UnloadManager(p)
  <2>1. driver' = driver
    BY <1>5 DEF UnloadManager
  <2>2. pc' = [pc EXCEPT ![p] = "stop"]
    BY <1>5 DEF UnloadManager, At
  <2> QED
    BY <2>1, <2>2, MoveInside DEF DriverInv, BeforeStop
<1>6. CASE StopDriver(p)
  BY <1>6 DEF StopDriver, At, Unload, NoOrphanDriver, DriverInv
<1>7. CASE RemoveDriver(p)
  <2>1. driver' = driver /\ pc[p] = "remove"
    BY <1>7 DEF RemoveDriver, At
  <2>2. pc' = [pc EXCEPT ![p] = Back(p)]
    BY <1>7 DEF RemoveDriver, At
  <2> QED
    BY <2>1, <2>2, MoveInside DEF DriverInv, BeforeStop
<1>8. CASE Release(p)
  <2>1. driver' = "running" => driver = "running"
    BY <1>8 DEF Release, CloseHandles, Unload
  <2>2. pc[p] = "release" /\ pc' = [pc EXCEPT ![p] = "down"]
    BY <1>8 DEF Release, At
  <2> QED
    BY <2>1, <2>2, MoveInside DEF DriverInv, BeforeStop
<1> QED
  BY <1>1, <1>2, <1>3, <1>4, <1>5, <1>6, <1>7, <1>8 DEF Run

LEMMA DriverStep ==
  ASSUME TypeOK, NoOrphanDriver, DriverInv, [Next]_vars, ~interrupted'
  PROVE  DriverInv'
<1>1. ASSUME NEW p \in Programs, Run(p) PROVE DriverInv'
  BY <1>1, DriverRun
<1>2. ASSUME NEW p \in Programs, Launch(p) PROVE DriverInv'
  <2>1. driver' = driver /\ pc[p] = "down" /\ pc' = [pc EXCEPT ![p] = "icons"]
    BY <1>2 DEF Launch, At
  <2> QED
    BY <2>1, MoveInside DEF DriverInv, BeforeStop
<1>3. ASSUME NEW p \in Programs, Quit(p) PROVE DriverInv'
  <2>1. driver' = driver /\ pc' = [pc EXCEPT ![p] = "close"]
    BY <1>3 DEF Quit, At
  <2> QED
    BY <2>1, MoveInside DEF DriverInv, BeforeStop
<1>4. CASE UNCHANGED vars
  BY <1>4 DEF vars, DriverInv
<1> QED
  BY <1>1, <1>2, <1>3, <1>4 DEF Next, Kill, Reboot

-----------------------------------------------------------------------------
(* The service. *)

LEMMA ServiceRun ==
  ASSUME TypeOK, ServiceInv, NEW p \in Programs, Run(p), ~interrupted'
  PROVE  ServiceInv'
<1>1. CASE LoadIcons(p) \/ CopyFile(p) \/ OpenManager(p)
  <2>1. service' = service /\ pc[p] \in {"icons", "copy", "manager"}
    BY <1>1 DEF LoadIcons, CopyFile, OpenManager, At, scm
  <2>2. \E to : pc' = [pc EXCEPT ![p] = to]
    BY <1>1 DEF LoadIcons, CopyFile, OpenManager, At
  <2> QED
    BY <2>1, <2>2, MoveInside DEF ServiceInv, BeforeRemove, BeforeStop
<1>2. CASE InstallDriver(p)
  <2>1. \E to \in {"start", "delete"} : pc' = [pc EXCEPT ![p] = to]
    BY <1>2 DEF InstallDriver, At
  <2>2. pc'[p] \in BeforeRemove
    BY <2>1 DEF TypeOK, BeforeRemove, BeforeStop
  <2> QED
    BY <2>2 DEF ServiceInv
<1>3. CASE StartDriver(p) \/ DeleteCopy(p) \/ OpenDevice(p) \/ Window(p)
  <2>1. service' = service
    BY <1>3 DEF StartDriver, DeleteCopy, OpenDevice, Window, scm
  <2>2. \E to \in {"delete", "open", "window", "close", "running"} :
          pc' = [pc EXCEPT ![p] = to]
    BY <1>3 DEF StartDriver, DeleteCopy, OpenDevice, Window, At
  <2> QED
    BY <2>1, <2>2, MoveInside DEF ServiceInv, BeforeRemove, BeforeStop
<1>4. CASE UnloadClose(p)
  <2>1. service' = "present" => service = "present"
    BY <1>4 DEF UnloadClose, CloseHandles, Unload, scm
  <2>2. pc' = [pc EXCEPT ![p] = "manager2"]
    BY <1>4 DEF UnloadClose, At
  <2> QED
    BY <2>1, <2>2, MoveInside DEF ServiceInv, BeforeRemove, BeforeStop
<1>5. CASE UnloadManager(p) \/ StopDriver(p)
  <2>1. service' = "present" => service = "present"
    BY <1>5 DEF UnloadManager, StopDriver, Unload, scm
  <2>2. \E to \in {"stop", "remove"} : pc' = [pc EXCEPT ![p] = to]
    BY <1>5 DEF UnloadManager, StopDriver, At
  <2> QED
    BY <2>1, <2>2, MoveInside DEF ServiceInv, BeforeRemove, BeforeStop
<1>6. CASE RemoveDriver(p)
  BY <1>6 DEF RemoveDriver, DeleteService, ServiceInv
<1>7. CASE Release(p)
  <2>1. service' = "present" => service = "present"
    BY <1>7 DEF Release, CloseHandles, Unload, scm
  <2>2. pc[p] = "release" /\ pc' = [pc EXCEPT ![p] = "down"]
    BY <1>7 DEF Release, At
  <2> QED
    BY <2>1, <2>2, MoveInside DEF ServiceInv, BeforeRemove, BeforeStop
<1> QED
  BY <1>1, <1>2, <1>3, <1>4, <1>5, <1>6, <1>7 DEF Run

LEMMA ServiceStep ==
  ASSUME TypeOK, ServiceInv, [Next]_vars, ~interrupted'
  PROVE  ServiceInv'
<1>1. ASSUME NEW p \in Programs, Run(p) PROVE ServiceInv'
  BY <1>1, ServiceRun
<1>2. ASSUME NEW p \in Programs, Launch(p) PROVE ServiceInv'
  <2>1. service' = service /\ pc[p] = "down" /\ pc' = [pc EXCEPT ![p] = "icons"]
    BY <1>2 DEF Launch, At, scm
  <2> QED
    BY <2>1, MoveInside DEF ServiceInv, BeforeRemove, BeforeStop
<1>3. ASSUME NEW p \in Programs, Quit(p) PROVE ServiceInv'
  <2>1. service' = service /\ pc' = [pc EXCEPT ![p] = "close"]
    BY <1>3 DEF Quit, At, scm
  <2> QED
    BY <2>1, MoveInside DEF ServiceInv, BeforeRemove, BeforeStop
<1>4. CASE UNCHANGED vars
  BY <1>4 DEF vars, scm, ServiceInv
<1> QED
  BY <1>1, <1>2, <1>3, <1>4 DEF Next, Kill, Reboot

-----------------------------------------------------------------------------
(* What is on its way out. *)

LEMMA HandlesSame ==
  ASSUME TypeOK, HandlesInv, NEW p \in Programs, NEW to,
         pc' = [pc EXCEPT ![p] = to], UNCHANGED <<device, driver, service>>,
         pc[p] \notin {"window", "running", "close"}
           \/ to \in {"window", "running", "close"}
  PROVE  HandlesInv'
BY DEF HandlesInv, InUse, TypeOK

LEMMA HandlesClosed ==
  ASSUME TypeOK, HandlesInv, NEW p \in Programs, NEW to,
         pc' = [pc EXCEPT ![p] = to], CloseHandles({p})
  PROVE  HandlesInv'
<1>1. \A q \in Programs : device'[q] => q # p /\ device[q] /\ pc'[q] = pc[q]
  BY DEF CloseHandles, TypeOK
<1>2. driver' = "unloading" => InUse(device')
  BY DEF CloseHandles, Unload, HandlesInv
<1>3. service' = "marked" => driver' # "unloaded"
  BY DEF CloseHandles, Unload, HandlesInv, scm
<1> QED
  BY <1>1, <1>2, <1>3 DEF HandlesInv

LEMMA HandlesRun ==
  ASSUME TypeOK, HandlesInv, NEW p \in Programs, Run(p)
  PROVE  HandlesInv'
<1>1. CASE LoadIcons(p) \/ CopyFile(p) \/ OpenManager(p) \/ DeleteCopy(p)
           \/ UnloadManager(p)
  <2>1. /\ UNCHANGED <<device, driver, service>>
        /\ pc[p] \in {"icons", "copy", "manager", "delete", "manager2"}
        /\ \E to : pc' = [pc EXCEPT ![p] = to]
    BY <1>1 DEF LoadIcons, CopyFile, OpenManager, DeleteCopy, UnloadManager,
                At, scm
  <2> QED
    BY <2>1, HandlesSame
<1>2. CASE InstallDriver(p)
  <2>1. /\ UNCHANGED <<device, driver>>
        /\ service' = "marked" => service = "marked"
        /\ pc[p] = "install" /\ \E to : pc' = [pc EXCEPT ![p] = to]
    BY <1>2 DEF InstallDriver, At, scm
  <2> QED
    BY <2>1 DEF HandlesInv, InUse, TypeOK
<1>3. CASE StartDriver(p)
  <2>1. /\ UNCHANGED <<device, service>>
        /\ driver' = driver \/ driver' = "running"
        /\ pc[p] = "start" /\ pc' = [pc EXCEPT ![p] = "delete"]
    BY <1>3 DEF StartDriver, DriverEntry, At, scm
  <2> QED
    BY <2>1 DEF HandlesInv, InUse, TypeOK
<1>4. CASE OpenDevice(p)
  <2>1. CASE UNCHANGED device
    <3>1. /\ UNCHANGED <<device, driver, service>> /\ pc[p] = "open"
          /\ \E to : pc' = [pc EXCEPT ![p] = to]
      BY <1>4, <2>1 DEF OpenDevice, At, scm
    <3> QED
      BY <3>1, HandlesSame
  <2>2. CASE /\ driver = "running" /\ device' = [device EXCEPT ![p] = TRUE]
             /\ pc' = [pc EXCEPT ![p] = "window"]
    <3>1. UNCHANGED <<driver, service>>
      BY <1>4 DEF OpenDevice, scm
    <3> QED
      BY <2>2, <3>1 DEF HandlesInv, TypeOK
  <2> QED
    BY <1>4, <2>1, <2>2 DEF OpenDevice, At
<1>5. CASE Window(p)
  <2>1. /\ UNCHANGED <<device, driver, service>>
        /\ \E to \in {"running", "close"} : pc' = [pc EXCEPT ![p] = to]
    BY <1>5 DEF Window, At, scm
  <2> QED
    BY <2>1, HandlesSame
<1>6. CASE UnloadClose(p) \/ Release(p)
  <2>1. CloseHandles({p}) /\ \E to : pc' = [pc EXCEPT ![p] = to]
    BY <1>6 DEF UnloadClose, Release, At
  <2> QED
    BY <2>1, HandlesClosed
<1>7. CASE StopDriver(p)
  <2>1. /\ device' = device
        /\ pc[p] = "stop" /\ pc' = [pc EXCEPT ![p] = "remove"]
    BY <1>7 DEF StopDriver, At, program
  <2>2. driver' = "unloading" => InUse(device)
    BY <1>7 DEF StopDriver, Unload, HandlesInv
  <2>3. service' = "marked" => driver' # "unloaded"
    BY <1>7 DEF StopDriver, Unload, HandlesInv, scm
  <2> QED
    BY <2>1, <2>2, <2>3 DEF HandlesInv, TypeOK
<1>8. CASE RemoveDriver(p)
  <2>1. /\ UNCHANGED <<device, driver>>
        /\ service' = "marked" => driver # "unloaded"
        /\ pc[p] = "remove" /\ \E to : pc' = [pc EXCEPT ![p] = to]
    BY <1>8 DEF RemoveDriver, DeleteService, HandlesInv, At
  <2> QED
    BY <2>1 DEF HandlesInv, InUse, TypeOK
<1> QED
  BY <1>1, <1>2, <1>3, <1>4, <1>5, <1>6, <1>7, <1>8 DEF Run

LEMMA HandlesStep ==
  ASSUME TypeOK, HandlesInv, [Next]_vars
  PROVE  HandlesInv'
<1>1. ASSUME NEW p \in Programs, Run(p) PROVE HandlesInv'
  BY <1>1, HandlesRun
<1>2. ASSUME NEW p \in Programs, Launch(p) \/ Quit(p) PROVE HandlesInv'
  <2>1. /\ UNCHANGED <<device, driver, service>>
        /\ \/ pc[p] = "down" /\ pc' = [pc EXCEPT ![p] = "icons"]
           \/ pc' = [pc EXCEPT ![p] = "close"]
    BY <1>2 DEF Launch, Quit, At, scm
  <2> QED
    BY <2>1, HandlesSame
<1>3. ASSUME NEW p \in Programs, Kill(p) PROVE HandlesInv'
  BY <1>3, HandlesClosed DEF Kill
<1>4. CASE Reboot
  BY <1>4 DEF Reboot, Unload, HandlesInv
<1>5. CASE UNCHANGED vars
  BY <1>5 DEF vars, scm, HandlesInv, InUse
<1> QED
  BY <1>1, <1>2, <1>3, <1>4, <1>5 DEF Next

-----------------------------------------------------------------------------
(* The copies. *)

\* A step that makes no copy and deletes none, by a program that has none to
\* delete, keeps it in mind or leaves it.
LEMMA CopiesSame ==
  ASSUME TypeOK, CopiesInv, NEW p \in Programs, NEW to,
         pc' = [pc EXCEPT ![p] = to], copies' = copies, abandoned \subseteq abandoned',
         \/ UNCHANGED canDelete /\ to \in Deleting
         \/ /\ \A q \in Programs : q # p => canDelete'[q] = canDelete[q]
            /\ pc[p] \notin Deleting \/ Copy(p) \subseteq abandoned'
  PROVE  CopiesInv'
BY DEF CopiesInv, TypeOK, Copy

LEMMA CopiesRun ==
  ASSUME TypeOK, CopiesInv, NEW p \in Programs, Run(p)
  PROVE  CopiesInv'
<1>1. CASE LoadIcons(p) \/ OpenDevice(p) \/ Window(p)
  <2>1. /\ UNCHANGED <<copies, canDelete, abandoned>>
        /\ pc[p] \in {"icons", "open", "window"}
        /\ \E to : pc' = [pc EXCEPT ![p] = to]
    BY <1>1 DEF LoadIcons, OpenDevice, Window, At, history
  <2> QED
    BY <2>1, CopiesSame DEF Deleting
<1>2. CASE CopyFile(p)
  <2>0. abandoned' = abandoned
    BY <1>2 DEF CopyFile, history
  <2>1. CASE UNCHANGED <<copies, canDelete>>
    <3>1. pc[p] = "copy" /\ \E to : pc' = [pc EXCEPT ![p] = to]
      BY <1>2 DEF CopyFile, At
    <3> QED
      BY <2>0, <2>1, <3>1, CopiesSame DEF Deleting
  <2>2. CASE /\ pc[p] = "copy" /\ pc' = [pc EXCEPT ![p] = "manager"]
             /\ copies' = copies \union {Temp[p]}
             /\ canDelete' = [canDelete EXCEPT ![p] = TRUE]
    BY <2>0, <2>2 DEF CopiesInv, Deleting, TypeOK
  <2> QED
    BY <1>2, <2>1, <2>2 DEF CopyFile, At
<1>3. CASE OpenManager(p)
  <2>1. /\ UNCHANGED <<copies, canDelete>> /\ abandoned \subseteq abandoned'
        /\ \E to : /\ pc' = [pc EXCEPT ![p] = to]
                   /\ to = "install" \/ Copy(p) \subseteq abandoned'
    BY <1>3 DEF OpenManager, At, program
  <2> QED
    BY <2>1, CopiesSame DEF Deleting
<1>4. CASE InstallDriver(p) \/ StartDriver(p)
  <2>1. /\ UNCHANGED <<copies, canDelete, abandoned>>
        /\ \E to \in {"start", "delete"} : pc' = [pc EXCEPT ![p] = to]
    BY <1>4 DEF InstallDriver, StartDriver, At, program, history
  <2> QED
    BY <2>1, CopiesSame DEF Deleting
<1>5. CASE DeleteCopy(p)
  <2>1. /\ canDelete' = canDelete
        /\ \E to : pc' = [pc EXCEPT ![p] = to]
    BY <1>5 DEF DeleteCopy, At, program
  <2>2. CASE copies' = copies /\ abandoned' = abandoned \union Copy(p)
    BY <2>1, <2>2, CopiesSame
  <2>3. CASE copies' = copies \ Copy(p) /\ abandoned' = abandoned
    <3>1. \A q \in Programs : q # p => pc'[q] = pc[q]
      BY <2>1 DEF TypeOK
    <3>2. \A d \in copies' : d = Temp[p] => ~canDelete[p]
      BY <2>3 DEF Copy
    <3> QED
      BY <2>1, <2>3, <3>1, <3>2 DEF CopiesInv
  <2> QED
    BY <1>5, <2>2, <2>3 DEF DeleteCopy
<1>6. CASE UnloadClose(p) \/ UnloadManager(p) \/ StopDriver(p)
           \/ RemoveDriver(p) \/ Release(p)
  <2>1. /\ UNCHANGED <<copies, canDelete, abandoned>>
        /\ pc[p] \in {"close", "manager2", "stop", "remove", "release"}
        /\ \E to : pc' = [pc EXCEPT ![p] = to]
    BY <1>6 DEF UnloadClose, UnloadManager, StopDriver, RemoveDriver, Release,
                At, program, history
  <2> QED
    BY <2>1, CopiesSame DEF Deleting
<1> QED
  BY <1>1, <1>2, <1>3, <1>4, <1>5, <1>6 DEF Run

LEMMA CopiesStep ==
  ASSUME TypeOK, CopiesInv, [Next]_vars
  PROVE  CopiesInv'
<1>1. ASSUME NEW p \in Programs, Run(p) PROVE CopiesInv'
  BY <1>1, CopiesRun
<1>2. ASSUME NEW p \in Programs, Launch(p) PROVE CopiesInv'
  <2>1. /\ copies' = copies /\ abandoned' = abandoned \cap copies
        /\ pc[p] = "down"
        /\ \A q \in Programs : q # p => /\ canDelete'[q] = canDelete[q]
                                       /\ pc'[q] = pc[q]
    BY <1>2 DEF Launch, At, TypeOK
  <2> QED
    BY <2>1 DEF CopiesInv, Deleting
<1>3. ASSUME NEW p \in Programs, Quit(p) PROVE CopiesInv'
  <2>1. /\ UNCHANGED <<copies, canDelete, abandoned>> /\ pc[p] = "running"
        /\ pc' = [pc EXCEPT ![p] = "close"]
    BY <1>3 DEF Quit, At, history
  <2> QED
    BY <2>1, CopiesSame DEF Deleting
<1>4. ASSUME NEW p \in Programs, Kill(p) PROVE CopiesInv'
  <2>1. /\ UNCHANGED <<copies, canDelete>>
        /\ abandoned' = abandoned \union Pending(p)
        /\ pc' = [pc EXCEPT ![p] = "down"]
    BY <1>4 DEF Kill, program
  <2>2. pc[p] \in Deleting => Copy(p) \subseteq abandoned'
    BY <2>1 DEF Pending, Deleting
  <2> QED
    BY <2>1, <2>2, CopiesSame
<1>5. CASE Reboot
  <2>1. /\ UNCHANGED <<copies, canDelete>>
        /\ abandoned' = abandoned \union UNION {Pending(q) : q \in Programs}
    BY <1>5 DEF Reboot, program
  <2>2. \A q \in Programs : pc[q] \in Deleting /\ canDelete[q] => Temp[q] \in abandoned'
    BY <2>1 DEF Pending, Deleting, Copy
  <2> QED
    BY <2>1, <2>2 DEF CopiesInv
<1>6. CASE UNCHANGED vars
  BY <1>6 DEF vars, program, history, CopiesInv
<1> QED
  BY <1>1, <1>2, <1>3, <1>4, <1>5, <1>6 DEF Next

-----------------------------------------------------------------------------

LEMMA InterruptedRun ==
  ASSUME NEW p \in Programs, Run(p), interrupted
  PROVE  interrupted'
<1> USE DEF history
<1>1. CASE LoadIcons(p) \/ CopyFile(p) \/ OpenManager(p) \/ InstallDriver(p)
           \/ StartDriver(p) \/ DeleteCopy(p) \/ OpenDevice(p)
  BY <1>1 DEF LoadIcons, CopyFile, OpenManager, InstallDriver, StartDriver,
              DeleteCopy, OpenDevice
<1>2. CASE Window(p) \/ UnloadClose(p) \/ UnloadManager(p) \/ StopDriver(p)
           \/ RemoveDriver(p) \/ Release(p)
  BY <1>2 DEF Window, UnloadClose, UnloadManager, StopDriver, RemoveDriver,
              Release
<1> QED
  BY <1>1, <1>2 DEF Run

\* In whatever order the programs of all sessions come and go, and whatever
\* the system refuses them: when the last one is out a driver or a service is
\* there only after the manager refused an unloading or a program was killed,
\* and a copy only where its program was refused or killed before deleting it.
THEOREM NothingIsLeft == Spec => []AllDownClean
<1> DEFINE Loaded == DriverInv /\ ServiceInv
           Inv == /\ TypeOK /\ NoOrphanDriver /\ HandlesInv /\ CopiesInv
                  /\ ~interrupted => Loaded
<1>1. Init => Inv
  <2>1. Init => NoOrphanDriver /\ DriverInv /\ ServiceInv /\ CopiesInv
    BY DEF Init, NoOrphanDriver, DriverInv, ServiceInv, CopiesInv
  <2>2. Init => HandlesInv
    BY DEF Init, HandlesInv
  <2> QED
    BY <2>1, <2>2, TypeInit
<1>2. Inv /\ [Next]_vars => Inv'
  <2> SUFFICES ASSUME Inv, [Next]_vars PROVE Inv'
    OBVIOUS
  <2>1. TypeOK' /\ NoOrphanDriver' /\ HandlesInv' /\ CopiesInv'
    BY TypeStep, NoOrphanStep, HandlesStep, CopiesStep
  <2>2. interrupted /\ ~interrupted' =>
          Gone /\ \E p \in Programs : Launch(p)
    <3>1. ASSUME NEW p \in Programs, Run(p) PROVE interrupted => interrupted'
      BY <3>1, InterruptedRun
    <3>2. ASSUME NEW p \in Programs, Quit(p) \/ Kill(p)
          PROVE  interrupted => interrupted'
      BY <3>2 DEF Quit, Kill, history
    <3>3. ASSUME NEW p \in Programs, Launch(p)
          PROVE  interrupted /\ ~interrupted' => Gone
      BY <3>3 DEF Launch
    <3> QED
      BY <3>1, <3>2, <3>3 DEF Next, Reboot, vars, history
  <2>3. CASE ~interrupted
    BY <2>1, <2>3, DriverStep, ServiceStep
  <2>4. CASE interrupted /\ ~interrupted'
    <3>1. driver' = "unloaded" /\ service' = "absent"
      BY <2>2, <2>4 DEF Launch, Gone, scm
    <3> QED
      BY <2>1, <3>1 DEF DriverInv, ServiceInv
  <2> QED
    BY <2>1, <2>3, <2>4
<1>3. Inv => AllDownClean
  <2> SUFFICES ASSUME Inv, \A q \in Programs : pc[q] = "down"
               PROVE  (~interrupted => Gone) /\ copies \subseteq abandoned
    BY DEF AllDownClean
  <2>1. ~interrupted => driver = "unloaded"
    BY DEF TypeOK, DriverInv, HandlesInv, InUse, BeforeStop
  <2>2. ~interrupted => service = "absent"
    BY <2>1 DEF TypeOK, ServiceInv, HandlesInv, BeforeRemove, BeforeStop
  <2>3. copies \subseteq abandoned
    BY DEF CopiesInv, Deleting
  <2> QED
    BY <2>1, <2>2, <2>3 DEF Gone
<1> QED
  BY <1>1, <1>2, <1>3, PTL DEF Spec

-----------------------------------------------------------------------------
(* One session: the mutex keeps its programs apart, and each leaves through *)
(* UnloadDriver what an earlier one left, killed or not.                    *)

OneSession == \A p, q \in Programs : Session[p] = Session[q]

UnloadIsGranted ==
  MayFail \cap {"OpenSCManager", "ControlService", "DeleteService"} = {}

Alone == \A p, q \in Programs : pc[p] # "down" /\ pc[q] # "down" => p = q

\* With its only handle closed the driver is unloaded at once, and the
\* service is removed at once and never marked.
UndoneInv ==
  /\ driver # "unloading" /\ service # "marked"
  /\ \A p \in Programs : pc[p] = "remove" => driver = "unloaded"
  /\ CleanExit

LEMMA RunMoves ==
  ASSUME NEW p \in Programs, Run(p)
  PROVE  pc[p] # "down" /\ \E to : pc' = [pc EXCEPT ![p] = to]
<1>1. CASE LoadIcons(p) \/ CopyFile(p) \/ OpenManager(p) \/ InstallDriver(p)
           \/ StartDriver(p) \/ DeleteCopy(p) \/ OpenDevice(p)
  BY <1>1 DEF LoadIcons, CopyFile, OpenManager, InstallDriver, StartDriver,
              DeleteCopy, OpenDevice, At
<1>2. CASE Window(p) \/ UnloadClose(p) \/ UnloadManager(p) \/ StopDriver(p)
           \/ RemoveDriver(p) \/ Release(p)
  BY <1>2 DEF Window, UnloadClose, UnloadManager, StopDriver, RemoveDriver,
              Release, At
<1> QED
  BY <1>1, <1>2 DEF Run

LEMMA AloneStep == OneSession /\ TypeOK /\ Alone /\ [Next]_vars => Alone'
<1> SUFFICES ASSUME OneSession, TypeOK, Alone, [Next]_vars PROVE Alone'
  OBVIOUS
<1> USE DEF Alone, TypeOK
<1>1. ASSUME NEW p \in Programs, Run(p) PROVE Alone'
  BY <1>1, RunMoves
<1>2. ASSUME NEW p \in Programs, Launch(p) PROVE Alone'
  BY <1>2 DEF Launch, At, MutexFree, OneSession
<1>3. ASSUME NEW p \in Programs, Quit(p) \/ Kill(p) PROVE Alone'
  BY <1>3 DEF Quit, Kill, At
<1>4. CASE Reboot \/ UNCHANGED vars
  BY <1>4 DEF Reboot, vars
<1> QED
  BY <1>1, <1>2, <1>3, <1>4 DEF Next

\* A program that moves does so with all the others down.
LEMMA OthersDown ==
  ASSUME TypeOK, Alone, NEW p \in Programs, pc[p] # "down",
         NEW to, pc' = [pc EXCEPT ![p] = to]
  PROVE  /\ pc'[p] = to
         /\ \A q \in Programs \ {p} : pc[q] = "down" /\ pc'[q] = "down"
BY DEF TypeOK, Alone

LEMMA UndoneRun ==
  ASSUME UnloadIsGranted, TypeOK, NoOrphanDriver, Alone, HandlesInv, UndoneInv,
         NEW p \in Programs, Run(p)
  PROVE  UndoneInv'
<1>0. PICK to : pc' = [pc EXCEPT ![p] = to]
  BY RunMoves
<1>1. pc'[p] = to /\ \A q \in Programs \ {p} : pc[q] = "down" /\ pc'[q] = "down"
  BY <1>0, OthersDown, RunMoves
<1> USE DEF UndoneInv, CleanExit, Gone, At
<1>2. CASE LoadIcons(p) \/ CopyFile(p) \/ OpenManager(p) \/ InstallDriver(p)
           \/ DeleteCopy(p) \/ OpenDevice(p) \/ Window(p)
  <2>1. to \notin {"remove", "release"}
    BY <1>1, <1>2 DEF LoadIcons, CopyFile, OpenManager, InstallDriver,
                      DeleteCopy, OpenDevice, Window, TypeOK
  <2>2. driver' = driver /\ service' # "marked"
    BY <1>2 DEF LoadIcons, CopyFile, OpenManager, InstallDriver, DeleteCopy,
                OpenDevice, Window, scm
  <2> QED
    BY <1>1, <2>1, <2>2
<1>3. CASE StartDriver(p)
  <2>1. pc'[p] = "delete"
    BY <1>3 DEF StartDriver, TypeOK
  <2> QED
    BY <1>1, <1>3, <2>1 DEF StartDriver, DriverEntry, scm
<1>4. CASE UnloadClose(p)
  <2>1. pc'[p] = "manager2"
    BY <1>4 DEF UnloadClose, TypeOK
  <2> QED
    BY <1>1, <1>4, <2>1 DEF UnloadClose, CloseHandles, scm
<1>5. CASE UnloadManager(p)
  <2>1. pc'[p] = "stop"
    BY <1>5 DEF UnloadManager, TypeOK, UnloadIsGranted
  <2> QED
    BY <1>1, <1>5, <2>1 DEF UnloadManager, scm
<1>6. CASE StopDriver(p)
  <2>1. pc[p] = "stop" /\ pc'[p] = "remove"
    BY <1>6 DEF StopDriver, TypeOK
  <2>2. ~InUse(device)
    BY <1>1, <2>1 DEF InUse, HandlesInv
  <2>3. driver' = "unloaded" /\ service' # "marked"
    BY <1>6, <2>2 DEF StopDriver, Unload, UnloadIsGranted, NoOrphanDriver,
                      TypeOK, scm
  <2> QED
    BY <1>1, <2>1, <2>3
<1>7. CASE RemoveDriver(p)
  <2>1. driver = "unloaded"
    BY <1>7 DEF RemoveDriver
  <2>2. driver' = "unloaded" /\ service' = "absent"
    BY <1>7, <2>1 DEF RemoveDriver, DeleteService, UnloadIsGranted
  <2> QED
    BY <2>2
<1>8. CASE Release(p)
  <2>1. pc'[p] = "down"
    BY <1>8 DEF Release, TypeOK
  <2> QED
    BY <1>1, <1>8, <2>1 DEF Release, CloseHandles, scm
<1> QED
  BY <1>2, <1>3, <1>4, <1>5, <1>6, <1>7, <1>8 DEF Run

LEMMA UndoneStep ==
  ASSUME UnloadIsGranted, TypeOK, NoOrphanDriver, Alone, HandlesInv, UndoneInv,
         [Next]_vars
  PROVE  UndoneInv'
<1> USE DEF UndoneInv, CleanExit, Gone, TypeOK
<1>1. ASSUME NEW p \in Programs, Run(p) PROVE UndoneInv'
  BY <1>1, UndoneRun
<1>2. ASSUME NEW p \in Programs, Launch(p) \/ Quit(p) PROVE UndoneInv'
  BY <1>2 DEF Launch, Quit, At, scm
<1>3. ASSUME NEW p \in Programs, Kill(p) PROVE UndoneInv'
  BY <1>3 DEF Kill, CloseHandles, scm
<1>4. CASE Reboot
  BY <1>4 DEF Reboot, Unload
<1>5. CASE UNCHANGED vars
  BY <1>5 DEF vars, scm
<1> QED
  BY <1>1, <1>2, <1>3, <1>4, <1>5 DEF Next

SessionInv == TypeOK /\ NoOrphanDriver /\ Alone /\ HandlesInv /\ UndoneInv

LEMMA SessionKept ==
  ASSUME OneSession, UnloadIsGranted
  PROVE  Spec => []SessionInv
<1>1. Init => SessionInv
  <2>1. Init => TypeOK
    BY TypeInit
  <2>2. Init => NoOrphanDriver /\ Alone /\ HandlesInv /\ UndoneInv
    BY DEF Init, NoOrphanDriver, Alone, HandlesInv, UndoneInv, CleanExit, Gone
  <2> QED
    BY <2>1, <2>2 DEF SessionInv
<1>2. SessionInv /\ [Next]_vars => SessionInv'
  BY TypeStep, NoOrphanStep, AloneStep, HandlesStep, UndoneStep DEF SessionInv
<1> QED
  BY <1>1, <1>2, PTL DEF Spec

\* In one session, as long as the service control manager grants what
\* UnloadDriver asks: whoever has been through Exit leaves neither driver nor
\* service, whatever earlier programs left that were killed, and whatever of
\* its own LoadDriver failed.
THEOREM ExitIsClean ==
  ASSUME OneSession, UnloadIsGranted
  PROVE  Spec => []CleanExit
<1>1. SessionInv => CleanExit
  BY DEF SessionInv, UndoneInv
<1> QED
  BY <1>1, SessionKept, PTL

-----------------------------------------------------------------------------
(* One session of one user, in which only programs are killed and windows  *)
(* fail: every program that gets to its message loop has its driver.       *)

OneUser == \A p, q \in Programs : Temp[p] = Temp[q]

LoadIsGranted ==
  MayFail \cap {"GetTempPath", "CopyFile", "OpenSCManager", "CreateService",
                "StartService", "DriverEntry", "OpenDevice", "ControlService",
                "DeleteService"} = {}

\* What a program has at each place of LoadDriver and after it.
LoadedInv(p) ==
  /\ image \in {Installed, Temp[p]}
  /\ pc[p] \in {"manager", "install", "start"} => Temp[p] \in copies
  /\ pc[p] = "start" => service = "present"
  /\ pc[p] = "delete" => started[p]
  /\ pc[p] \in {"delete", "open"} => driver = "running"
  /\ pc[p] \in {"window", "running"} => initialized[p]
  /\ pc[p] \in {"close", "manager2", "stop", "remove"} => exiting[p]

LEMMA LoadedOthers ==
  ASSUME OneUser, TypeOK, NEW p \in Programs, NEW q \in Programs,
         pc'[q] = "down", LoadedInv(q),
         image' = image \/ image' \in {Installed, Temp[p]}
  PROVE  LoadedInv(q)'
BY DEF LoadedInv, OneUser

LEMMA LoadedRun ==
  ASSUME OneUser, LoadIsGranted, SessionInv, \A q \in Programs : LoadedInv(q),
         NEW p \in Programs, Run(p)
  PROVE  \A q \in Programs : LoadedInv(q)'
<1>0. PICK to : pc' = [pc EXCEPT ![p] = to]
  BY RunMoves
<1>1. pc'[p] = to /\ \A q \in Programs \ {p} : pc'[q] = "down"
  BY <1>0, OthersDown, RunMoves DEF SessionInv
<1>2. TypeOK
  BY DEF SessionInv
<1> USE DEF LoadedInv
<1>3. LoadedInv(p)' /\ (image' = image \/ image' \in {Installed, Temp[p]})
  <2> USE DEF At, TypeOK
  <2>1. CASE LoadIcons(p)
    BY <1>2, <2>1 DEF LoadIcons, scm
  <2>2. CASE CopyFile(p)
    BY <1>2, <2>2 DEF CopyFile, scm, LoadIsGranted
  <2>3. CASE OpenManager(p)
    BY <1>2, <2>3 DEF OpenManager, scm, LoadIsGranted
  <2>4. CASE InstallDriver(p)
    <3>1. service # "marked"
      BY DEF SessionInv, UndoneInv
    <3>2. pc[p] = "install" /\ pc'[p] = "start" /\ service' = "present"
      BY <1>2, <2>4, <3>1 DEF InstallDriver, scm, LoadIsGranted
    <3>3. image' \in {Installed, Temp[p]}
      BY <2>4 DEF InstallDriver, scm
    <3> QED
      BY <2>4, <3>2, <3>3 DEF InstallDriver
  <2>5. CASE StartDriver(p)
    <3>1. pc[p] = "start" /\ pc'[p] = "delete"
      BY <1>2, <2>5 DEF StartDriver
    <3>2. service = "present" /\ ImageExists /\ driver # "unloading"
      BY <3>1 DEF ImageExists, SessionInv, UndoneInv
    <3>3. driver' = "running"
      BY <1>2, <2>5, <3>2 DEF StartDriver, DriverEntry, LoadIsGranted
    <3>4. started'[p]
      BY <1>2, <2>5, <3>2, <3>3 DEF StartDriver, LoadIsGranted
    <3> QED
      BY <2>5, <3>1, <3>3, <3>4 DEF StartDriver, scm
  <2>6. CASE DeleteCopy(p)
    <3>1. pc[p] = "delete" /\ pc'[p] = "open"
      BY <1>2, <2>6 DEF DeleteCopy
    <3> QED
      BY <2>6, <3>1 DEF DeleteCopy, scm
  <2>7. CASE OpenDevice(p)
    <3>1. pc[p] = "open" /\ driver = "running"
      BY <2>7 DEF OpenDevice
    <3>2. pc'[p] = "window" /\ initialized'[p]
      BY <1>2, <2>7, <3>1 DEF OpenDevice, LoadIsGranted
    <3> QED
      BY <2>7, <3>2 DEF OpenDevice, scm
  <2>8. CASE Window(p)
    BY <1>2, <2>8 DEF Window, scm
  <2>9. CASE UnloadClose(p)
    BY <1>2, <2>9 DEF UnloadClose, CloseHandles, Unload, program, scm
  <2>10. CASE UnloadManager(p) \/ StopDriver(p)
    <3>1. pc[p] \in {"manager2", "stop"} /\ pc'[p] \in {"stop", "remove"}
      BY <1>2, <2>10 DEF UnloadManager, StopDriver, LoadIsGranted
    <3>2. exiting'[p] = exiting[p] /\ image' = image
      BY <2>10 DEF UnloadManager, StopDriver, Unload, program, scm
    <3> QED
      BY <3>1, <3>2
  <2>11. CASE RemoveDriver(p)
    <3>1. pc[p] = "remove" /\ pc'[p] = "release"
      BY <1>2, <2>11 DEF RemoveDriver, Back
    <3> QED
      BY <2>11, <3>1 DEF RemoveDriver
  <2>12. CASE Release(p)
    BY <1>2, <2>12 DEF Release, CloseHandles, Unload, scm
  <2> QED
    BY <2>1, <2>2, <2>3, <2>4, <2>5, <2>6, <2>7, <2>8, <2>9, <2>10, <2>11,
       <2>12 DEF Run
<1> QED
  BY <1>1, <1>2, <1>3, LoadedOthers

LEMMA LoadedStep ==
  ASSUME OneUser, LoadIsGranted, SessionInv, \A q \in Programs : LoadedInv(q),
         [Next]_vars
  PROVE  \A q \in Programs : LoadedInv(q)'
<1>0. TypeOK
  BY DEF SessionInv
<1>1. ASSUME NEW p \in Programs, Run(p)
      PROVE  \A q \in Programs : LoadedInv(q)'
  BY <1>1, LoadedRun
<1>2. ASSUME NEW p \in Programs, Launch(p) \/ Quit(p)
      PROVE  \A q \in Programs : LoadedInv(q)'
  BY <1>0, <1>2 DEF LoadedInv, Launch, Quit, At, TypeOK, scm
<1>3. CASE Reboot \/ \E p \in Programs : Kill(p)
  <2>1. image' = image /\ UNCHANGED program
    BY <1>3 DEF Kill, Reboot, CloseHandles, Unload, scm
  <2>2. \A q \in Programs : pc'[q] = "down"
    BY <1>0, <1>3 DEF Kill, Reboot, SessionInv, Alone, TypeOK
  <2> QED
    BY <2>1, <2>2 DEF LoadedInv
<1>4. CASE UNCHANGED vars
  BY <1>4 DEF LoadedInv, vars, program, scm
<1> QED
  BY <1>1, <1>2, <1>3, <1>4 DEF Next

\* In one session of one user, whose calls are granted: a program that is
\* started after others were killed, each at any point, comes to its message
\* loop with its driver, whichever of service, image and driver they left.
THEOREM RestartsWork ==
  ASSUME OneSession, OneUser, LoadIsGranted
  PROVE  Spec => []RestartWorks
<1> DEFINE Inv == SessionInv /\ \A p \in Programs : LoadedInv(p)
<1>1. UnloadIsGranted
  BY DEF UnloadIsGranted, LoadIsGranted
<1>2. Init => \A p \in Programs : LoadedInv(p)
  BY DEF Init, LoadedInv
<1>3. SessionInv /\ (\A p \in Programs : LoadedInv(p)) /\ [Next]_vars
        => (\A p \in Programs : LoadedInv(p))'
  BY LoadedStep
<1>4. (\A p \in Programs : LoadedInv(p)) => RestartWorks
  BY DEF LoadedInv, RestartWorks
<1> QED
  BY <1>1, <1>2, <1>3, <1>4, SessionKept, PTL DEF Spec

-----------------------------------------------------------------------------
(* How soon a program settles.                                             *)

\* UnloadDriver is called by Exit, or by a LoadDriver that failed: the program
\* then goes on to its window.
Caller(p) == IF exiting[p] THEN "Exit" ELSE "LoadDriver"

\* The steps a program may still take to its message loop or its end.
StepsFrom(p, caller) ==
  CASE p = "icons"    -> 17
    [] p = "copy"     -> 16
    [] p = "manager"  -> 15
    [] p = "install"  -> 14
    [] p = "start"    -> 13
    [] p = "delete"   -> 12
    [] p = "open"     -> 11
    [] p = "close"    -> IF caller = "Exit" THEN 5 ELSE 10
    [] p = "manager2" -> IF caller = "Exit" THEN 4 ELSE 9
    [] p = "stop"     -> IF caller = "Exit" THEN 3 ELSE 8
    [] p = "remove"   -> IF caller = "Exit" THEN 2 ELSE 7
    [] p = "window"   -> 6
    [] p = "release"  -> 1
    [] OTHER          -> 0

StepsLeft(p) == StepsFrom(pc[p], Caller(p))

\* The places a program stays at.
Settled == {"running", "down"}

\* Every step of a program leaves it fewer steps, and no step of another
\* program, and no refusal, gives it more before it has settled.
StepsDecrease ==
  [][\A p \in Programs :
       /\ Run(p) => StepsLeft(p)' < StepsLeft(p)
       /\ pc[p] \notin Settled => StepsLeft(p)' <= StepsLeft(p)]_vars

\* A program has at most seventeen steps before it, five when Exit begins, and
\* none exactly at the two places where it stays.
StepsBounded ==
  \A p \in Programs :
    /\ StepsLeft(p) \in 0 .. 17
    /\ pc[p] \in Settled <=> StepsLeft(p) = 0
    /\ pc[p] = "close" /\ exiting[p] => StepsLeft(p) = 5

LEMMA StepsFromPlaces ==
  \A b : /\ StepsFrom("icons", b) = 17
         /\ StepsFrom("copy", b) = 16
         /\ StepsFrom("manager", b) = 15
         /\ StepsFrom("install", b) = 14
         /\ StepsFrom("start", b) = 13
         /\ StepsFrom("delete", b) = 12
         /\ StepsFrom("open", b) = 11
         /\ StepsFrom("window", b) = 6
         /\ StepsFrom("release", b) = 1
         /\ StepsFrom("running", b) = 0
         /\ StepsFrom("down", b) = 0
BY DEF StepsFrom

LEMMA StepsFromUnload ==
  /\ StepsFrom("close", "Exit") = 5 /\ StepsFrom("close", "LoadDriver") = 10
  /\ StepsFrom("manager2", "Exit") = 4 /\ StepsFrom("manager2", "LoadDriver") = 9
  /\ StepsFrom("stop", "Exit") = 3 /\ StepsFrom("stop", "LoadDriver") = 8
  /\ StepsFrom("remove", "Exit") = 2 /\ StepsFrom("remove", "LoadDriver") = 7
BY DEF StepsFrom

LEMMA StepsFromType ==
  ASSUME NEW p \in ProgramStates, NEW b \in {"Exit", "LoadDriver"}
  PROVE  /\ StepsFrom(p, b) \in 0 .. 17
         /\ p \in Settled <=> StepsFrom(p, b) = 0
<1>1. CASE p \in {"close", "manager2", "stop", "remove"}
  <2>1. CASE b = "Exit"
    BY <1>1, <2>1, StepsFromUnload DEF Settled
  <2>2. CASE b = "LoadDriver"
    BY <1>1, <2>2, StepsFromUnload DEF Settled
  <2> QED
    BY <2>1, <2>2
<1>2. CASE p \notin {"close", "manager2", "stop", "remove"}
  BY <1>2, StepsFromPlaces DEF Settled, ProgramStates
<1> QED
  BY <1>1, <1>2

\* The ways a step can lead from p, where UnloadDriver leads back.
Leads(p, q, back) ==
  \/ p = "icons" /\ q = "copy"
  \/ p = "copy" /\ q \in {"manager", "window"}
  \/ p = "manager" /\ q \in {"install", "window"}
  \/ p = "install" /\ q \in {"start", "delete"}
  \/ p = "start" /\ q = "delete"
  \/ p = "delete" /\ q \in {"open", "window"}
  \/ p = "open" /\ q \in {"window", "close"}
  \/ p = "window" /\ q = "running"
  \/ p = "close" /\ q = "manager2"
  \/ p = "manager2" /\ q \in {"stop", back}
  \/ p = "stop" /\ q = "remove"
  \/ p = "remove" /\ q = back
  \/ p = "release" /\ q = "down"

LEMMA LeadsOnwards ==
  ASSUME NEW p, NEW q, NEW caller \in {"Exit", "LoadDriver"},
         Leads(p, q, IF caller = "Exit" THEN "release" ELSE "window")
  PROVE  /\ StepsFrom(q, caller) \in Nat
         /\ StepsFrom(q, caller) < StepsFrom(p, caller)
<1>1. CASE caller = "Exit"
  <2>1. Leads(p, q, "release")
    BY <1>1
  <2> QED
    BY <1>1, <2>1, StepsFromPlaces, StepsFromUnload DEF Leads
<1>2. CASE caller = "LoadDriver"
  <2>1. Leads(p, q, "window")
    BY <1>2
  <2> QED
    BY <1>2, <2>1, StepsFromPlaces, StepsFromUnload DEF Leads
<1> QED
  BY <1>1, <1>2

LEMMA RunLeads ==
  ASSUME TypeOK, NEW p \in Programs, Run(p)
  PROVE  \/ /\ pc[p] \in {"icons", "window"} /\ pc'[p] = "close"
            /\ exiting'[p] = TRUE
         \/ exiting'[p] = exiting[p] /\ Leads(pc[p], pc'[p], Back(p))
<1> USE DEF TypeOK, At, Leads
<1>1. CASE LoadIcons(p) \/ Window(p)
  BY <1>1 DEF LoadIcons, Window
<1>2. CASE CopyFile(p) \/ OpenManager(p)
  BY <1>2 DEF CopyFile, OpenManager, program
<1>3. CASE InstallDriver(p)
  BY <1>3 DEF InstallDriver, program
<1>4. CASE StartDriver(p) \/ DeleteCopy(p) \/ OpenDevice(p)
  BY <1>4 DEF StartDriver, DeleteCopy, OpenDevice, program
<1>5. CASE UnloadClose(p) \/ UnloadManager(p)
  BY <1>5 DEF UnloadClose, UnloadManager, program
<1>6. CASE StopDriver(p) \/ RemoveDriver(p) \/ Release(p)
  BY <1>6 DEF StopDriver, RemoveDriver, Release, program
<1> QED
  BY <1>1, <1>2, <1>3, <1>4, <1>5, <1>6 DEF Run

LEMMA RunDecreases ==
  ASSUME TypeOK, NEW p \in Programs, Run(p)
  PROVE  StepsLeft(p)' \in Nat /\ StepsLeft(p)' < StepsLeft(p)
<1> DEFINE there == StepsFrom(pc'[p], Caller(p)')
<1>1. exiting[p] = TRUE \/ exiting[p] = FALSE
  BY DEF TypeOK
<1>2. CASE /\ pc[p] \in {"icons", "window"} /\ pc'[p] = "close"
           /\ exiting'[p] = TRUE
  <2>1. there = 5
    BY <1>2, StepsFromUnload DEF Caller
  <2>2. StepsLeft(p) \in {17, 6}
    BY <1>2, StepsFromPlaces DEF StepsLeft
  <2>3. StepsLeft(p)' = there
    BY DEF StepsLeft, StepsFrom, Caller
  <2> QED
    BY <2>1, <2>2, <2>3
<1>3. CASE exiting'[p] = exiting[p] /\ Leads(pc[p], pc'[p], Back(p))
  <2>1. /\ Caller(p) \in {"Exit", "LoadDriver"} /\ Caller(p)' = Caller(p)
        /\ Back(p) = IF Caller(p) = "Exit" THEN "release" ELSE "window"
    BY <1>1, <1>3 DEF Caller, Back
  <2>2. /\ StepsFrom(pc'[p], Caller(p)) \in Nat
        /\ StepsFrom(pc'[p], Caller(p)) < StepsFrom(pc[p], Caller(p))
    BY <1>3, <2>1, LeadsOnwards
  <2>3. StepsLeft(p)' = StepsFrom(pc'[p], Caller(p))
    BY <2>1 DEF StepsLeft, StepsFrom
  <2> QED
    BY <2>2, <2>3 DEF StepsLeft
<1> QED
  BY <1>2, <1>3, RunLeads

\* What a step does to a program that does not take it.
LEMMA StepOfProgram ==
  ASSUME TypeOK, [Next]_vars, NEW p \in Programs, pc[p] \notin Settled
  PROVE  \/ Run(p)
         \/ pc'[p] = pc[p] /\ exiting'[p] = exiting[p]
         \/ pc'[p] = "down" /\ exiting'[p] = exiting[p]
<1> USE DEF TypeOK, Settled
<1>1. ASSUME NEW q \in Programs, Run(q), q # p
      PROVE  pc'[p] = pc[p] /\ exiting'[p] = exiting[p]
  <2> USE DEF At
  <2>1. CASE LoadIcons(q) \/ CopyFile(q) \/ OpenManager(q) \/ InstallDriver(q)
    BY <1>1, <2>1 DEF LoadIcons, CopyFile, OpenManager, InstallDriver, program
  <2>2. CASE StartDriver(q) \/ DeleteCopy(q) \/ OpenDevice(q) \/ Window(q)
    BY <1>1, <2>2 DEF StartDriver, DeleteCopy, OpenDevice, Window, program
  <2>3. CASE \/ UnloadClose(q) \/ UnloadManager(q) \/ StopDriver(q)
             \/ RemoveDriver(q) \/ Release(q)
    BY <1>1, <2>3 DEF UnloadClose, UnloadManager, StopDriver, RemoveDriver,
                      Release, program
  <2> QED
    BY <1>1, <2>1, <2>2, <2>3 DEF Run
<1>2. ASSUME NEW q \in Programs, Launch(q) \/ Quit(q)
      PROVE  pc'[p] = pc[p] /\ exiting'[p] = exiting[p]
  BY <1>2 DEF Launch, Quit, At
<1>3. ASSUME NEW q \in Programs, Kill(q)
      PROVE  pc'[p] \in {pc[p], "down"} /\ exiting'[p] = exiting[p]
  BY <1>3 DEF Kill, program
<1>4. CASE Reboot
  BY <1>4 DEF Reboot, program
<1>5. CASE UNCHANGED vars
  BY <1>5 DEF vars, program
<1> QED
  BY <1>1, <1>2, <1>3, <1>4, <1>5 DEF Next

\* Whatever fails and whatever the other programs do, every step of a program
\* brings it nearer to its message loop or its end and nobody sends it back:
\* at most seventeen steps from its start, and five from Exit, where the loop
\* is not reached any more.
THEOREM ProgramsSettle == Spec => []StepsBounded /\ StepsDecrease
<1> DEFINE Decrease ==
             \A p \in Programs :
               /\ Run(p) => StepsLeft(p)' < StepsLeft(p)
               /\ pc[p] \notin Settled => StepsLeft(p)' <= StepsLeft(p)
<1>1. TypeOK => StepsBounded
  BY StepsFromType, StepsFromUnload DEF TypeOK, StepsBounded, StepsLeft, Caller
<1>2. TypeOK /\ [Next]_vars => [Decrease]_vars
  <2> SUFFICES ASSUME TypeOK, [Next]_vars, NEW p \in Programs
               PROVE  /\ Run(p) => StepsLeft(p)' < StepsLeft(p)
                      /\ pc[p] \notin Settled =>
                           StepsLeft(p)' <= StepsLeft(p)
    OBVIOUS
  <2>1. StepsLeft(p) \in Nat
    BY <1>1 DEF StepsBounded
  <2>2. CASE Run(p)
    <3>1. StepsLeft(p)' \in Nat /\ StepsLeft(p)' < StepsLeft(p)
      BY <2>2, RunDecreases
    <3> QED
      BY <2>1, <3>1
  <2>3. CASE ~Run(p) /\ pc'[p] = pc[p] /\ exiting'[p] = exiting[p]
    <3>1. StepsLeft(p)' = StepsLeft(p)
      BY <2>3 DEF StepsLeft, StepsFrom, Caller
    <3> QED
      BY <2>1, <2>3, <3>1
  <2>4. CASE ~Run(p) /\ pc'[p] = "down"
    <3>1. StepsLeft(p)' = 0
      BY <2>4 DEF StepsLeft, StepsFrom, Caller
    <3> QED
      BY <2>1, <2>4, <3>1
  <2> QED
    BY <2>2, <2>3, <2>4, StepOfProgram
<1>3. StepsDecrease <=> [][Decrease]_vars
  BY DEF StepsDecrease
<1> HIDE DEF Decrease
<1> QED
  BY <1>1, <1>2, <1>3, TypeCorrect, PTL DEF Spec
=============================================================================
