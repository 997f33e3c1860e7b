---------------------------- MODULE DriverService ----------------------------
(***************************************************************************)
(* The life of the kernel driver: wWinMain (aspia_exe/winmain.c) loads it  *)
(* when the program starts and unloads it on the way out; LoadDriver and   *)
(* UnloadDriver (helper_dll/helper_dll.c) do so through the service        *)
(* control manager and a copy of the image in the temporary directory;     *)
(* DriverEntry and DriverUnload (aspia_sys/aspia_drv.c) make and delete    *)
(* the device.                                                             *)
(*                                                                         *)
(* The mutex of wWinMain is one per logon session, so that programs of two *)
(* sessions run at once and share one service and one driver.  A program   *)
(* can be killed between any two of its calls.  Each call to Windows that  *)
(* another program can notice is a step; InstallDriver, StartDriver,       *)
(* StopDriver and RemoveDriver each open and close their own service       *)
(* handle and are one step.                                                *)
(***************************************************************************)
EXTENDS Integers, FiniteSets

CONSTANTS
  Programs,     \* processes of the program
  Session,      \* Session[p]: the logon session p is started in
  Temp,         \* Temp[p]: the temporary directory of its user
  MayFail       \* the system calls that may fail, and "Kill" and "Reboot"

Installed == "the program's own file"

Directories == {Temp[p] : p \in Programs}

ASSUME ProgramsAssumption ==
  /\ DOMAIN Session = Programs
  /\ DOMAIN Temp = Programs

VARIABLES
  \* each program: where it is, whether it is on its way out (and not just
  \* undoing a LoadDriver that failed), its image is the temporary copy,
  \* bStarted, hDriverFile is open, GlobalVars.IsDriverInitialized
  pc, exiting, canDelete, started, device, initialized,
  \* the temporary directories that hold a copy of the image
  copies,
  \* the service control manager: the service, and the image it names (a
  \* copy, or the file in the program's directory)
  service, image,
  \* the kernel: the driver
  driver,
  \* history: since a program was last launched with neither driver nor
  \* service there, the service control manager refused what UnloadDriver asks
  \* for, or a program was killed; the directories where a program that had
  \* made a copy did not delete it, because it was refused or killed
  interrupted, abandoned

program == <<exiting, canDelete, started, initialized>>
scm     == <<service, image>>
history == <<interrupted, abandoned>>
vars == <<pc, program, device, copies, scm, driver, history>>

Init ==
  /\ pc = [p \in Programs |-> "down"]
  /\ exiting = [p \in Programs |-> FALSE]
  /\ canDelete = [p \in Programs |-> FALSE]
  /\ started = [p \in Programs |-> FALSE]
  /\ device = [p \in Programs |-> FALSE]
  /\ initialized = [p \in Programs |-> FALSE]
  /\ copies = {}
  /\ service = "absent" /\ image = Installed
  /\ driver = "unloaded"
  /\ interrupted = FALSE /\ abandoned = {}

Gone == service = "absent" /\ driver = "unloaded"

At(p, from, to) == pc[p] = from /\ pc' = [pc EXCEPT ![p] = to]

-----------------------------------------------------------------------------
(* The service control manager and the kernel, as the code relies on them. *)

\* A driver asked to stop stays loaded, but cannot be opened, until the last
\* handle on its device is closed.  A service marked for deletion goes when
\* its driver is unloaded.
InUse(open) == \E p \in Programs : open[p]

Unload ==
  /\ driver' = "unloaded"
  /\ service' = IF service = "marked" THEN "absent" ELSE service
  /\ UNCHANGED image

CloseHandles(closing) ==
  /\ device' = [p \in Programs |-> device[p] /\ p \notin closing]
  /\ IF driver = "unloading" /\ ~InUse(device')
     THEN Unload
     ELSE UNCHANGED <<driver, scm>>

ImageExists == image = Installed \/ image \in copies

-----------------------------------------------------------------------------
(* wWinMain up to LoadDriver. *)

\* The mutex of the session: with it taken the new process ends at once.
MutexFree(p) == \A q \in Programs : Session[q] = Session[p] => pc[q] = "down"

Launch(p) ==
  /\ MutexFree(p)
  /\ At(p, "down", "icons")
  /\ exiting' = [exiting EXCEPT ![p] = FALSE]
  /\ canDelete' = [canDelete EXCEPT ![p] = FALSE]
  /\ started' = [started EXCEPT ![p] = FALSE]
  /\ initialized' = [initialized EXCEPT ![p] = FALSE]
  /\ interrupted' = (interrupted /\ ~Gone)
  /\ abandoned' = abandoned \cap copies
  /\ UNCHANGED <<device, copies, scm, driver>>

\* Without its icons the program goes to Exit, which unloads a driver this
\* program never loaded.
LoadIcons(p) ==
  /\ \/ /\ At(p, "icons", "copy")
        /\ UNCHANGED exiting
     \/ /\ "LoadIcons" \in MayFail
        /\ At(p, "icons", "close")
        /\ exiting' = [exiting EXCEPT ![p] = TRUE]
  /\ UNCHANGED <<canDelete, started, initialized, device, copies, scm, driver,
                 history>>

-----------------------------------------------------------------------------
(* LoadDriver. *)

CopyFile(p) ==
  /\ \/ /\ At(p, "copy", "manager")
        /\ copies' = copies \union {Temp[p]}
        /\ canDelete' = [canDelete EXCEPT ![p] = TRUE]
     \/ /\ "CopyFile" \in MayFail
        /\ At(p, "copy", "manager")
        /\ UNCHANGED <<copies, canDelete>>
     \/ /\ "GetTempPath" \in MayFail
        /\ At(p, "copy", "window")
        /\ UNCHANGED <<copies, canDelete>>
  /\ UNCHANGED <<exiting, started, initialized, device, scm, driver, history>>

\* The copy p has made and is to delete.
Copy(p) == {d \in {Temp[p]} : canDelete[p]}

\* A program that may not use the service control manager leaves its copy.
OpenManager(p) ==
  /\ \/ /\ At(p, "manager", "install")
        /\ UNCHANGED abandoned
     \/ /\ "OpenSCManager" \in MayFail
        /\ At(p, "manager", "window")
        /\ abandoned' = abandoned \union Copy(p)
  /\ UNCHANGED <<program, device, copies, scm, driver, interrupted>>

\* Mutant: the path of the installed image is never put together.
InstallUnnamed(p) ==
  /\ \/ /\ service = "absent"
        /\ At(p, "install", "start")
        /\ service' = "present"
        /\ image' = IF canDelete[p] THEN Temp[p] ELSE "unset"
     \/ /\ service = "present"
        /\ At(p, "install", "start")
        /\ UNCHANGED scm
     \/ /\ service = "marked" \/ "CreateService" \in MayFail
        /\ At(p, "install", "delete")
        /\ UNCHANGED scm
  /\ UNCHANGED <<program, device, copies, driver, history>>

\* An existing service is taken as it is, with the image it names.
InstallDriver(p) ==
  /\ \/ /\ service = "absent"
        /\ At(p, "install", "start")
        /\ service' = "present"
        /\ image' = IF canDelete[p] THEN Temp[p] ELSE Installed
     \/ /\ service = "present"
        /\ At(p, "install", "start")
        /\ UNCHANGED scm
     \/ /\ service = "marked" \/ "CreateService" \in MayFail
        /\ At(p, "install", "delete")
        /\ UNCHANGED scm
  /\ UNCHANGED <<program, device, copies, driver, history>>

\* DriverEntry makes the device and its link, or fails and leaves neither.
DriverEntry ==
  \/ driver' = "running"
  \/ "DriverEntry" \in MayFail /\ UNCHANGED driver

\* Mutant: a driver that runs already is taken for a failure.
StartDriverStrict(p) ==
  /\ At(p, "start", "delete")
  /\ \/ /\ IF service = "present" /\ driver = "unloaded" /\ ImageExists
           THEN DriverEntry
           ELSE UNCHANGED driver
        /\ started' = [started EXCEPT ![p] = driver # driver']
     \/ /\ "StartService" \in MayFail
        /\ UNCHANGED <<driver, started>>
  /\ UNCHANGED <<exiting, canDelete, initialized, device, copies, scm, history>>

\* A driver that runs already is as good as one that was started.
StartDriver(p) ==
  /\ At(p, "start", "delete")
  /\ \/ /\ IF service = "present" /\ driver = "unloaded" /\ ImageExists
           THEN DriverEntry
           ELSE UNCHANGED driver
        /\ started' = [started EXCEPT ![p] =
                         service # "absent" /\ driver' = "running"]
     \/ /\ "StartService" \in MayFail
        /\ UNCHANGED <<driver, started>>
  /\ UNCHANGED <<exiting, canDelete, initialized, device, copies, scm, history>>

\* Mutant: the copy is kept when the driver could not be started.
DeleteCopyIfStarted(p) ==
  /\ At(p, "delete", IF started[p] THEN "open" ELSE "window")
  /\ \/ /\ copies' = IF started[p] THEN copies \ Copy(p) ELSE copies
        /\ UNCHANGED abandoned
     \/ /\ "DeleteFile" \in MayFail
        /\ abandoned' = abandoned \union Copy(p)
        /\ UNCHANGED copies
  /\ UNCHANGED <<program, device, scm, driver, interrupted>>

\* The answer of DeleteFile is not looked at.
DeleteCopy(p) ==
  /\ At(p, "delete", IF started[p] THEN "open" ELSE "window")
  /\ \/ /\ copies' = copies \ Copy(p)
        /\ UNCHANGED abandoned
     \/ /\ "DeleteFile" \in MayFail
        /\ abandoned' = abandoned \union Copy(p)
        /\ UNCHANGED copies
  /\ UNCHANGED <<program, device, scm, driver, interrupted>>

\* Mutant: the handle is not looked at.
OpenDeviceUnchecked(p) ==
  /\ At(p, "open", "window")
  /\ device' = [device EXCEPT ![p] = driver = "running"]
  /\ initialized' = [initialized EXCEPT ![p] = TRUE]
  /\ UNCHANGED <<exiting, canDelete, started, copies, scm, driver, history>>

OpenDevice(p) ==
  /\ \/ /\ driver = "running"
        /\ At(p, "open", "window")
        /\ device' = [device EXCEPT ![p] = TRUE]
        /\ initialized' = [initialized EXCEPT ![p] = TRUE]
     \/ /\ driver # "running" \/ "OpenDevice" \in MayFail
        /\ At(p, "open", "close")
        /\ UNCHANGED <<device, initialized>>
  /\ UNCHANGED <<exiting, canDelete, started, copies, scm, driver, history>>

-----------------------------------------------------------------------------
(* The main window, and Exit. *)

\* The class and the window are made, or the program goes to Exit.
Window(p) ==
  /\ \/ /\ At(p, "window", "running")
        /\ UNCHANGED exiting
     \/ /\ "CreateWindowEx" \in MayFail
        /\ At(p, "window", "close")
        /\ exiting' = [exiting EXCEPT ![p] = TRUE]
  /\ UNCHANGED <<canDelete, started, initialized, device, copies, scm, driver,
                 history>>

Quit(p) ==
  /\ At(p, "running", "close")
  /\ exiting' = [exiting EXCEPT ![p] = TRUE]
  /\ UNCHANGED <<canDelete, started, initialized, device, copies, scm, driver,
                 history>>

\* UnloadDriver, from LoadDriver or from Exit: back to where it was called.
Back(p) == IF exiting[p] THEN "release" ELSE "window"

UnloadClose(p) ==
  /\ At(p, "close", "manager2")
  /\ CloseHandles({p})
  /\ UNCHANGED <<program, copies, history>>

\* Mutant: only a program that initialized the driver unloads it.
UnloadIfInitialized(p) ==
  /\ At(p, "manager2", IF initialized[p] THEN "stop" ELSE Back(p))
  /\ UNCHANGED <<program, device, copies, scm, driver, history>>

UnloadManager(p) ==
  /\ \/ /\ At(p, "manager2", "stop")
        /\ UNCHANGED interrupted
     \/ /\ "OpenSCManager" \in MayFail
        /\ At(p, "manager2", Back(p))
        /\ interrupted' = TRUE
  /\ UNCHANGED <<program, device, copies, scm, driver, abandoned>>

\* StopDriver: its answer is not looked at.
StopDriver(p) ==
  /\ At(p, "stop", "remove")
  /\ \/ /\ service # "absent" /\ driver = "running"
        /\ IF InUse(device)
           THEN driver' = "unloading" /\ UNCHANGED scm
           ELSE Unload
        /\ UNCHANGED interrupted
     \/ /\ service = "absent" \/ driver # "running"
        /\ UNCHANGED <<driver, scm, interrupted>>
     \/ /\ "ControlService" \in MayFail
        /\ interrupted' = TRUE
        /\ UNCHANGED <<driver, scm>>
  /\ UNCHANGED <<program, device, copies, abandoned>>

\* DeleteService, as the service control manager does it.
DeleteService ==
  service' = IF service = "absent" \/ driver = "unloaded" THEN "absent"
             ELSE "marked"

\* Mutant: the unloading is tried again until the service is gone.
RemoveDriverUntilGone(p) ==
  /\ \/ DeleteService /\ UNCHANGED interrupted
     \/ /\ "DeleteService" \in MayFail
        /\ interrupted' = TRUE
        /\ UNCHANGED service
  /\ At(p, "remove", IF service' = "marked" THEN "close" ELSE Back(p))
  /\ UNCHANGED <<program, device, copies, image, driver, abandoned>>

\* UnloadDriver ends, whether or not the service was deleted.
RemoveDriver(p) ==
  /\ At(p, "remove", Back(p))
  /\ \/ DeleteService /\ UNCHANGED interrupted
     \/ /\ "DeleteService" \in MayFail
        /\ interrupted' = TRUE
        /\ UNCHANGED service
  /\ UNCHANGED <<program, device, copies, image, driver, abandoned>>

\* CloseHandle(hMutex): the process ends.
Release(p) ==
  /\ At(p, "release", "down")
  /\ CloseHandles({p})
  /\ UNCHANGED <<program, copies, history>>

Run(p) ==
  \/ LoadIcons(p) \/ CopyFile(p) \/ OpenManager(p) \/ InstallDriver(p)
  \/ StartDriver(p) \/ DeleteCopy(p) \/ OpenDevice(p) \/ Window(p)
  \/ UnloadClose(p) \/ UnloadManager(p) \/ StopDriver(p) \/ RemoveDriver(p)
  \/ Release(p)

-----------------------------------------------------------------------------
(* A program is killed; the computer is started again. *)

\* The copy a program at this place would still delete.
Pending(p) ==
  IF pc[p] \in {"manager", "install", "start", "delete"} THEN Copy(p) ELSE {}

Kill(p) ==
  /\ "Kill" \in MayFail
  /\ pc[p] # "down"
  /\ pc' = [pc EXCEPT ![p] = "down"]
  /\ CloseHandles({p})
  /\ interrupted' = TRUE
  /\ abandoned' = abandoned \union Pending(p)
  /\ UNCHANGED <<program, copies>>

Reboot ==
  /\ "Reboot" \in MayFail
  /\ pc' = [p \in Programs |-> "down"]
  /\ device' = [p \in Programs |-> FALSE]
  /\ Unload
  /\ interrupted' = TRUE
  /\ abandoned' = abandoned \union UNION {Pending(p) : p \in Programs}
  /\ UNCHANGED <<program, copies>>

Next ==
  \/ \E p \in Programs : Launch(p) \/ Run(p) \/ Quit(p) \/ Kill(p)
  \/ Reboot

Spec == Init /\ [][Next]_vars

\* A program that runs goes on to its message loop, and through Exit once it
\* has been told to quit.
FairSpec == Spec /\ \A p \in Programs : WF_vars(Run(p))

-----------------------------------------------------------------------------
(* Correctness. *)

ProgramStates ==
  {"down", "icons", "copy", "manager", "install", "start", "delete", "open",
   "window", "running", "close", "manager2", "stop", "remove", "release"}

\* Every variable holds a value of its type.
TypeOK ==
  /\ pc \in [Programs -> ProgramStates]
  /\ exiting \in [Programs -> BOOLEAN]
  /\ canDelete \in [Programs -> BOOLEAN]
  /\ started \in [Programs -> BOOLEAN]
  /\ device \in [Programs -> BOOLEAN]
  /\ initialized \in [Programs -> BOOLEAN]
  /\ copies \subseteq Directories
  /\ service \in {"absent", "present", "marked"}
  /\ image \in Directories \union {Installed}
  /\ driver \in {"unloaded", "running", "unloading"}
  /\ interrupted \in BOOLEAN /\ abandoned \subseteq Directories

\* A program that believes its driver is initialized has an open device with
\* the driver behind it until it leaves, whatever the programs of other
\* sessions load and unload meanwhile.
DeviceUsable ==
  \A p \in Programs :
    pc[p] = "running" /\ initialized[p] => device[p] /\ driver # "unloaded"

\* When every program is down, what is there was left where the code could do
\* nothing about it.  A driver or a service: the service control manager
\* refused what an UnloadDriver asked for, or a program was killed, since both
\* were last gone.  A copy of the image: the program that made it was refused
\* the service control manager or the deletion, or was killed.
AllDownClean ==
  (\A p \in Programs : pc[p] = "down") =>
    /\ ~interrupted => Gone
    /\ copies \subseteq abandoned

\* In one session: a program that has been through UnloadDriver on its way
\* out leaves neither driver nor service, also when an earlier one was
\* killed and left both.
CleanExit ==
  \A p \in Programs :
    pc[p] = "release" => Gone

\* In one session of one user: a program that is started after another was
\* killed, at whatever point, still gets its driver.
RestartWorks ==
  \A p \in Programs : pc[p] = "running" => initialized[p]

\* A program that was started reaches its message loop or ends, and one that
\* quits ends.
Settles ==
  \A p \in Programs :
    /\ pc[p] = "icons" ~> pc[p] \in {"running", "down"}
    /\ pc[p] = "close" /\ exiting[p] ~> pc[p] = "down"
=============================================================================
