--------------------------- MODULE MCDriverService ---------------------------
(***************************************************************************)
(* DriverService on small instances: sessions, and what may go wrong.      *)
(***************************************************************************)
EXTENDS DriverService

OwnSession == [p \in Programs |-> p]
OwnTemp == [p \in Programs |-> p]
OneSession == [p \in Programs |-> "console"]
OneTemp == [p \in Programs |-> "temp"]

Everything == {"LoadIcons", "GetTempPath", "CopyFile", "OpenSCManager",
               "CreateService", "StartService", "DriverEntry", "DeleteFile",
               "OpenDevice", "CreateWindowEx", "ControlService",
               "DeleteService", "Kill", "Reboot"}
Killed == {"LoadIcons", "DeleteFile", "CreateWindowEx", "Kill", "Reboot"}
=============================================================================
