----------------------------- MODULE MCDiskBench -----------------------------
(***************************************************************************)
(* DiskBench on small instances.  One or two test threads, two handle      *)
(* values, names and blocks in twos, and as many address ranges as let one *)
(* test finish and a later one run out of address space.                   *)
(***************************************************************************)
EXTENDS DiskBench

EveryTest == TestTypes \union {NoTest}

NoFailure == {}
CallsFail == {"GetDiskFreeSpaceEx", "DiskFull", "CreateFile",
              "GetVolumeInformation", "VirtualAlloc", "Reopen",
              "SetFilePointerEx", "ReadFile", "DeleteFile", "Kill"}
=============================================================================
