------------------------------ MODULE NvidiaApi ------------------------------
(***************************************************************************)
(* helper_dll/nvidia.c: loading nvapi.dll and looking up its functions,    *)
(* and the enumeration of the GPUs, whose figures go into one record that  *)
(* is cleared before the first GPU only.  The tables of sensors are not    *)
(* initialized, and every place of them is looked at however many sensors  *)
(* the GPU filled in.                                                      *)
(***************************************************************************)
EXTENDS Integers, Sequences, FiniteSets

CONSTANTS
  GpuLists,    \* what EnumPhysicalGPUs may find: sequences of GPUs
  MaxSensors,  \* NVAPI_MAX_THERMAL_SENSORS_PER_GPU
  Leftovers,   \* targets that may be found in memory nobody wrote
  NvFails      \* what may fail: "LoadLibrary", "lookup", "Initialize", "Enum"

VARIABLES
  nvPlace,       \* the next step of the call, "idle" or "returned"
  nvLoads,       \* times the library is loaded
  nvDll,         \* hNvApiDll is not NULL
  nvPointers,    \* the function pointers that are not NULL
  nvInitialized, \* IsApiInitialized
  nvGpus,        \* the handles the enumeration got
  nvInfo,        \* GpuInfo
  nvSettings,    \* TempSettings1 and TempSettings2
  nvRows,        \* the records the callback was given
  nvAnswer       \* what the function returns

nvApi == <<nvLoads, nvDll, nvPointers, nvInitialized>>
nvEnum == <<nvGpus, nvInfo, nvSettings, nvRows>>
nvidia == <<nvPlace, nvApi, nvEnum, nvAnswer>>

\* The functions, in the order in which they are looked up.
Lookups ==
  <<"nvapi_QueryInterface", "Initialize", "GPU_GetFullName",
    "GetInterfaceVersionString", "GPU_GetThermalSettings",
    "EnumNvidiaDisplayHandle", "GetPhysicalGPUsFromDisplay",
    "EnumPhysicalGPUs", "GPU_GetTachReading", "GetDisplayDriverVersion">>

Functions == {Lookups[i] : i \in DOMAIN Lookups}

Targets == {"GPU", "MEMORY", "POWER_SUPPLY", "BOARD",
            "VCD_BOARD", "VCD_INLET", "VCD_OUTLET"}

\* A GPU's driver takes one version of the structure, 0 stands for none: both
\* are incompatible, and 3 for a call that fails otherwise.  The name "none"
\* and the fan "none" are calls that fail.
Gpus == [name : STRING, version : 0 .. 3,
         sensors : Seq([target : STRING, temp : STRING]), fan : STRING]

ASSUME GpuAssumption == MaxSensors \in Nat /\ GpuLists \subseteq Seq(Gpus)

\* The targets each version of the structure has a figure for.
TargetsOf(version) ==
  IF version = 1 THEN {"GPU", "MEMORY", "BOARD"} ELSE Targets

NoFigure == "0"
NoInfoYet == [name |-> "", temp |-> [t \in Targets |-> NoFigure],
              fan |-> NoFigure]

NvidiaInit ==
  /\ nvPlace = "idle" /\ nvLoads = 0
  /\ nvDll = FALSE /\ nvPointers = {} /\ nvInitialized = FALSE
  /\ nvGpus = <<>> /\ nvInfo = NoInfoYet /\ nvSettings = <<>>
  /\ nvRows = <<>> /\ nvAnswer = FALSE

NvReturn(answer) == nvPlace' = "returned" /\ nvAnswer' = answer

-----------------------------------------------------------------------------
(* InitNvidiaApi and FreeNvidiaApi. *)

\* What FreeNvidiaApi does; the pointer to nvapi_QueryInterface is left.
Free ==
  /\ nvLoads' = IF nvDll THEN nvLoads - 1 ELSE nvLoads
  /\ nvDll' = FALSE /\ nvInitialized' = FALSE
  /\ nvPointers' = nvPointers \intersect {"nvapi_QueryInterface"}

FreeNvidiaApi ==
  /\ nvPlace = "idle"
  /\ Free
  /\ UNCHANGED <<nvPlace, nvEnum, nvAnswer>>

InitNvidiaApi ==
  /\ nvPlace = "idle"
  /\ IF nvDll
     THEN NvReturn(TRUE) /\ UNCHANGED nvApi
     ELSE \/ /\ nvPlace' = Lookups[1]
             /\ nvDll' = TRUE /\ nvLoads' = nvLoads + 1
             /\ UNCHANGED <<nvPointers, nvInitialized, nvAnswer>>
          \/ "LoadLibrary" \in NvFails /\ NvReturn(FALSE) /\ Free
  /\ UNCHANGED nvEnum

\* One function after the other; one that is missing ends it.
LookUp ==
  /\ \E i \in DOMAIN Lookups :
       /\ nvPlace = Lookups[i]
       /\ \/ /\ nvPlace' = IF i < Len(Lookups) THEN Lookups[i + 1]
                           ELSE "call Initialize"
             /\ nvPointers' = nvPointers \union {Lookups[i]}
             /\ UNCHANGED <<nvLoads, nvDll, nvInitialized, nvAnswer>>
          \/ "lookup" \in NvFails /\ NvReturn(FALSE) /\ Free
  /\ UNCHANGED nvEnum

\* Mutant: the answer of NvAPI_Initialize does not undo the loading.
InitializeUndone ==
  /\ nvPlace = "call Initialize"
  /\ \/ /\ nvInitialized' = TRUE /\ NvReturn(TRUE)
        /\ UNCHANGED <<nvLoads, nvDll, nvPointers>>
     \/ "Initialize" \in NvFails /\ NvReturn(FALSE) /\ UNCHANGED nvApi
  /\ UNCHANGED nvEnum

Initialize ==
  /\ nvPlace = "call Initialize"
  /\ \/ /\ nvInitialized' = TRUE /\ NvReturn(TRUE)
        /\ UNCHANGED <<nvLoads, nvDll, nvPointers>>
     \/ "Initialize" \in NvFails /\ NvReturn(FALSE) /\ Free
  /\ UNCHANGED nvEnum

-----------------------------------------------------------------------------
(* EnumNvidiaGPUs. *)

Uncleared == [1 .. MaxSensors ->
                [target : Leftovers, temp : {"leftover"}]]

EnumNvidiaGPUs ==
  /\ nvPlace = "idle"
  /\ IF nvInitialized
     THEN /\ nvPlace' = "list"
          /\ nvInfo' = NoInfoYet
          /\ nvSettings' \in [1 .. 2 -> Uncleared]
          /\ UNCHANGED nvAnswer
     ELSE NvReturn(FALSE) /\ UNCHANGED <<nvInfo, nvSettings>>
  /\ UNCHANGED <<nvApi, nvGpus, nvRows>>

EnumPhysicalGPUs ==
  /\ nvPlace = "list"
  /\ \/ /\ \E gpus \in GpuLists :
             /\ nvGpus' = gpus
             /\ IF gpus = <<>> THEN NvReturn(FALSE)
                ELSE nvPlace' = "name" /\ UNCHANGED nvAnswer
     \/ "Enum" \in NvFails /\ NvReturn(FALSE) /\ UNCHANGED nvGpus
  /\ UNCHANGED <<nvApi, nvInfo, nvSettings, nvRows>>

Current == nvGpus[Len(nvRows) + 1]

NameShown(gpu) ==
  IF gpu.name = "none" THEN "Unknown NVIDIA GPU" ELSE gpu.name

GetFullName ==
  /\ nvPlace = "name"
  /\ nvInfo' = [nvInfo EXCEPT !.name = NameShown(Current)]
  /\ nvPlace' = "thermal 2"
  /\ UNCHANGED <<nvApi, nvGpus, nvSettings, nvRows, nvAnswer>>

\* The table after the GPU filled in its sensors.
Filled(settings) ==
  [i \in 1 .. MaxSensors |->
     IF i \in DOMAIN Current.sensors THEN Current.sensors[i] ELSE settings[i]]

\* The loop over the table: of two sensors with one target the later counts.
Last(table, target) ==
  CHOOSE i \in DOMAIN table :
    /\ table[i].target = target
    /\ \A j \in DOMAIN table : table[j].target = target => j <= i

WithSensors(old, table, targets) ==
  [t \in Targets |->
     IF t \in targets /\ \E i \in DOMAIN table : table[i].target = t
     THEN table[Last(table, t)].temp ELSE old[t]]

\* Mutant: version 1 was asked, the table of version 2 is read.
Thermal1Wrong ==
  /\ nvPlace = "thermal 1"
  /\ IF Current.version = 1
     THEN /\ nvSettings' = [nvSettings EXCEPT ![1] = Filled(@)]
          /\ nvInfo' = [nvInfo EXCEPT !.temp =
                          WithSensors(@, nvSettings'[2], TargetsOf(1))]
     ELSE UNCHANGED <<nvSettings, nvInfo>>
  /\ nvPlace' = "tach"
  /\ UNCHANGED <<nvApi, nvGpus, nvRows, nvAnswer>>

GetThermalSettings(version) ==
  IF Current.version = version
  THEN /\ nvSettings' = [nvSettings EXCEPT ![version] = Filled(@)]
       /\ nvInfo' = [nvInfo EXCEPT !.temp =
                       WithSensors(@, nvSettings'[version],
                                     TargetsOf(version))]
  ELSE UNCHANGED <<nvSettings, nvInfo>>

\* A driver that does not know the second version of the structure is asked
\* for the first; any other failure leaves the figures as they are.
Thermal2 ==
  /\ nvPlace = "thermal 2"
  /\ GetThermalSettings(2)
  /\ nvPlace' = IF Current.version \in {0, 1} THEN "thermal 1" ELSE "tach"
  /\ UNCHANGED <<nvApi, nvGpus, nvRows, nvAnswer>>

Thermal1 ==
  /\ nvPlace = "thermal 1"
  /\ GetThermalSettings(1)
  /\ nvPlace' = "tach"
  /\ UNCHANGED <<nvApi, nvGpus, nvRows, nvAnswer>>

GetTachReading ==
  /\ nvPlace = "tach"
  /\ nvInfo' = [nvInfo EXCEPT !.fan =
                  IF Current.fan = "none" THEN @ ELSE Current.fan]
  /\ nvPlace' = "callback"
  /\ UNCHANGED <<nvApi, nvGpus, nvSettings, nvRows, nvAnswer>>

\* lpEnumProc, and on to the next GPU.
Callback ==
  /\ nvPlace = "callback"
  /\ nvRows' = Append(nvRows, nvInfo)
  /\ IF Len(nvRows') < Len(nvGpus)
     THEN nvPlace' = "name" /\ UNCHANGED nvAnswer
     ELSE NvReturn(TRUE)
  /\ UNCHANGED <<nvApi, nvGpus, nvInfo, nvSettings>>

NvidiaReturn ==
  /\ nvPlace = "returned"
  /\ nvPlace' = "idle" /\ nvAnswer' = FALSE
  /\ nvGpus' = <<>> /\ nvInfo' = NoInfoYet /\ nvSettings' = <<>>
  /\ nvRows' = <<>>
  /\ UNCHANGED nvApi

-----------------------------------------------------------------------------
BeginNvidia == InitNvidiaApi \/ FreeNvidiaApi \/ EnumNvidiaGPUs

NvidiaStep ==
  \/ LookUp \/ Initialize
  \/ EnumPhysicalGPUs \/ GetFullName \/ Thermal2 \/ Thermal1
  \/ GetTachReading \/ Callback
  \/ NvidiaReturn

NvidiaNext == BeginNvidia \/ NvidiaStep

NvidiaSpec == NvidiaInit /\ [][NvidiaNext]_nvidia

-----------------------------------------------------------------------------
(* Correctness. *)

Initializing == nvPlace \in Functions \union {"call Initialize"}

\* Between calls, and while GPUs are enumerated: the library is loaded, and
\* loaded once, exactly when the interface is initialized, and then no
\* pointer is NULL; after a failure or FreeNvidiaApi it is not loaded and no
\* pointer into it is left but that of the query function, which is looked up
\* anew before it is used.
ApiIsAllOrNothing ==
  ~Initializing =>
    /\ nvDll = nvInitialized
    /\ nvLoads = IF nvDll THEN 1 ELSE 0
    /\ IF nvInitialized THEN nvPointers = Functions
       ELSE nvPointers \subseteq {"nvapi_QueryInterface"}

\* The answer for that GPU covers the whole table of sensors.
Full(gpu) == Len(gpu.sensors) = MaxSensors

\* Every GPU is shown once and in order, under its name; its fan speed is its
\* own if it gave one, and so are its temperatures if it filled the table,
\* whatever the GPUs before it answered or failed to answer.
FiguresAreOfThisGpu ==
  /\ nvPlace = "returned" /\ nvGpus # <<>> => Len(nvRows) = Len(nvGpus)
  /\ \A k \in DOMAIN nvRows :
       LET gpu == nvGpus[k]
       IN  /\ nvRows[k].name = NameShown(gpu)
           /\ gpu.fan # "none" => nvRows[k].fan = gpu.fan
           /\ gpu.version \in {1, 2} /\ Full(gpu) =>
                \A i \in DOMAIN gpu.sensors :
                  LET t == gpu.sensors[i].target
                  IN  t \in TargetsOf(gpu.version) =>
                        nvRows[k].temp[t] =
                          gpu.sensors[Last(gpu.sensors, t)].temp
=============================================================================
