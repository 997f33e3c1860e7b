-------------------------------- MODULE Smart --------------------------------
(***************************************************************************)
(* S.M.A.R.T.: the requests of helper_dll/smart.c and, for a drive behind  *)
(* a SCSI bridge, of helper_dll/scsioverata.c.  A call opens the drive     *)
(* unless its caller gives it a handle, asks for the attributes, then for  *)
(* the thresholds, joins the two and hands row by row to a callback.       *)
(*                                                                         *)
(* The local SMART_DRIVE_INFO is not initialized: what its fields hold     *)
(* before the drive answered is a choice.                                  *)
(***************************************************************************)
EXTENDS Integers, Sequences

CONSTANTS
  Drives,     \* what drives answer: their model, attributes and thresholds
  Garbage,    \* Ids that may be found in memory nobody wrote
  SmartFails  \* the requests that may fail

\* The tables of a drive are bytes, and six of them for a raw value.
ASSUME DriveAssumption ==
  \A drive \in Drives :
    /\ drive.attributes \in Seq([id : 0 .. 255, value : 0 .. 255, raw : Nat])
    /\ drive.thresholds \in Seq([id : 0 .. 255, threshold : 0 .. 255])

SmartCalls ==
  {"EnumSmartData", "ScsiOverAtaEnumSmartData", "GetSmartTemperature",
   "GetSmartDiskGeometry"}

VARIABLES
  smPlace,    \* the next request of the call, "idle" or "returned"
  smCall,     \* the function, the drive, and whether a handle was given
  smHandle,   \* hHandle: "own", the caller's, or INVALID_HANDLE_VALUE
  smOpen,     \* the handles that are open
  smCaller,   \* the handle a caller keeps from OpenSmart, "none" without
  smInfo,     \* SMART_DRIVE_INFO: m_ucSmartValues and m_stSmartInfo
  smRows,     \* the rows the callback was given
  smAnswer    \* what the function returns

smart == <<smPlace, smCall, smHandle, smOpen, smCaller, smInfo, smRows,
           smAnswer>>

INVALID_HANDLE == "invalid"
NoDrive == [model |-> "none", attributes |-> <<>>, thresholds |-> <<>>]
NoSmartCall == [fn |-> "none", drive |-> NoDrive, given |-> FALSE]
NoInfo == [count |-> 0, slots |-> <<>>]

SmartInit ==
  /\ smPlace = "idle" /\ smCall = NoSmartCall
  /\ smHandle = INVALID_HANDLE
  /\ smOpen = {} /\ smCaller = "none"
  /\ smInfo = NoInfo /\ smRows = <<>> /\ smAnswer = 0

-----------------------------------------------------------------------------
(* The tables of names, and what a drive is taken for. *)

Names(vendor) ==
  CASE vendor = "generic" ->
         1 .. \h0D \union \hB7 .. \hC2 \union \hC4 .. \hD1 \union {\hD3, \hD4}
           \union \hDC .. \hE4 \union \hE6 .. \hE9 \union \hF0 .. \hF2
           \union {\hFA, \hFE}
    [] vendor = "intel" ->
         {1, 3, 4, 5, 9, \h0C, \hAA, \hAB, \hAC, \hAE, \hB8, \hBB, \hC0}
           \union \hE1 .. \hE4 \union {\hE8, \hE9, \hF1, \hF2, \hF9}
    [] vendor = "plextor" -> {9, \h0C}
    [] vendor = "sandforce" ->
         {5, 9, \h0C, \hAB, \hAC, \hAE, \hB1, \hB5, \hB6, \hC3, \hC4, \hE7,
          \hF1, \hF2}
    [] vendor = "indilinx" -> {\hB8} \union \hC3 .. \hD4

\* Only the table of any disk marks attributes as critical.
Critical(vendor) ==
  IF vendor = "generic" THEN {1, 5, \hC4, \hC5, \hC6, \hDC} ELSE {}

\* SMART_IDToText: the name, and whether it is critical.
SMART_IDToText(vendor, id) ==
  [name |-> IF id \in Names(vendor) THEN <<vendor, id>> ELSE <<"unknown">>,
   critical |-> id \in Critical(vendor)]

\* A model number is padded with spaces: "PLEXTOR" is compared with nine
\* characters, its terminator among them, and is never found.
Vendor(model, ids) ==
  IF {\hE1, \hE8, \hE9} \subseteq ids /\ model = "INTEL SSD" THEN "intel"
  ELSE IF \hAB \in ids THEN "sandforce"
  ELSE IF \hD1 \in ids THEN "indilinx"
  ELSE "generic"

-----------------------------------------------------------------------------
(* Opening and closing. *)

\* OpenSmart and CloseSmart, called by the program itself.
CallerOpens ==
  /\ smPlace = "idle" /\ smCaller = "none"
  /\ \/ smCaller' = "caller" /\ smOpen' = smOpen \union {"caller"}
     \/ /\ "CreateFile" \in SmartFails
        /\ smCaller' = INVALID_HANDLE /\ UNCHANGED smOpen
  /\ UNCHANGED <<smPlace, smCall, smHandle, smInfo, smRows, smAnswer>>

CallerCloses ==
  /\ smPlace = "idle" /\ smCaller # "none"
  /\ smOpen' = smOpen \ {smCaller}
  /\ smCaller' = "none"
  /\ UNCHANGED <<smPlace, smCall, smHandle, smInfo, smRows, smAnswer>>

CallSmart(fn, drive, given) ==
  /\ smPlace = "idle"
  /\ given => smCaller # "none" /\ fn # "GetSmartDiskGeometry"
  /\ smCall' = [fn |-> fn, drive |-> drive, given |-> given]
  /\ smPlace' = "open"
  /\ UNCHANGED <<smHandle, smOpen, smCaller, smInfo, smRows, smAnswer>>

First == CASE smCall.fn = "EnumSmartData" -> "version"
           [] smCall.fn = "GetSmartDiskGeometry" -> "geometry"
           [] OTHER -> "enable"

\* The slots of SMART_DRIVE_INFO, one for each attribute of the drive.
Uninitialized(id) ==
  [count |-> 0,
   slots |-> [i \in DOMAIN smCall.drive.attributes |->
                [value |-> 0, raw |-> 0, threshold |-> 0, bAttribId |-> id]]]

Open ==
  /\ smPlace = "open"
  /\ \E id \in Garbage : smInfo' = Uninitialized(id)
  /\ \/ /\ smCall.given
        /\ smHandle' = smCaller /\ smPlace' = First
        /\ UNCHANGED <<smOpen, smAnswer>>
     \/ /\ ~smCall.given
        /\ smHandle' = "own" /\ smOpen' = smOpen \union {"own"}
        /\ smPlace' = First
        /\ UNCHANGED smAnswer
     \/ /\ ~smCall.given /\ "CreateFile" \in SmartFails
        /\ smHandle' = INVALID_HANDLE
        /\ smPlace' = "returned" /\ smAnswer' = 0
        /\ UNCHANGED smOpen
  /\ UNCHANGED <<smCall, smCaller, smRows>>

\* Mutant: whatever handle was used is closed.
FinishClosing(answer) ==
  /\ smOpen' = smOpen \ {smHandle}
  /\ smPlace' = "returned" /\ smAnswer' = answer

\* Every way out closes the handle, unless it was given.
Finish(answer) ==
  /\ smOpen' = IF smCall.given THEN smOpen ELSE smOpen \ {smHandle}
  /\ smPlace' = "returned" /\ smAnswer' = answer

Fails(request) == request \in SmartFails \/ smHandle \notin smOpen

Failed(request) ==
  /\ Fails(request)
  /\ Finish(0)
  /\ UNCHANGED <<smCall, smHandle, smCaller, smInfo, smRows>>

Goes(next) ==
  /\ smHandle \in smOpen
  /\ smPlace' = next
  /\ UNCHANGED <<smCall, smHandle, smOpen, smCaller, smRows, smAnswer>>

-----------------------------------------------------------------------------
(* The requests. *)

GetSmartVersion ==
  /\ smPlace = "version"
  /\ \/ Goes("enable") /\ UNCHANGED smInfo
     \/ Failed("version")

EnableSmart ==
  /\ smPlace = "enable"
  /\ \/ Goes("attributes") /\ UNCHANGED smInfo
     \/ Failed("enable")

\* The table of the drive has empty slots, those with Id 0: what the loop has
\* kept of the first n slots.
Compacted(table) ==
  LET kept[n \in 0 .. Len(table)] ==
        IF n = 0 THEN <<>>
        ELSE IF table[n].id = 0 THEN kept[n - 1]
        ELSE Append(kept[n - 1], table[n])
  IN  kept

Used(table) == Compacted(table)[Len(table)]

MAXDWORD == "MAXDWORD"

\* Of the six bytes of a raw value all but two are cleared.
TwoBytes(raw) == raw % 65536

\* The attributes that are there, in the slots one after the other.
ReadSmartAttributes ==
  /\ smPlace = "attributes"
  /\ \/ /\ Goes("thresholds")
        /\ LET used == Used(smCall.drive.attributes)
           IN  smInfo' = [count |-> Len(used),
                          slots |-> [i \in DOMAIN smInfo.slots |->
                            IF i \notin DOMAIN used THEN smInfo.slots[i]
                            ELSE [smInfo.slots[i] EXCEPT
                                    !.value = used[i].value,
                                    !.raw = TwoBytes(used[i].raw),
                                    !.threshold = MAXDWORD]]]
     \/ Failed("attributes")

\* Mutant: empty slots are counted.
ReadThresholdsUncounted ==
  /\ smPlace = "thresholds"
  /\ \/ /\ Goes(IF smCall.fn = "GetSmartTemperature" THEN "find"
                ELSE "identify")
        /\ LET used == smCall.drive.thresholds
           IN  smInfo' = [smInfo EXCEPT !.slots =
                            [i \in DOMAIN smInfo.slots |->
                               IF i \notin DOMAIN used \/ used[i].id = 0
                               THEN smInfo.slots[i]
                               ELSE [smInfo.slots[i] EXCEPT
                                       !.threshold = used[i].threshold,
                                       !.bAttribId = used[i].id]]]
     \/ Failed("thresholds")

\* The thresholds that are there go to the slots by their place, and with
\* them the Id all that follows goes by.
ReadSmartThresholds ==
  /\ smPlace = "thresholds"
  /\ \/ /\ Goes(IF smCall.fn = "GetSmartTemperature" THEN "find"
                ELSE "identify")
        /\ LET used == Used(smCall.drive.thresholds)
           IN  smInfo' = [smInfo EXCEPT !.slots =
                            [i \in DOMAIN smInfo.slots |->
                               IF i \notin DOMAIN used THEN smInfo.slots[i]
                               ELSE [smInfo.slots[i] EXCEPT
                                       !.threshold = used[i].threshold,
                                       !.bAttribId = used[i].id]]]
     \/ Failed("thresholds")

ReadSmartInfo ==
  /\ smPlace = "identify"
  /\ \/ Goes("report") /\ UNCHANGED smInfo
     \/ Failed("identify")

Ids == {smInfo.slots[i].bAttribId : i \in 1 .. smInfo.count}

\* The type of the drive; a drive behind a bridge has none.
Type == IF smCall.fn = "EnumSmartData" THEN Vendor(smCall.drive.model, Ids)
        ELSE "generic"

Row(slot) ==
  LET text == SMART_IDToText(Type, slot.bAttribId)
  IN  [id |-> slot.bAttribId, raw |-> slot.raw, value |-> slot.value,
       threshold |-> slot.threshold, name |-> text.name,
       critical |-> text.critical]

\* The callback, for each slot in turn.
Report ==
  /\ smPlace = "report"
  /\ \/ /\ Len(smRows) < smInfo.count
        /\ smRows' = Append(smRows, Row(smInfo.slots[Len(smRows) + 1]))
        /\ UNCHANGED <<smPlace, smCall, smHandle, smOpen, smCaller, smInfo,
                       smAnswer>>
     \/ /\ Len(smRows) = smInfo.count
        /\ Finish(1)
        /\ UNCHANGED <<smCall, smHandle, smCaller, smInfo, smRows>>

Temperatures == {\hC2, \hE7}

Least(S) == CHOOSE i \in S : \A j \in S : i <= j

\* Mutant: the attribute of the drive's own temperature only.
FindC2 ==
  /\ smPlace = "find"
  /\ LET found == {i \in 1 .. smInfo.count : smInfo.slots[i].bAttribId = \hC2}
     IN  Finish(IF found = {} THEN 0 ELSE smInfo.slots[Least(found)].raw)
  /\ UNCHANGED <<smCall, smHandle, smCaller, smInfo, smRows>>

\* GetSmartTemperature: the first slot with one of the two Ids.
Find ==
  /\ smPlace = "find"
  /\ LET found == {i \in 1 .. smInfo.count :
                     smInfo.slots[i].bAttribId \in Temperatures}
     IN  Finish(IF found = {} THEN 0 ELSE smInfo.slots[Least(found)].raw)
  /\ UNCHANGED <<smCall, smHandle, smCaller, smInfo, smRows>>

\* GetSmartDiskGeometry: closed whether or not the request succeeded.
Geometry ==
  /\ smPlace = "geometry"
  /\ \E answer \in IF Fails("geometry") THEN {0, 1} ELSE {1} : Finish(answer)
  /\ UNCHANGED <<smCall, smHandle, smCaller, smInfo, smRows>>

SmartReturn ==
  /\ smPlace = "returned"
  /\ smPlace' = "idle" /\ smCall' = NoSmartCall
  /\ smHandle' = INVALID_HANDLE
  /\ smInfo' = NoInfo /\ smRows' = <<>> /\ smAnswer' = 0
  /\ UNCHANGED <<smOpen, smCaller>>

-----------------------------------------------------------------------------
BeginSmart ==
  \/ CallerOpens \/ CallerCloses
  \/ \E fn \in SmartCalls, drive \in Drives, given \in BOOLEAN :
       CallSmart(fn, drive, given)

SmartStep ==
  \/ Open \/ GetSmartVersion \/ EnableSmart \/ ReadSmartAttributes
  \/ ReadSmartThresholds \/ ReadSmartInfo \/ Report \/ Find \/ Geometry
  \/ SmartReturn

SmartNext == BeginSmart \/ SmartStep

SmartSpec == SmartInit /\ [][SmartNext]_smart

-----------------------------------------------------------------------------
(* Correctness. *)

\* A call leaves open what was open before it: the handle its caller gave
\* stays open, its own is closed, on every way out; and no request is made on
\* a handle that has been closed.
HandlesAreBalanced ==
  /\ smPlace \in {"idle", "returned"} =>
       smOpen = {smCaller} \ {"none", INVALID_HANDLE}
  /\ smPlace \notin {"idle", "open", "returned"} =>
       smHandle \in smOpen \/ smHandle = INVALID_HANDLE

\* The drive lists the thresholds of its attributes in the same order.
InOrder(drive) ==
  LET a == Used(drive.attributes)
      t == Used(drive.thresholds)
  IN  Len(a) = Len(t) /\ \A i \in DOMAIN a : a[i].id = t[i].id

\* An attribute of the drive, joined with a threshold.
Joined(a, t, vendor) ==
  [id |-> a.id, raw |-> TwoBytes(a.raw), value |-> a.value,
   threshold |-> t.threshold,
   name |-> SMART_IDToText(vendor, a.id).name,
   critical |-> SMART_IDToText(vendor, a.id).critical]

\* A table without its empty slots: every slot with an Id, once and in the
\* order of the table, and nothing else.
IsCompaction(table, kept) ==
  \E from \in [DOMAIN kept -> DOMAIN table] :
    /\ \A i, j \in DOMAIN kept : i < j => from[i] < from[j]
    /\ \A i \in DOMAIN kept :
         kept[i] = table[from[i]] /\ table[from[i]].id # 0
    /\ \A k \in DOMAIN table :
         table[k].id # 0 => \E i \in DOMAIN kept : from[i] = k

AskedFor(functions) == smPlace = "returned" /\ smCall.fn \in functions

\* What a drive is by the Ids it lists.
TypeOf(c) ==
  LET used == Used(c.drive.attributes)
  IN  IF c.fn = "EnumSmartData"
      THEN Vendor(c.drive.model, {used[i].id : i \in DOMAIN used})
      ELSE "generic"

\* Row i of a call: the values are those of attribute i of the drive, and when
\* the drive lists the thresholds in the order of the attributes so are the Id
\* and the name, and the threshold is one the drive lists for that Id.
IsRow(c, i, row) ==
  LET used   == Used(c.drive.attributes)
      listed == Used(c.drive.thresholds)
  IN  /\ row.raw = TwoBytes(used[i].raw) /\ row.value = used[i].value
      /\ InOrder(c.drive) =>
           \E j \in DOMAIN listed : /\ listed[j].id = used[i].id
                                   /\ row = Joined(used[i], listed[j], TypeOf(c))

\* The rows the callback is given are the attributes of the drive, in its
\* order and none left out.  No row is given unless all of the requests
\* succeed.
RowsAreTheDrives ==
  AskedFor({"EnumSmartData", "ScsiOverAtaEnumSmartData"}) =>
    LET used == Used(smCall.drive.attributes)
    IN  \/ smAnswer = 0 /\ smRows = <<>>
        \/ /\ smAnswer = 1
           /\ IsCompaction(smCall.drive.attributes, used)
           /\ Len(smRows) = Len(used)
           /\ \A i \in DOMAIN used : IsRow(smCall, i, smRows[i])

\* A call that got its tables answers with the raw value of the first of the
\* drive's attributes that holds a temperature, 0 without one.
TemperatureIsTheDrives ==
  [][smPlace = "find" /\ InOrder(smCall.drive) =>
       LET used  == Used(smCall.drive.attributes)
           found == {i \in DOMAIN used : used[i].id \in Temperatures}
       IN  smAnswer' = IF found = {} THEN 0
                       ELSE TwoBytes(used[Least(found)].raw)
    ]_smPlace
=============================================================================
