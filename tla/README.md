# Aspia: specifications, model checking and proofs

Aspia is a Windows program that shows what a computer is made of and measures
its disks. This directory holds TLA+ modules of the parts of it in which order
matters, the configurations TLC checks them with, and theorems TLAPS proves of
them. Paths below are relative to `src/`.

## The program

| Component | Source | State | Operations |
|---|---|---|---|
| Disk benchmark | `diskbench/diskbench.c` | process globals `hFileHandle`, `szFilePath`, `pData`, `IsTestCanceled`; the combo boxes; two timers | Start, Stop, WM_CLOSE on the dialog's thread; one test thread per Start (`TestThread`, `ReadDiskTest`, `WriteDiskTest`, `CreateFileForTest`) |
| Its statistics | `diskbench/diskbench.c` | `gOperationsCount`, the extremes of speed and CPU usage, `SecondsCount`, labels | `SecondsCounterProc` (timer, and once on the test thread), `CpuUsageUpdateProc`, Clear |
| Its graph | `diskbench/graph.c` | a ring of heights | add a point, draw |
| Start and exit | `aspia_exe/winmain.c` | the mutex, `GlobalVars` | `wWinMain`: mutex, icons, `LoadDriver`, windows, message loop, Exit |
| Driver service | `helper_dll/helper_dll.c` | `hDriverFile`, the service, the copy of the image | `LoadDriver`, `UnloadDriver`, install, start, stop, remove |
| Kernel driver | `aspia_sys/aspia_drv.c` | its device | `DriverEntry`, `DriverUnload`, dispatch |
| Kernel requests | `aspia_sys/ioctl_funct.c`, `helper_dll/helper_dll.c` | the affinity of the thread during a request; registers of the processors | MSR, PMC, SMBIOS, ports |
| PCI configuration | `helper_dll/spd.c`, `helper_dll/helper_dll.c`, `aspia_sys/ioctl_funct.c` | the registers of the devices, the latch behind CONFIG_ADDRESS | reads and writes of bytes, words and double words by ports or by the HAL; `EnumSmBusBaseAddress` |
| SMBus | `helper_dll/spd.c` | registers of the controller, the caller's buffer | `ReadSpdData` with one reader per chipset |
| SMART | `helper_dll/smart.c`, `scsioverata.c` | the handle of the drive, `SMART_DRIVE_INFO` | open, version, enable, attributes, thresholds, join, report, temperature |
| NVIDIA sensors | `helper_dll/nvidia.c` | `hNvApiDll`, the function pointers, `IsApiInitialized`; the record of a GPU | initialize, free, enumerate |
| SCSI and ATA devices | `helper_dll/scsi.c` | none of its own | device requests |
| Battery, debug log, helpers | `helper_dll/battery.c`, `debug.c`, `misc.c`, `aspia_exe/misc.c` | the log's handle | queries, formatting |
| Main window | `aspia_exe/winmain.c` | sizes, the splitter | layout, settings |

How they interact:

- The dialog's thread and the test threads share the globals of the benchmark
  and have no lock. The dialog sends no message to a test: it sets a flag,
  closes a handle and frees a buffer under it. A test sends messages to the
  dialog (combo boxes, labels) and waits until they are handled.
- `wWinMain` calls `LoadDriver` and `UnloadDriver`; these talk to the service
  control manager, which is shared by the programs of every logon session. The
  mutex `wWinMain` takes is local to one.
- `spd.c` reaches the ports, and through two of them the configuration space,
  by requests to the driver, one per access. Nothing keeps two callers apart.
- The functions of the helper library are called by one thread, one after the
  other; what a call leaves behind is there when the next one begins.

What is hard: threads that share globals; a flag that is set by one thread and
reset by another; calls that fail half-way through a test or a list of requests,
each with a cleanup of its own; handle values that Windows uses again; programs
that are killed with a driver loaded; a service that several sessions install
and remove between each other's calls; a controller that answers late, to a
reader that has given up; an access that takes two requests; records that are
not cleared; tables that are joined by position.

What makes each part correct:

- a test leaves no handle and no memory behind, on whatever path it ends, and
  no file but where the code gives it up or the system refuses to delete it; a
  test ends; Stop stops it, and only the test it was pressed for;
- the extremes bound what was measured, the labels show them, and a block is
  left out of the count only if it is moved while a sample is taken;
- programs that come and go leave no driver, no service and no copy, unless the
  system refuses them the removal or they are killed; a program
  that believes in its driver has it; a killed program does not keep the next
  one from it;
- who is given the contents of a memory module is given the contents of the one
  that was asked for;
- an access to configuration space reads and writes the bytes it names and no
  others; a search finds every controller and nothing else;
- a register is that of the processor asked for, and the thread goes back to
  where it ran; a table is whole or not given;
- what is shown of a drive or a GPU is what that drive or GPU said.

## The modules

| Module | What it is |
|---|---|
| `DiskBench` | the dialog, the test threads and the globals they share |
| `SpeedMeter` | the statistics of a test |
| `DriverService` | programs of several sessions, the service, the driver |
| `SpdContract` | what `ReadSpdData` promises its caller (abstract) |
| `SmBus` | the eight readers and the controller; refines `SpdContract` |
| `PortRequest` | a port access through the driver, as operators on bytes |
| `ConfigSpace` | what access to PCI configuration space promises (abstract) |
| `PciConfig` | the accesses request by request, and the search for controllers; refines `ConfigSpace`, uses `PortRequest` |
| `Ioctl` | requests for registers, tables and ports; uses `PortRequest` |
| `Smart` | the calls that ask a drive for its SMART tables |
| `NvidiaApi` | loading `nvapi.dll` and enumerating GPUs |
| `Library` | `Ioctl`, `Smart` and `NvidiaApi` as one thread calls them |
| `DiskBenchProofs` | theorems about any number of tests at once |
| `DiskBenchOneTest` | theorems about tests that do not overlap |
| `SpeedMeterProofs`, `DriverServiceProofs`, `SmBusProofs`, `PortRequestProofs`, `PciConfigProofs`, `LibraryProofs` | theorems about the module of that name |
| `MC...` | the values TLC gives the constants |

Names of variables and actions follow the source. An action stands for the code
between two accesses to shared state, or two calls into Windows that another
actor can notice. What is below the code (Windows, the kernel, the controller,
the modules, drives and GPUs) is modelled from how the code uses it, and marked
external in `PROJECT.json`.

### DiskBench

`pc[t]` is the place of test thread `t` in `diskbench.c`: *begin* and *enable*
are `TestThread`; *name* and *lookup* are `CreateFilePathForReadingTest`;
*create* to *faildelete* are `CreateFileForTest` with its Cleanup label;
*reopen* to *delete* are `ReadDiskTest` and `WriteDiskTest`, which differ in
where the flag is reset, how the file is opened again, and what is cleaned up
after an allocation that failed. `ui` is the dialog: open, in one of the calls
of WM_CLOSE, ended (the dialog is destroyed, the process lives until `wWinMain`
returns), exited, faulted.

Windows is a handle table (`path`, `sole`) with the sharing the code asks for,
the names on the drive (`files`), and the state of each address range (`mem`):
*megabyte* and *block* are committed in the two sizes the code allocates,
*reserved* is what MEM_DECOMMIT leaves. A handle value is free to be used again
once it is closed. *message* is the message box of a drive that is full, where
the test waits for the user. `stopped`, `late` and `kept` are history: whether
Stop was pressed during this test, and at a place where the test does not
overlook it (`Overlooks`); how many blocks it moved since; the files that were
given up by the code (`LeaveFile`), that the system refused to delete, or that
a process left when it ended.

A transfer is one of four actions: a block of a random or of a sequential test
is moved (`RandomBlock`, `SequentialBlock`), the offset of a random test is
refused (`SeekRefused`: the file is opened without buffering and takes whole
sectors only), or a sequential test ends at an error (`SequentialError`).

### SpeedMeter

The two callers of `SecondsCounterProc` are the dialog (timer) and the test
thread (one last sample). `at[c]` is the caller's place in it. `++` is a read
and a write. A label set on the test thread waits for the dialog's thread.
`unread`, `samples`, `overlapped` and `cleared` are history; `unread` counts the
blocks moved since a sample last read the counter, those apart that are moved
while a sample is between its read and its `= 0` (`Sampling`).

### DriverService

`pc[p]` is the place of program `p` in `wWinMain`, `LoadDriver` and
`UnloadDriver`; the latter is called from the error path of the former and from
Exit (`exiting`). The service is absent, present, or marked for deletion; it
names an image, which may be a copy that is gone. The driver is unloaded,
running, or unloading, which lasts until its last handle is closed. `Kill` ends
a program anywhere, `Reboot` ends all of them and the driver. `interrupted` and
`abandoned` are history: since driver and service were last gone when a program
was launched, the manager refused what `UnloadDriver` asks for, or a program was
killed; the directories whose copy of the image was left by a program that was
refused the manager or the deletion, or was killed before it.

### SmBus and SpdContract

`pc[r]` is the place of reader `r` in its loop: clear the controller, write
slot, index and start, poll, read the byte. What the eight readers do
differently is in the operators `Clear`, `NoModule` and `Done`, by chip; a
register is the set of its bits. `Complete` is the controller's step. `bus`
says what answers the ports: the controller, nothing (all bits one), or no
driver (all bits zero, since the request fails on a zeroed result). Two things
about SiS are assumed of the hardware and not in the source: the status register
its readers poll shows whether a transaction is under way, as the others' do,
and the register ReadSIS968SmBus takes the byte from (`spd.c:497`, at 0x10) is
the data register of that controller, as 0x08 is for ReadSIS962SmBus (445).

`SpdContract` has callers, questions and answers only. `SmBus` implements it
under the mapping *asked = Slot*, *answer = result*, *given = the buffer of a
reader that returned TRUE*.

### PortRequest, PciConfig and ConfigSpace

`PortRequest` says what reaches the caller of the six port functions of
`helper_dll.c` through the one buffer of a METHOD_BUFFERED request: the port
number, the bytes the instruction put over it, and how many are copied back.
Words and double words are the sequences of their bytes.

`PciConfig` has callers of several programs. `pc[c]` is the next request of the
call: *address* writes CONFIG_ADDRESS, *data* reads CONFIG_DATA, *write* writes
it; *request* is an access through the HAL, which is one request of the driver
and may leave the latch at a register of its own. `EnumSmBusBaseAddress` is a
`cursor` through its three loops, with an access for each identity, class and
offset; `found` holds what its callback was given. `disturbed` is history:
another caller's request came between those of the call.

`ConfigSpace` has bytes instead of double words and one step for each call.
`PciConfig` implements it with *bytes = the registers taken apart* and *served =
returned*: an undisturbed call answers and writes exactly what `Right` and
`Written` name, among them the oddities of the code (a word across two double
words loses its upper byte, a word at an odd offset is not written). A
call that answers FALSE has written nothing: a device that is not there, an
offset that is not aligned, no memory, or `HalSetBusDataByOffset` refused (which
is taken to write all of its bytes or none). A disturbed call may answer
anything and may spoil one double word.

### Ioctl, Smart, NvidiaApi and Library

Each of the three has a place (`place`, `smPlace`, `nvPlace`), *idle* between
calls; `Library` lets a call begin when all three are idle.

- `Ioctl`: `IOCTL_Init` chooses which affinity routines the kernel has. A
  request for a register is refused for its length or for a processor that is
  not there (`Refuse`), else the thread is bound, the instruction is executed or
  faults, the affinity is restored. `GetSmbiosData` asks for the entry, allocates,
  and asks again; each request may come back short. `system` is the affinity
  the kernel gave the thread, `pages` the memory held.
- `Smart`: four functions, with a handle of their own or one from `OpenSmart`,
  the requests in their order with a failure after each, `SMART_DRIVE_INFO`
  with whatever was on the stack, the compaction of the attribute table and of
  the threshold table (a recursive function over the slots), their join by
  position, the type of the drive from the Ids, a row at a time to the callback.
- `NvidiaApi`: loading, each function looked up in order, Initialize, each of
  which may fail; then for each GPU name, temperatures by the second and, where
  the driver does not know it, the first version of the structure, fan,
  callback. `nvInfo` is the one record of all GPUs, `nvSettings` the two tables.

## What the runs show

| Run | Question | Bounds | States |
|---|---|---|---|
| `DiskBench_one` | What does a test leave behind, what does Stop do, does every test end? | one test at a time, 2 handles, 3 address ranges, 2 names, 2 fill blocks, 2 blocks; every call may fail, the process may be killed | 755,860 |
| `DiskBench_two` | Do two tests that share the handle and the buffer end after Stop? | two tests at once, 2 handles, 2 address ranges, 1 name, 1 block | 1,019,357 |
| `DiskBench_FillsWholeFile` | Does a write test fill its file unless Stop was pressed after Start? *No* | as `one` | - |
| `SpeedMeter` | Do extremes and labels agree with the samples? Which blocks are lost? | 2 tests of 2 blocks, 3 samples, CPU usage 0 to 2, a product modulo 2 | 1,380,664 |
| `DriverService_killed` | Can a program load and remove the driver after another was killed? | 2 programs of one session and one user; kills, reboots, a copy that cannot be deleted | 1,725 |
| `DriverService_refused` | Is a device ever without its driver? What is left behind, and by whom? Does every program settle? | 2 programs of 2 sessions; every call may be refused, kills, reboots | 475,445 |
| `SmBus_late` | Does a reader keep the contract when the controller is late? | 1 reader, every chip but VIA's, 2 bytes, 3 slots (plain, with the byte 0x95, empty), 2 attempts; late answers, errors, kills, no controller, no driver | 14,205 |
| `SmBus_prompt` | Is a module that is there read, and the contract kept, VIA's reader included? | 1 reader, the 7 chips whose reader can succeed, 3 attempts, nothing goes wrong | 1,563 |
| `SmBus_PresentIsRead` | The same on an nForce CK804. *No* | as `prompt` | - |
| `Library` | What does a call answer, and what does it leave to the next, when every request may fail? | 3 processors of 4 numbers, 6 indexes, 2 registers of 2 values, SMBIOS tables of 0 and 5 bytes; 8 drives; 8 lists of up to 3 GPUs with 2 sensors | 5,058,048 |
| `Library_MissingCpuFails` | Is a request for a processor that is not there refused? *No* | as `Library`, registers only | - |
| `PciConfig` | Do the accesses implement `ConfigSpace`? Does a search find the controllers? | 2 programs, 12 kinds of call, one makes 1 and the other 2; 4 slots with 3 devices of 4 registers; no memory, a write refused by the HAL | 666,709 |

Why the bounds are enough. Two handle values let a value be used again while
another is open; three address ranges let one test finish (each uses two, and
none comes back) and the next run out between its two allocations. Two names
and two blocks take each loop through its first, an inner and its last round.
Two address ranges with two tests let one test get to its transfer while the
other fails. Two programs of two sessions undo each other's work at every
point, and with kills and reboots either may find what the other left. Two bytes
of a module let a byte be the first, the last, and taken for the other; two
attempts let a reader look, look again and give up. The processors have a number
that is missing and indexes beyond the width of the mask. The drives have empty
slots in either table, thresholds in another order, fewer of them than
attributes, and each type; the GPUs take each version of the structure or none,
fill the table or do not, and fail each call. The bus has a controller whose
address is at the fourth and one whose address is at the sixth of the ten
offsets, a known chip of another class and an empty slot; two searches at once set the
latch in no other way than an access and a search. What holds of safety is, but
for what is listed below, proved for every value of the bounds.

The three runs that end in a violation show the code at odds with what it says:

- **A write test meets an old Stop.** Only a read test resets `IsTestCanceled`
  before the fill (`diskbench.c:622`); a write test resets it after
  (`diskbench.c:809`). A write test started after a Stop gives up in the fill,
  and so does each one after it, until a read test is begun. The trace presses
  Stop with no test running, then Start, and no Stop after. The comment at
  `diskbench.c:433` says that a file of the size asked for is written.
- **nForce CK804 modules are never read.** `ReadNVCK804SmBus` compares the
  status with `SPD_MAX_SIZE`, 0x95, where its twin for the AMD-8111 compares it
  with 0x80.
- **A processor that is not there answers.** The handlers say that a request
  for a processor that is not available returns STATUS_UNSUCCESSFUL
  (`ioctl_funct.c:38`, 175, 261), and test the mask `1 << CpuIndex`, which the
  processor shifts by the index modulo the width of the mask. In the trace
  ReadMsr for processor 5 of masks of 4 bits gives a register of processor 1.

Each invariant that is stated for one test at a time, or one session, is so
because the code does not keep it otherwise: of two tests the second overwrites
the handle and the buffer of the first, and the first to end kills the timers
of both; of two users the second may have lost the image its service names.

### Properties that depend on what is assumed

- `TestEnds` is stated for an open dialog. It leaves out a message box the user
  never closes (`diskbench.c:360`), and assumes for a random test that draws
  offsets again and again that one is a whole number of sectors again and again
  (see Fairness): the offset is drawn by `xor128` modulo the bytes of the file,
  the file is open without buffering (605, 746), so `SetFilePointerEx` refuses
  most of them and the loop draws another without counting a block (699-708).
- `FileRemoved` keeps in `kept` what may be there: the file of a read test
  without a buffer (666) and of a write test that cannot open its file again
  (794), which the code gives up, a file the system refused to delete, and those
  of a process that ended under its test. Any other file left is a violation.
- `StopIsPrompt` counts from a Stop that is not overlooked. Before its reset a
  read test forgets a Stop, which may have been pressed between Start and that;
  a write test forgets one pressed after the last look of its fill loop (436)
  and before it arms (809).
- `AllDownClean` names what may be there when all programs are down: a driver or
  a service if since both were last gone the manager refused an unloading (to be
  opened, to stop the driver, to delete the service) or a program was killed or
  the computer started again; a copy of the image in a directory whose program
  was refused the manager, could not delete the copy (`helper_dll.c:197` does
  not look at the answer), or was killed before it could.
- `KeepsContract` with a late controller excludes VIA's: its reader waits for
  the reservation bit only, not for the end of the transaction under way, and
  can be given a byte an earlier reader asked for. Its answers are shifted by
  `quaere` if a byte is 0x95; the contract says so, since callers do get that.
- `ExtremesBoundSamples` and `MaximumIsShown` are stated for samples that did
  not meet inside `SecondsCounterProc`, `CpuInOrder` for a warm-up that was not
  begun again. Without these conditions they do not hold. Nor does it hold that
  a sample always resets the counter: a `++` around the timer's `= 0` writes
  back what it read before, and these blocks are counted twice; or that every
  block is counted: those moved while a sample is between its read (487) and
  its `= 0` (526) are lost. `OnlySamplingLosesBlocks` says that no others are.
- `KeepsConfigSpace` only bounds what a disturbed call does; that none is
  disturbed is not so, since nothing keeps two programs apart.
- `AffinityKept` allows a thread free to run on all processors on kernels
  without the Ex routines: the handler cannot know what to restore.
- `OfTheCpuAsked` and `OnlyWritesWrite` speak of numbers a mask has a bit for;
  of others `Library_MissingCpuFails` shows what becomes. Every `ReadPmc` is
  refused: it passes 4 bytes where its handler demands 8.
- The thresholds and Ids in `RowsAreTheDrives`, and `TemperatureIsTheDrives`,
  are stated for drives that list thresholds in the order of the attributes; a
  row's threshold is then one the drive lists for the attribute's Id. For other
  drives the rows have the wrong thresholds, Ids and names; their values are
  right.
- `FiguresAreOfThisGpu` speaks of GPUs that fill the table of sensors, and of
  figures a GPU gave. For others what is shown may be an earlier GPU's, or
  what was in memory.

### Fairness

- `DiskBench!FairSpec`: weak fairness of each test thread, for Windows runs a
  ready thread; weak fairness of the dialog's handler once WM_CLOSE was
  received, and of the return of `wWinMain` after it. No fairness of the user,
  who need not press a button, nor close the message box a test waits in.
- `DiskBench!FairDrawSpec`, for `TestEnds`, adds strong fairness of
  `RandomBlock`: a random test that draws offsets for ever draws one the file
  pointer can be moved to, again and again. `xor128` (`diskbench.c:588-599`) goes
  through all its states before it repeats one, so that every remainder comes
  up, whole sectors among them. `StopDrains` does not need it.
- `DriverService!FairSpec`: weak fairness of each program's own steps; none of
  the user's quitting, kills or reboots.
- `SmBus!FairSpec`: weak fairness of each reader; none of the controller, which
  may hang. `PromptSpec` adds weak fairness of the controller.

`Library` and `PciConfig` have no liveness property: a call is a list of
requests without a loop that waits. Deadlock is checked in every run but
`PciConfig`, where callers stop after `MaxCalls` calls.

## What is proved

All theorems hold for every value of the constants that satisfies the named
assumptions of the module.

`DiskBenchProofs`
- `TypeCorrect`: `Spec => []TypeOK`. `TypeOK` is not inductive: `NextName` needs
  the loop counter to be below `NameLimit` there; `TypeInv` adds that
  (`NameBound`), and that no file is opened before a name was chosen
  (`NameChosen`).
- `StoppedTestsEnd`: while Stop stays in force each step of a test leaves it
  fewer steps and nobody gives it more, at most 2 * `NameLimit` + 19 in all, for
  any number of tests. Stop does not end the search for a name, which is where
  the limit on names comes in.

`DiskBenchOneTest`, all under `OneTest` (there is at most one test thread):
- `TestsHoldNothing` and `TestFilesAreRemoved` from `CleanInv`:
  the only open handle is in `hFileHandle` and only at the places where a test
  has its file open (`HandleInv`); the only committed memory is at `pData`
  and only where a test uses it (`MemoryInv`); a file that is not in `kept` is
  at `szFilePath`, and a test has yet to delete it (`FileInv`). The invariants the runs check speak of idle threads; the
  strengthening says what each place of the test holds, whatever WM_CLOSE has
  taken away under it.
- `TestsStop` and `StopsAreFresh` from `StopInv`: where a Stop was in time the flag
  is set until the test ends; where the flag is set, in a read test after
  *reset* and in the transfer loop of any, Stop was in time; and `late` is 0
  wherever a block is under way.
- `TimersRunWithTheTest` from an invariant on where timers are set.
- `TestsLeftAloneEnd`: while the dialog is open every step of a test leaves it
  fewer steps, of which there are at most
  2 * (`NameLimit` + `FillCount` + `BlockCount`) + 17, but for an offset that
  is refused, which costs the two steps of another draw. `CountInv` keeps each
  loop counter within its loop, `OpenInv` says that the test that transfers has
  its file open: with a closed one every offset would be refused.

`SpeedMeterProofs`
- `TypeCorrect`, inductive with "a block that is counted is one of those left".
- `OnlySamplingLoses` from `CountInv`: neither the counter nor what the test
  thread read of it is behind the blocks moved since a sample read the counter,
  and a sample on its way to `= 0` has nothing to lose but what is moved
  meanwhile.
- `SamplesAreBounded` from `MeterInv`: while samples have not met, one caller at
  most is inside (`AloneInv`), and `SampleInv` says place by place which samples
  the extremes bound already: all of them outside, all but the one being taken
  from *max* to *first*. `MaximumShown` from `ShownInv`: a maximum
  that is not shown yet is about to be.
- `CpuFiguresInOrder` from `CpuInv`: once a figure was taken the warm-up is over.

`DriverServiceProofs`
- `TypeCorrect`, and `DevicesStay` (who has a handle keeps the driver from being
  unloaded): whatever is refused or killed.
- `NothingIsLeft`: `AllDownClean`, with no assumption on what is granted. The
  invariant names for each thing that can
  be left a program that has yet to come by the place where it is removed:
  whoever has the driver running is before its StopDriver, whoever has the
  service present is before its RemoveDriver, whoever has a copy is before its
  deletion. The last of these at any time takes it along.
- `ExitIsClean` under `OneSession` and `UnloadIsGranted`: the mutex leaves one
  program between its `LoadDriver` and its Exit, so what it stops and removes is
  also what a killed program left.
- `RestartsWork` under `OneSession`, `OneUser` and `LoadIsGranted`: the copy is
  written to where the service that was found expects it, as all programs are
  one user's.
- `ProgramsSettle`: a program has at most 17 steps from its start, and 5 from
  its Exit, before its message loop or its end, whatever is refused and whoever
  else runs.

`SmBusProofs`
- `TypeCorrect`: no reader writes outside its buffer; `BytesAreRead`, from an
  invariant by which a status that ends a transaction well is only set together
  with a byte. Both for any number of readers, any size and limits.
- `OneReaderKeepsContract`: `Spec => Contract!Spec` for one reader of a
  controller that is not VIA's. `OneInv` says that once the controller was seen
  clear nothing is under way and the registers are the reader's own, so the
  transaction it waits for is its own, and the byte it finds is the one it asked
  for; the bytes so far are a prefix of the module's.
- `CallsAreBounded`: a call takes at most
  `Size` * (2 * `ResetLimit` + 2 * `PollLimit` + 6) steps of its own, on any
  chip and whatever other readers do to the registers. `AttemptsInv` keeps the attempts within the limit of their loop.

`PortRequestProofs`: what each of the port functions returns, for any port and
data; used by the next two.

`PciConfigProofs`, any callers, devices and calls
- `TypeCorrect`, with the requests of a call made in its order (`CallInv`).
- `Keeps`: `Spec => Space!Spec`. The invariant: between its two requests an
  undisturbed call finds the latch at its own register, and the double word it
  will write is that register's with its bytes put in. Each request is then a
  step of `ConfigSpace` or a stutter.
- `SearchesAreRight`: `[]SearchIsRight` from `SearchInv`: a search that nothing
  came between has reported what there is to report at the slots and offsets its
  cursor has passed (`Reports`), and its local chip and class are those of the
  slot it is at (`AtSlot`). The lemmas about the cursor say that an early end of
  a loop passes only slots that have nothing to report.

`LibraryProofs`, for any processors, registers, tables, ports, drives and GPUs.
A behaviour of `Library` is one of each part (`PartsOfASpec`), so each theorem
needs only its part's steps:
- `KernelTypes`, `AffinityIsKept`, `RegisterIsOfTheCpu`, `WritesAlone`,
  `TableIsWhole`, `PortDataPasses` from `KernelInv`: within a request the thread
  is on the processor asked for and `saved` is where it goes back to
  (`BoundInv`); the answer is the register's value from the access on
  (`ValueInv`); memory is held only for the table asked for (`PagesInv`).
- `HandlesBalance` from an invariant on which handle is open at which request.
- `UsedIsCompaction`: what the loop over the slots of a table leaves is every
  slot with an Id, once and in order, for a table of any length. This is by
  induction over the slots, from the well-foundedness of the order of the
  naturals: if some number of slots were compacted wrongly there would be a
  least one, and it is one slot longer than one compacted rightly.
- `RowsOfTheDrive` and `TemperatureOfTheDrive` from `TableInv`: whatever was on
  the stack, the tables in the structure are those of the drive by the time
  they are joined (`CallInv`, `SlotsInv`), and the rows reported so far are the
  first of the join (`ReportInv`). `DriveAssumption` says no more than that the
  tables are sequences of slots of bytes.
- `ApiAllOrNothing` from `ApiInv`: while functions are looked up, those before
  the next one are set.
- `FiguresOfThisGpu` from `FigureInv`: `InfoInv` says which fields of the record
  are the current GPU's at each place, `RowsInv` that the rows are those of the
  first GPUs.

Four of these theorems (`StoppedTestsEnd`, `TestsLeftAloneEnd`,
`ProgramsSettle`, `CallsAreBounded`) state a bound on the steps left and that
every step lowers it, but for the refused offsets of a random test. They are the part of the liveness properties `StopDrains`,
`TestEnds`, `Settles` and of the answer `SpdContract` promises that is safety:
no other loop in which a test, a program or a call could go round for ever. What they
leave to TLC is that the next step is always possible and is taken, which is
ENABLED and fairness. They give the number of steps besides, which the liveness
properties do not.

Only model-checked:
- what needs fairness (`TestEnds`, `StopDrains`, `Settles`, that every caller of
  `ReadSpdData` gets an answer), which the provers cannot treat, but for the
  bounds just named;
- `PresentIsRead`, which is stated only of a controller with which nothing goes
  wrong.

Only proved: what several readers of one controller get (`BytesAreRead`: bytes
that were read, all of them, and not whose). Each run of `SmBus` has one reader.

## What is not modelled

- `graph.c`: drawing; its only state is the picture.
- `scsi.c`, and the bytes of the commands in `smart.c` and `scsioverata.c`: one
  request after the other with nothing kept between them. What could be wrong
  is in the layout of the command blocks, which a model of control would repeat.
- `battery.c`: one query of the system per call. `misc.c` of the program and of
  the library: conversions and wrappers of one call of the system each.
- `debug.c`: a line between `LockFile` and `UnlockFile` whose answer is not
  looked at; nothing depends on the log.
- The main window (one thread, layout and settings), resources, data, help,
  installer. Its start and end are in `DriverService`.
- Texts, layout, the figures only shown (elapsed time, percentages), the
  compression of the test file.
- Known weaknesses of the code that no property speaks of: MEM_DECOMMIT keeps
  the address range of a buffer, test after test (`diskbench.c:447`;
  `DiskBench` has the reserved ranges, and a test that finds none fails as the
  code does); the product a random offset is taken modulo is 32 bits wide and
  wraps with files of 4 GB and more (`diskbench.c:699`; `DiskBench` does not tell
  blocks apart); "PLEXTOR" is compared with nine characters (`smart.c:505`,
  modelled: no drive is taken for one); 0xE7 is taken for a temperature also on
  drives where it is the life left (`smart.c:637`, modelled).

## Plan

Done, in the order of what matters most: `DiskBench`, `SpeedMeter`,
`DriverService`, `SmBus` with `SpdContract`; `PciConfig` with `ConfigSpace`;
`Ioctl`, `Smart` and `NvidiaApi` as `Library`; the proofs above.

Left:
1. `PciConfig` and `SmBus` as one: the base address a search reports is the one
   the readers use, while another program moves it;
2. `scsi.c`, as operators on the bytes of its command blocks.
