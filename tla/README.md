# M1Switch: a TLA+ verification project

M1Switch runs Nintendo Switch programs natively on Apple Silicon. Guest code
executes on host threads in a 4 GiB window of the host address space; its
supervisor calls trap into C++ handlers that emulate the Horizon kernel and its
services. This directory holds TLA+ models of the emulator's own logic, TLC
configurations that check them on small instances, and TLAPS proofs for every
size. Line numbers refer to the repository at the modelled commit.

## 1. Inventory

| component | state | operations | talks to |
|---|---|---|---|
| Kernel objects, `kernel/Kernel.h` | flag and waiter list of each object, handle table | Signal, Clear, Wait, MarkFinished, RegisterWaiter, NotifyWaiters, Create, Get, Close | called by the supervisor calls on any guest thread |
| Supervisor calls, `kernel/SvcHandlers.cpp` | TLS and stack slot counters, thread-local handle | WaitSynchronization, SignalEvent, CreateThread, StartThread, ExitThread, ExitProcess, Break, SendSyncRequest, SetHeapSize, ... | kernel objects, memory, IPC |
| Guest memory, `memory/` | host mappings, `pages_`, heap and stack size | MapPhysical, UnmapPhysical, SetHeapSize, SetupStack, Protect, Read, Write | loaders, services, supervisor calls |
| Loaders, `loader/` | segment placement, RomFS tables | find a program in a package, place, relocate, protect, mount | memory, file system |
| File system, `services/Fs.cpp` | mounted RomFS, table of open files | SetRomFS, open, read, close | loaders, guest |
| IPC manager, `services/Ipc.*` | `sessions_`, registered services, domain objects | Connect, CreateSession, CloseSession, HandleRequest | services (HandleCommand, which call CreateSession back) |
| Services: SM, AM, HID, SET/APM, VI, NV, AudioOut, ... | per service | HandleCommand | memory, GPU, input, audio |
| Display, `services/Vi.cpp` | three slots, new-frame flag | Dequeue, Queue, Cancel, Acquire, Release, Connect, Disconnect | screen view (polls) |
| NV, `services/Nv.cpp` | nvmap entries, carveout offset, sync points | Create, Alloc, Free, SubmitGpfifo, SyncptAlloc | memory, GPU |
| GPU, `gpu/` | push buffer decoder, 3D registers, draw queue, pipeline, shader and texture caches | SubmitGpfifo, Process, OnMethod, ConsumeDraws, RenderFrame | guest threads write registers and queue, the view's thread reads both without a lock; Metal |
| Shaders, `gpu/shader/` | instruction list, emitted SPIR-V, label tables, stack of merges | ExtractShader, Decode, BuildCfg, EmitStructuredCfg | guest memory, Metal compiler |
| Core, `core/` | running and paused flags | LoadGame, Run, Stop, Pause | all of the above |
| Native execution, `cpu/` | signal handlers, jump buffers, `g_guest_exited` | RunGuest, TrapHandler | supervisor call table |
| Debugger and server, `cpu/Debugger.*`, `debug/` | breakpoints with saved instructions, server thread and socket, trace ring, snapshots | Set, Remove, Clear, Apply; Start, Stop; Record, Query | guest code, panel, socket clients, all traced code |
| Audio, input, front end | rings, controller state | callbacks of the host | HID and audio services |

What is hard here:

* **Concurrency.** Guest threads are host threads and every handler may run on
  several at once. Locks are short and pointers outlive them: the waiter lists,
  `find_session`, handle lookups, the new-frame flag, the trace ring.
* **Ownership.** Raw pointers with a delete at one end: `CloseHandle`,
  `CloseSession`, `owns_service`; spans that outlive their buffer: `RomFs`.
* **Two page sizes.** Guest pages are 4K, host pages 16K, and mapping a guest
  range deallocates whole host pages; images, stacks and TLS slots share them.
* **Partial failure and limits.** A host that refuses a mapping, packages of
  which only a part is usable, forced reuse of display slots, slots and
  allocators that never take anything back.
* **Ways out.** A guest thread ends by `ExitThread`, or because the process
  exited, broke or faulted; each takes another path through the trap handler. It
  does not end by returning: `guest_trampoline.S` enters it by a jump through the
  link register, so a thread function that returns begins again.
* **Numbers without a type.** Session handles, file numbers and results of NVGPU
  are counted from the same start, and IPC tells them apart by looking them up.
* **Passes that must agree.** The decoder counts sources, the emitter asks for
  them; one pass reserves labels, another emits them.

`PROJECT.json` lists every component with its status, and the hazards at their
lines, the ones without a property included.

## 2. Modules

| module | models | main correspondence |
|---|---|---|
| `KernelSync` | `SvcWaitSynchronization`, `SvcSignalEvent`, `SvcClearEvent`, `SvcResetSignal`, `SvcExitThread`, `SvcCloseHandle` over KObject, KEvent, KThread, KHandleTable | one step per lock region and per loop iteration; a waiter is identified with its thread; `table` is the set of objects not yet deleted; reading a deleted object gives either value and is noted in `uaf` |
| `KEventWait` | `KEvent::Wait/Signal/Clear` | the test of the predicate and the sleep are one step, because `Signal` sets the flag under the same mutex |
| `EventSpec` | the abstract event: a flag, and calls that are outside, waiting or returned | what `KEvent::Wait` promises, with its fairness; `KEventWait` implements it (`ImplementsEvent`) |
| `HandleTable` | `KHandleTable`, the calls that create, look up, use and close objects, HID's shared-memory handles | lookup and use are two steps; the guest of one thread may close a handle in between |
| `BufferQueue` | the buffer queue of VI and `drawInMTKView` | handlers are atomic (one mutex); the view's test, fetch and clear are three steps |
| `IpcSessions` | `IpcManager` and the commands of SM, AM, APM, HID that open sessions | a `Session*` is an allocation and an index: push_back beyond the capacity moves the vector, erase shifts it; one request is several steps, between which other threads run; the first word of a reply may be a number of the service's own (`Counters`) that is also a session's |
| `GuestMemory` | `Memory::MapPhysical`, `UnmapPhysical`, `SetHeapSize`, `SetupStack` | each granule of the address space is unmapped, fresh or written; operations are functions of the memory, because their callers perform several |
| `AddressSpace` (extends `GuestMemory`) | `LoadGame` with `NroLoader` and `NsoLoader`, `Run`, `SvcCreateThread`, `SvcSetHeapSize` | composition: image, heap, main stack, HID memory, thread stacks and TLS in one space; a reference in the code is its kind, its segment and what it addresses |
| `NvMap` (extends `GuestMemory`) | `HandleCreate`, `HandleAlloc`, `HandleFree`, `NvMap_Alloc` with the heap beside the carveout | composition: Alloc calls `MapPhysical` of `GuestMemory` and takes its failures |
| `FileSystem` | `Loader_LoadExecutable`, `Loader_LoadPackage`, `RomFs`, `FsService` | a package is a sequence of entries with what the parsers decide about each; the RomFS is its table of entries up to the first nameless one; opening a file reads the unlocked counter in one step (`Open`) and writes it, and the entry, in another (`Store`) |
| `Lifecycle` | `EmulatorCore::Run/Stop`, `SvcCreateThread/StartThread/ExitThread/ExitProcess/Break`, `NativeExec::RunGuest`, `TrapHandler` | a host thread is a program counter and the guest thread it carries; every supervisor call is entry, effect, and return through the trap handler |
| `Debugger`, `DebugServer` (extends it) | `EmuDebugger`'s breakpoints across loads; the server's thread, `Stop` and a client | code is an instruction per address; `orphans` records where the code itself leaves a BRK behind |
| `TraceRing` | `TraceEngine::Record`, `AllocateSlot`, `EnableChannel` | the atomic operations of a writer are steps; each slot remembers the position it was given to |
| `Engine3D` | `Engine3D::HandleMethod` and its group handlers | the register file is a function; each method gives the registers it writes. No variables: a library of `GpuChannel` |
| `GpuChannel` (extends `Engine3D`) | `HandleSubmitGpfifo`, `GPFifo::Process`, `StateTracker::OnMethod`, `ComputePipelineKey`, `MetalRenderer::RenderFrame` with `CompilePipeline` and the pipeline cache | one step per command, per method and per stage of a frame; the guest's and the view's thread share registers and queue |
| `ShaderEmitter` | `ShaderExtract`, `MaxwellDecoder`, `SpirvEmitter`'s `BuildGprMap`, `BuildCfg`, `EmitStructuredCfg`, `EmitShaderInst` | extraction and decoding are operators on words; the emitter takes one instruction per step and appends labels, merges, branches and stores to its output |
| `MCKernelSync`, `MCIpcSessions`, `MCFileSystem`, `MCGpuChannel`, `MCShader` | instances | values of constants that a cfg cannot write |
| `MCGuestParts`, `MCGame`, `MCAddressSpace`, `MCHostParts` | instances of several modules | parts side by side, chosen in the initial state by `part`: a behaviour is one of a single part, and the variables of the others stay as they are |
| `KernelSyncProofs`, `BufferQueueProofs`, `IpcSessionsProofs`, `MemoryProofs` (`NvMap` and `AddressSpace`), `GpuChannelProofs`, `GameProofs` (`Lifecycle` and `FileSystem`), `HostPartsProofs` (`KEventWait`, `HandleTable`, `DebugServer`, `TraceRing`), `ShaderProofs` (`ShaderEmitter`) | theorems | see section 4 |

Variables marked *history* in the modules record what has happened so that a
property can refer to it; no action reads them in a guard. (`triggered` of
`GpuChannel` also numbers the draws, which have no name in the code.)
Definitions whose comment begins with *Mutant* are plausible mistakes; each is
paired in `PROJECT.json` with the property that notices it.

Abstractions worth knowing:

* Message bytes, names and formats are left out. What HandleRequest, a parser or
  a debug command decides from them is an input.
* HandleRequest looks the session up several times before routing; those reads
  are one step (`HandleRequest`), the ones whose pointer is used later are steps
  of their own. With overlapping requests the code has a few more harmful
  interleavings than the model; the properties about overlap that are claimed
  (`IdsIncrease`, `OneOwner`) concern writes, all of which are modelled.
* Guests return only the slots they were given (`QueueBuffer`, `CancelBuffer`,
  `ReleaseBuffer`); they may have been given the same one.
* Threads of `KernelSync` have been started already; `wake_event`, on which no
  one waits, is not an object. How they start and end is in `Lifecycle`.
* A push buffer word is a pair of halves, so that the decoder's fields and the
  64-bit pipeline key (the set of its bits) are computed as in the code within
  TLC's integers. One guest thread submits. `push_back`, `move` and `clear` of the
  draw queue race in the code; here each is atomic, so what fails here fails
  without a torn vector. Whether the shader compiler accepts a program is a free
  choice.
* A shader instruction is its opcode, its register fields, its guard and its
  target; the opcodes of one group (the arms of one shape) behave alike, and the
  groups are the code's. SPIR-V words other than labels, merges, branches and
  stores are left out.
* Addresses count granules. `Fill` stands for the Mach calls: both round to host
  pages. An empty range is refused by the host. `SetHeapSize` takes no lock in the
  code, and `MapPhysical` and `UnmapPhysical` lock only their changes of `pages_`; a
  call is one step here, and two threads that map or resize at once are outside the
  model.
* The table of open files has no lock either. Its `Open` is two steps, every other
  command on it one, and `overlapped` notes the first time a command meets a
  half-done `Open`. From then on `HandlesKept` claims nothing: two files may share
  a number, and the hash map itself may be torn. A directory whose parent index is
  bad has its path built from memory past the table (`RomFs.cpp:152`); nothing that
  is opened depends on it, because an open needs a file of the path.
* Ends of the whole process are no steps: an argument of a debug command that
  `std::stoull` rejects, and a reply to a client that has left (SIGPIPE). The trace
  ring's memory is there; its filters and `Clear` have no caller, and its file
  output is left out.

## 3. What TLC checks

| run | expectation | instance | shows |
|---|---|---|---|
| `KernelSync_waits` | pass | 2 threads, 1 event and the 2 thread objects, empty, repeated, mixed and fake handle lists, all timeouts, the event closable | `WaiterLifetime`, `AsleepCovered`, `ResultJustified`, `TimedWaitReturns` |
| `KernelSync_lostwakeup` | violation | 2 threads, 1 event | `SignaledWaitReturns`: the lost wakeup |
| `Guest_parts` | pass | display: 3 slots, 2 producers, 1 compositor, the view; threads: 3 guest threads on 4 host threads | `NoSlotStuck`, `HeldIsDequeued`, `OldestRecycled`; `FinishedIsOver` |
| `Game_progress` | pass | frames: 3 push buffers, each cut off at every word, 2 submissions, a limit of 9 words, the view; threads: 3 guest threads on 3 host threads | `InBounds`, `DrawsAccounted`, `DrawsInOrder`, `QueueDrains`; `ExitEndsGuest` |
| `GpuChannel_pipeline` | violation | the push buffers of `Game_progress` | `PipelineFitsDraw`: the pipeline of a later state |
| `Memory_guest` | pass | game: 4 NRO and 3 NSO layouts, one stack slot and three TLS slots for 4 threads, heaps of 3 and 8; buffers: 2 entries, sizes 0, 1 and 3, alignments default, 1 and 4, a carveout of 8; a host that may refuse | `HeapBacked`, `ImageKept`, `DataWritable`, `ReferencesFollow`, `ThreadsBacked`, `GuestMemoryKept`; `BuffersDisjoint`, `BufferBacked`, `HeapSparesBuffers` |
| `IpcSessions_requests` | pass | 2 clients, SM, FS with numbers of its own, HID with a fresh object; overlapping: 3 sessions, FS numbers that name the second; serial: 4 sessions and AM's chain of shared objects | `IdsIncrease`, `OneOwner`, `PointerCurrent`, `SerialTargetAlive` |
| `IpcSessions_domain` | violation | 1 client, SM and FS, 2 sessions | `OnlyRealSessions`: the file number taken for a handle |
| `FileSystem_serve` | pass | 2 clients and packages of each container with usable, unusable and missing parts; games: 3 loads, 1 file number that both clients may get; files: 1 load, 3 files opened one after the other | `OneRomFs`, `ProgramsRomFs`, `HandlesKept` |
| `FileSystem_data` | violation | the same with 2 loads and 1 opened file | `FileHoldsItsData`: the freed buffer |
| `Host_parts` | pass | 3 threads on an event; 2 on the handle table; 2 breakpoints, 2 games, 1 client; 2 writers on a ring of 3; shaders with every group of opcodes, two SSY ranges, and longer than the limit of extraction | `NoLostWakeup`, `ImplementsEvent`; `HandleOwnsObject`, `HandlesStable`; `CodeRestored`, `StopEnds`; `EventsKept`, `WindowHeals`; `ResultsStored`, `MergesFollowNesting`, `ExtractKeepsProgram` |
| `Shader_labels` | violation | an if | `BranchesLand`: the label that is never emitted |

The type invariants (`TypeOK`, `NvTypeOK`, `SpaceTypeOK` with `MemTypeOK`,
`LifeTypeOK`) hold in the same instances; those of `KernelSync`, `KEventWait`,
`BufferQueue` and `IpcSessions` are theorems. The runs do not list them.

Bounds and why they are enough. Two threads give every pair of calls in every
order; a third waiter in `KEventWait` is what tells notify_all from notify_one.
Three slots are the code's own number, and three parties are enough for one slot
to have two owners and be taken by a third. `MaxHeld` is 1: a producer draws one
frame at a time (`OldestRecycled` says so; it is false for two, see section 4).
Three sessions (`MaxSessions`, the number ever opened) let the vector move twice
and be erased from the middle; the serial half has four, for the services on the
way to an object of AM or HID. One domain object (`MaxObjects`) made from a number
of a reply is enough to mistake one. In `Memory_guest` a host page holds two guest
pages and a guest page two granules, so that each range can end inside one; the
images have text and data in one host page and apart, segments on guest and on
host pages, and a bss; threads use up the stack slots and reach the last TLS slot
of the main thread's page (`SlotsLeft` says where the code's own limits are
passed); two buffers share a host page or fill the carveout up. The heap's limit
lies at the top of the stack as in the code. Three loads of packages (`MaxLoads`)
show what a second game inherits from the first and what a third finds. Three
files (`MaxOpens`) let one be open while a second is closed and a third opened;
two clients meet in the file table. Three host threads (`MaxHosts`) let one exit
while a second waits and a third starts. Two calls that start the same thread need
a fourth, since both callers and both new hosts exist at once; `Guest_parts` has
it, and TLC finds `FinishedIsOver` false there without its exception. With four the
liveness checked by `Game_progress` takes too long. `RelrLimit` is one entry where
the code has 4096 bytes, `MaxSize` eight words where it has 512, and each instance
has a table or a program beyond it. `MaxWords` stands for the 65536 words of
`HandleSubmitGpfifo`; one buffer is longer, and is cut off in a command. A ring of
three slots and events of one or two wrap in the middle of an event; `MaxSlots`
lets the ring wrap twice.

Two instances are explored in halves, because their product is out of reach:
`MCIpcSessions` has requests that overlap with few sessions and requests one after
the other with many, `MCFileSystem` many loads with one file number and one load
with many files. The halves restrict what happens, not what an action does.

Behaviours end where these bounds are used up, where all guest threads have ended,
or where the guest stops submitting, so that no run checks for deadlock; where
something must go on, a liveness property says so. Clients are symmetric in
`IpcSessions_requests` and in the runs of `FileSystem`, which check safety only;
the other runs use no symmetry.

Refinement. `ImplementsEvent` says that `KEventWait` with its fairness implements
`EventSpec`: the flag is the flag, a call is waiting from its lock to its result.
The abstract specification has no condition variable: a wait succeeds at a moment
the flag is up, times out at one when it is down and never without a limit, and
returns when the flag stays up or its time is over. The mapping is an INSTANCE ...
WITH in `KEventWait`.

Fairness. `WaitStep`, `SignalStep` and `Inside` are weakly fair: the host
schedules its threads, and the locks involved are held briefly. `Expire` is
strongly fair: the deadline of `wait_for` is absolute, so a thread that is woken
in vain and sleeps again still expires. `View` of `GpuChannel` is weakly fair: the
display calls the draw callback for ever. In `Lifecycle` the emulator's code and
the guest's next call are fair for each host thread, but no object is ever owed a
signal. `ServerStep` and `Joined` are fair, the server's client is not. No spurious
wakeup is owed.

Limits written into properties. Where the code itself breaks a promise in a known
way, the property names the exception instead of excluding the behaviour:
`FinishedIsOver` excepts a thread started twice, `HandleOwnsObject` the HID memory
with its several handles, `StopEnds` a client that stays silent, `CodeRestored` the
BRKs that ClearAllBreakpoints, a saved 0 and a second game leave, `WindowHeals` and
`EventsKept` writers that overlap, `ImageKept` segments mapped one by one in one host
page, `ResultsStored` shifts, R2P and P2R, `ExtractKeepsProgram` the second half of
a wide instruction and programs without an EXIT in their first 4096 bytes,
`ReferencesFollow` the RELA table, DT_INIT and RELR entries behind the first 4096
bytes, `SerialTargetAlive` the shared sub-objects and the services that a domain took
from a number, `HandlesKept` what follows an overlap in the file table. Each of these
is listed in section 5.

## 4. What is proved

TLAPS checks these for every value of the constants that satisfies the named
assumptions of the modules: any number of threads, objects, slots, sessions,
files, sizes and page sizes. Each theorem about an invariant `Inv` of the runs
comes from an inductive invariant that implies it: the property alone is seldom
preserved, and what has to be added is named below.

`KernelSyncProofs`
: `TypeCorrect`, `NoDanglingWaiter` (`WaiterLifetime`), `SleepersRegistered`
  (`AsleepCovered`). Neither is inductive: that a sleeping call is registered
  depends on how far its registering loop has come, and that none is left behind on
  how far its unregistering loop has. `IInv` adds both, by the loop index: an entry
  belongs to an object before the index of the registering loop, or at or after the
  index of the unregistering loop; and every object the registering loop has passed
  is covered until the unregistering loop starts, if it still exists.
  `ResultsJustified` (`ResultJustified`) adds `ResultInv`: an index that was found
  names an object seen signaled or deleted, and a call without a timeout that is at
  its second look has a signaled object still ahead of it, or someone cleared or
  deleted one.

`BufferQueueProofs`
: `TypeCorrect`, `SlotsReturnable` (`NoSlotStuck`), `SingleProducerOwns`
  (`HeldIsDequeued`), which rests on `UsersHold`: only threads recorded in `users`
  hold slots. `ForcedReuseTakesOldest` (`OldestRecycled`) rests on `RoundRobin`, the
  order in which one thread that draws one frame at a time goes round the slots,
  and on `AgesDiffer`.

`IpcSessionsProofs`
: `IpcTypes`, and with overlapping requests `IdsUnique` (`IdsIncrease`) and
  `OwnersExclusive` (`OneOwner`), which rests on `OwnedFresh`: an owned fresh object
  is alive and has one owner, so a newly allocated one has none. For requests one
  after the other `PointersStayCurrent` (`PointerCurrent`) and `TargetsStayAlive`
  (`SerialTargetAlive`). The latter rests on an argument about knowledge
  (`OwnersHidden`): an object in a domain is owned by a session whose handle the
  guest never gets, so the guest cannot close it and delete the object. This is so
  for objects that a command made; one registered because a reply began with some
  session's number belongs to a session the guest may well close, and is in
  `mistaken`.

`MemoryProofs`
: The carveout: `CarveoutDisjoint` (`BuffersDisjoint`), `BuffersStayMapped`
  (`BufferBacked`), `HeapLeavesBuffers` (`HeapSparesBuffers`). The guest:
  `HeapStaysMapped` (`HeapBacked`), `ThreadsHaveMemory` (`ThreadsBacked`),
  `GuestKeepsMemory` (`GuestMemoryKept`), from where each operation can touch
  memory at all (lemmas `MapEffect`, `UnmapEffect`, `HeapEffect`, `CreateEffect`)
  and from `SlotOrder`, that slots do not meet. The image: `DataStaysWritable`
  (`DataWritable`), `ReferencesMove` (`ReferencesFollow`), `ImageStays`
  (`ImageKept`). Segments are numbered by load (`SegmentsInv`), what was copied lies
  below the heap (`ImageInv`), and a load is followed mapping by mapping
  (`ThenContents`): what is copied survives the mappings after it because they have
  other pages. That rounding a size to guest pages adds no host page is lemma
  `PageRounding`.

`GpuChannelProofs`
: `ReadsInBounds` (`InBounds`), from the callbacks that are still to be made
  (`DecoderInv`); `NoDrawVanishes` (`DrawsAccounted`) and `DrawsIssuedInOrder`
  (`DrawsInOrder`), from the order of issued, current and queued draws (`DrawsInv`)
  and from the fact that whatever is queued while a frame is drawn came late.

`GameProofs`
: `FinishedThreadsAreOver` (`FinishedIsOver`), as a finished thread has a host thread
  that is gone (`LifeInv`); `ExitLeadsOut` (`ExitDescends`), the safety half of
  `ExitEndsGuest`: every step of a host thread takes it nearer to its end once the
  process has exited; `FilesOfTheImage` (`OneRomFs`), `OpenFilesKept`
  (`HandlesKept`), `ProgramsOwnRomFs` (`ProgramsRomFs`), from `FsInv`. For the handles
  it says (`TableOk`) that without an overlap at most one client is inside an `Open`,
  holds the number the counter still has, and every open handle is below it.

`HostPartsProofs`
: KEvent: `TypeCorrect`, `NoWakeupLost` (`NoLostWakeup`), `InfiniteWaitSucceeds`:
  inductive as they stand, because the flag is set under the mutex of the wait.
  `StepsImplementEvent`: initial states map to initial states of `EventSpec`,
  steps to steps or stutters. This is `ImplementsEvent` without its fairness.
: The other parts: `OpenHandlesOwn` (`HandleOwnsObject`) and `HandlesNotReused`
  (`HandlesStable`), with handles below `next_index_`; `InstructionsKept`
  (`CodeRestored`); `JoinNotStuck` (`StopNotStuck`), the safety half of
  `StopEnds`, from who is connected at each place of the server's thread
  (`ServerInv`); `TraceKeepsEvents` (`EventsKept`), where each of the newest slots
  holds its event or is still some writer's (`SlotsCovered`), and
  `AloneHealsWindow` (`WindowHeals`).

`ShaderProofs`
: For program regions of any length and any limit of the extraction,
  `ExtractionKeeps` (`ExtractKeepsProgram`), `ResultsReachVariables`
  (`ResultsStored`) and `MergesNest` (`MergesFollowNesting`). What the recursive
  `Decode` returns is proved by induction downwards over the pc, with the set of
  pcs for which the claim holds and its least member (`LeastNat`, `Downward`):
  `DecodeAscends`, that each decoded instruction comes from a word of the region
  and that pcs ascend, and `CutAlike`, that the extracted program and the region
  decode alike from every pc up to the first EXIT, unless some instruction has
  EXIT's bits in its second half. A program that is cut off because no EXIT lies
  within the limit (`CutOff`) is outside the claim. `PipelineInv` is the inductive
  invariant: the program is what was decoded, labels have ids of their own
  (`IsEmitter`), results are stored up to `at` (`StoredUpTo`), and, if the program
  is well nested, the stack holds exactly the ranges around `at` (`StackInv`).
  That no merge is announced twice needs more (`MergeInv`): the id of an announced
  or pending merge belongs to no label but that of an SSY already passed
  (`Taken`), so a later SSY, whose SYNC is another one, cannot get it again.
  `ArmNeeds` says which arms find the sources they ask for.

Assumptions on constants are what the code fixes: page sizes are powers of two;
`RegionsAssumption` and `LayoutAssumption` state the order and alignment of the
regions that are constants in different files; `HeadersAssumption` that header
fields are unsigned; `WordsAssumption` that the fields of an instruction word have
their width; `ImagesAssumption` and `PackagesAssumption` that code and
entries are arrays. TLC evaluates all of them on the instances of the runs.

Conditions of theorems are what the code leaves to the guest or to the file, and
without them the property is false:

* `HeapStaysMapped`: heaps round to whole host pages (`WholeHostPages`); else
  shrinking takes the page the heap ends in.
* `GuestKeepsMemory`: heaps end below the main stack (`HeapBelowStack`); a heap of
  the full 1 GiB covers it.
* `ReferencesMove`: references lie in the segments they address (`Linked`). RELR
  entries behind the limit are excepted by the property itself.
* `ImageStays`: segments follow each other and end below the heap (`NroFits`,
  `NsoFits`). An NRO that is split must have data: a PIE image without data whose
  text is longer than a host page has its tail cleared when the bss is mapped, and
  nothing in its segments shows it.
* `ForcedReuseTakesOldest`: `MaxHeld = 1`, as a premise of the property; a producer
  that keeps two slots and queues them out of turn has the younger frame recycled.

`MCAddressSpace` asserts (`InstanceAssumption`) that the images and heaps of its run
satisfy the first four, so that the run and the theorems speak of the same systems.

Only model-checked: liveness and the fair part of the refinement
(`TimedWaitReturns`, `QueueDrains`, `ExitEndsGuest`, `StopEnds`, `ImplementsEvent`),
which need fairness and ENABLED. Every invariant and action property of the passing
runs is a theorem. `ExitDescends` and `StopNotStuck`, the safety halves of two
liveness properties, are stated in the proof modules and listed by no run; TLC finds
them true on the instances of `Game_progress` and `Host_parts`.

## 5. Disagreements between the code and its texts

Shown by a run:

1. **Lost wakeup** (`KernelSync_lostwakeup`). `NotifyWaiters` notifies without the
   waiter's mutex, so it may come between the predicate and the sleep. The
   repository's test of the pattern sleeps 50 ms before it signals, which hides it.
   `KEventWait` shows the correct pattern, which `KEvent::Wait` follows.
2. **Freed RomFS** (`FileSystem_data`). `FsService_SetRomFS` copies the RomFS and
   then parses the caller's span; files are read from the loader's freed buffer.
3. **Lost labels** (`Shader_labels`). The linear pass gives a block that SSY or BRA
   has reserved a label for another one; the branch then has no target.
4. **Mistaken objects** (`IpcSessions_domain`). In domain mode the first word of any
   reply is looked up as a session handle. File numbers, results of NVGPU and
   handles all start at 0x1000, so opening a file can register the service of an
   unrelated session as a domain object, which stays after that session is closed,
   and the guest does not get its file number.
5. **Pipelines of a later state** (`GpuChannel_pipeline`). `RenderFrame` makes a
   pipeline from the registers as they are when the frame is drawn and caches it
   under the key of the draw's snapshot, which "determines the Metal pipeline"
   (`StateTracker.cpp:19`): a guest that turns blending on after a draw was triggered
   has that draw, and every later one of its key, blended.

Found with the models, no run of its own:

* The view clears the new-frame flag after fetching the frame and so erases the
  announcement of a frame queued in between (`Vi.cpp:495`; the comment at
  `Vi.cpp:65` says the flag announces frames).
* `CreateSession` makes every session the owner of its service (`Ipc.cpp:179`: a
  sub-service of its own); AM and APM hand out objects that exist once, and
  closing one of two sessions leaves the other routed to a deleted object.
* Buffers smaller than a host page are cleared when the next one is placed, although
  the carveout is there to keep data from being cleared (`Nv.cpp:58`,
  `README.md:113`).
* A PIE image whose text is longer than a host page has its data moved on top of
  its own text (`NroLoader.cpp:237` aligns the start of the text, not its end), and
  segments mapped one by one in one host page lose their contents. The RELA table
  and a DT_INIT in the text are not, or wrongly, shifted with the data, and neither
  are RELR entries behind the first 4096 bytes of the table (`NroLoader.cpp:334`).
* The comment on `ClearDirty` ("Assumes single-threaded", `StateTracker.h:64`)
  states an assumption its callers do not meet: a draw triggered between
  `ConsumeDraws` and `ClearDirty` of one frame is dropped. `DrawsAccounted` allows
  exactly these losses and no others.
* A guest that hits a breakpoint skips the instruction. The trap handler does call
  `OnBreakpoint` for the debugger's tag (`ExceptionHandler.cpp:121`, as `Debugger.h:66`
  says), but it takes tags from a cache that only `PatchSVCs` fills, with those of
  supervisor calls: the debugger's BRK is not found and the call is never reached.

Seen while modelling, with no text of the repository against it: joining a thread
and closing its handle can delete the KThread under `MarkFinished`; two calls of
`SvcStartThread` can give one thread two host threads; two opens of files can get
one number; two calls of SetHeapSize can mix; a thread function that returns
begins again; a shader without an EXIT in its first 4096 bytes is cut off there; a
heap shrunk to a size that is no multiple of 16K loses its last host page; a heap
of the full 1 GiB covers the stack; after two refusals of the host the heap is
gone and the call reports success; overlapping requests on one session misuse a
`Session*`; TLS slots of 0x200 are backed only within the host page of the main
thread's; `g_guest_exited` is never taken back, so that a second game ends at its
first call; a main thread that calls ExitThread leaves `running_` up; a second
package without a RomFS runs with the first one's; programs in an NSP are never
found, because its ExeFS offset stays 0; a nameless root ends the RomFS directory
table; `SvcMapSharedMemory` never maps; a silent client of the debug server blocks
the end of the application; `ClearAllBreakpoints` leaves its BRKs, and removing a
breakpoint after a second load writes the first game's instruction. In `Engine3D`
the offset of a render target method is divided by 8 twice, so that a frame never
goes to render targets; `Reset` clears the colour masks' default; the high half of
a vertex array's address is ignored; and of 16 viewports 12 can be reached. In the
shader pipeline every comparison writes predicate 0 and a guard 0 counts as none,
so that a guarded branch always tests a constant; shifts are decoded with one
source and dropped; KIL anywhere suppresses the final return; a predicated EXIT
ends decoding; and the cache of compiled shaders is keyed by offset and stage, not
by contents.

## 6. Not modelled, and the plan

Not modelled: the texture and shader caches and Metal's compilers (their entries are
host objects, and what decides them is data), the renderer's buffer cache,
`SyncptAlloc`, AudioOut's buffers and the audio ring, the HID ring of npad states,
AM's message queue, snapshots. Not planned: the user interface, logging,
configuration, cryptography, container byte layouts, SPIR-V bit layouts, register
switching in assembly and the calls of Metal, which are I/O or data conversion
without control of their own. The scheduler's core loops are never given a thread.

The proofs have reached every invariant and action property of the runs. What is
left is liveness: a proof of `ExitEndsGuest` would rest on `ExitLeadsOut` and weak
fairness, one of `StopEnds` on `JoinNotStuck` and the fairness of `ServerStep`. Of the
parts listed above, AM's message queue and the ring of npad states come next.
