# A TLA+ model of the SysVAD based audio driver

This directory models the concurrent and stateful core of `src/audio/sysvad`: the
virtual audio driver of this repository, with the volume, mute and EQ control
device its author added under `TabletAudioSample/AudioVolumeControl`. The rest of
the repository is the upstream collection of driver samples, unchanged; it shares
no code with the audio driver and is not modelled.

Each module is a translation of the source; `PROJECT.json` maps every definition to
its lines. Definitions keep the names of the source where TLA+ allows it.

Paths below are relative to `src/audio/sysvad`.

## 1. Inventory

| Component | State | Operations | Acted on by | What is hard | Correct when |
|---|---|---|---|---|---|
| **CSaveData** `savedata.cpp` | ring of `FrameCount` frames, write cursor, a used flag per frame, 8 work items with an event each, file mutex, file pointer | `SetMaxWriteSize`, `WriteData`, `WaitAllWorkItems`, `Disable`, destructor; `SaveFrameWorkerCallback` | one stream (DISPATCH_LEVEL, under the position spin lock), several system worker threads | frames are released before their work item is; a refused write; stop in mid-frame; failed file writes | no byte is overwritten before it is saved, saved twice, or missing; work items are never queued twice; a stop leaves nothing running and ends |
| **WaveRT stream** `EndpointsCommon/minwavertstream.cpp`, `MiniportStreamAudioEngineNode.cpp` | KS state, positions, packet counter, timer, carried time and bytes, end-of-stream position | `SetState`, `GetPosition(s)`, `GetReadPacket`, `SetWritePacket`, `SetStreamCurrentWritePositionForLastBuffer`; `TimerNotifyRT` | the port driver's thread, position readers, the timer DPC, the clock | late DPCs, pauses between packets, the DPC in the middle of `SetState`/`SetWritePacket`, restart | packets are counted once transferred, delivered once and in order, signalled; the end of the stream is not passed and is noticed |
| **Notification list** `minwavertstream.cpp` | list of events | register, unregister; the DPC's walk | the client at PASSIVE_LEVEL without a lock, the DPC under a spin lock | list and walk interleave store by store | the walk ends, sets each event once and never stands on freed memory |
| **Keyword detector** `EndpointsCommon/minwavert.cpp` | pool and fifo of packets, start of the capture, last queued packet, two armed flags | arming, `NotifyDetection`, `ResetDetector`, `Run`/`Stop`, `GetReadPacket`, `DpcRoutine` | the client, the DPC of this pin or of a sibling stream, the clock | two detectors share one capture; entries move between lists; resets without locks; a retry loop in the DPC | no entry is lost or shared; the client reads consecutive packets in order; the DPC ends |
| **Volume, mute, EQ** `TabletAudioSample/AudioVolumeControl/*`, `savedata.cpp:959-1000` | `g_DeviceVolume`, `g_Muted`, two tables of coefficients, the chunk in hand | IOCTLs; the processing in `WriteData` | a client, each stream | globals are read at two instants of a chunk; signed by unsigned arithmetic; the two parts of a chunk | what is saved is the chunk at the controls' values |
| **Driver object and adapter** `adapter.cpp`, `common.cpp`, `AudioControlCore.cpp` | dispatch table, unload routine, control device and link, adapter instance counter, device states | `DriverEntry`, `AddDevice`, `StartDevice`, `PnpHandler`, unload | the PnP manager | PnP order, starts at the same time, failing allocations, one driver object for two kinds of device | at most one adapter object; every file reaches its driver; everything is released |
| **Subdevice cache and endpoint filters** `common.cpp:2183-2760` | cached ports, ports registered with the port class, connections | `InstallEndpointFilters`, `RemoveEndpointFilters`, `CacheSubdevice`, `GetCachedSubdevice`, `RemoveCachedSubdevice` | the work item of a sideband profile, `StartDevice` | any of its calls may fail half way; ports are found by a name that is a hash | what is created is undone, and the cache knows exactly what is registered |
| **Sideband devices** `common.cpp:2835-3440`, `BthhfpDevice.cpp` | list of devices, queue of tasks, work item, references; per device its state, ports, notification requests, SCO channel | arrival, removal, `AddTask`, the work item's callback, `Start`/`Stop`, `Init`/`Cleanup` of the sideband; completion routines, `NotificationWorkItem`, `StreamStart`/`StreamSuspend` | PnP notifications, system worker threads, the driver below, two streams | removal while the start is queued or runs; the work item that is enqueued while it finishes; notifications sent again while `Stop` purges; two streams over one channel | filters go with their device, no task waits for nobody, a cleanup and a stop leave nothing, the last stream to go takes back what the streams did |
| Filter driver `TabletAudioSample/AudioFilterDriver`, `AudioVolumeProcessor.cpp` | device extension, KS header, gain table | AddDevice, START, REMOVE | PnP manager | decided inside KS | not modelled, section 7 |
| WaveRT miniport pins `minwavert.cpp` | pin instance counts, content ids | pin allocation, property handlers | port driver, one call at a time | - | not modelled, section 7 |
| Topology miniports, mixer, tone generator, audio modules, `kshelper.cpp` | next to none | property handlers, signal synthesis | port driver | - | not modelled: no control state |
| APOs, OEM keyword adapter, test clients | user mode | - | - | - | not modelled: user-mode COM objects and test programs |

How they meet: `UpdatePosition` of the stream (called by its DPC, by position reads
and by `SetState`) hands what was played to `CSaveData::WriteData` through
`ReadBytes`, under the position spin lock. `WriteData` applies the volume, mute and EQ
globals that the control device's IOCTLs set. The DPC walks the notification list and
drives `CKeywordDetector::DpcRoutine`. `SetState(KSSTATE_STOP)` waits for all work items
of `CSaveData`; the pause of the keyword pin resets the detector. `AddDevice` creates the
control device on the driver object that the port class uses. `StartDevice` registers for
interface notifications; a notification queues a start or stop task, the work item runs
it, and the device installs or removes its endpoint filters through the subdevice cache.
The ports of those filters hold the device, the files open on them hold the ports, and
their streams start and suspend the device's channel.

## 2. Modules

| Module | Models | Notes |
|---|---|---|
| `SaveData` | CSaveData | a step is what one actor does between two points at which others can tell the difference. A byte is the number of its place in what the stream offered, so ring and file show what they hold. `pc` is where the stream is in `WriteData`/`SaveFrame`/`WaitAllWorkItems`, `wpc` where a worker is in the callback. |
| `FrameLog` | what CSaveData promises | chunks are handed over, at most `Capacity` are in flight, each is appended whole, once and unchanged, or lost. |
| `RenderPath` | stream and CSaveData together | `SaveData` driven by `ReadBytes`: write sizes are not free but follow the DMA position. |
| `WaveRTStream` | the stream's clock, packets and states | work under `m_PositionSpinLock` is one step; `SetState` and `SetWritePacket` are cut where a DPC can run. The data is left to `RenderPath`. |
| `NotificationList` | the list and the walk | memory is explicit: a freed entry may hold anything. What is on the list is the smallest set closed under `Flink` (`Reached`). Its names begin with `list` where `WaveRTStream` has the same, so that one module can prove about both. |
| `KeywordDetector` | pool, fifo, arming, DPC | interlocked list operations are one step each. |
| `AudioControl` | IOCTLs and processing | a chunk is one sample for the current frame and one of the left over. |
| `AdapterDriver` | driver object, devices, control device, what holds the adapter object | PnP handlers are steps; `StartDevice` is cut at the creation of the adapter object. A file that is open when its device is removed keeps the object alive. |
| `EndpointFilters` | filter pairs and the subdevice cache | operators without state of their own: each returns what a state of the filters may become, with a failure of any call. |
| `SidebandAdapter` | the adapter's list of hands-free devices, its tasks, work item and cleanup | `EndpointFilters` composed with devices, notification threads and work item threads. A step is what a thread does under `m_BthHfpFastMutex`, or one call of `Start`, `Stop` or a filter installation. A device is identified by its memory, which is used again. |
| `SidebandDevice` | one hands-free device: notification requests, their work item, two streams over one SCO channel, `Stop` | a synchronous request, which may fail or time out, is one step, so is what happens under `m_Lock`. The work item is not serialized (`AutomaticSerialization = FALSE`, `BthhfpDevice.cpp:212`), so several threads may run its callback. |
| `SaveDataProofs`, `RenderPathProofs`, `WaveRTStreamProofs`, `KeywordDetectorProofs`, `AudioControlProofs`, `AdapterDriverProofs`, `SidebandAdapterProofs`, `SidebandDeviceProofs` | theorems about the module each is named after | section 5. `WaveRTStreamProofs` is about both parts of CMiniportWaveRTStream, the stream and its `NotificationList`. |
| `MC*` | instances for TLC | sets of model values, symmetry. |

Definitions named `Bug_...` are mutations: what the definition after them would be
with a plausible bug. Each property of a passing run is violated by one of them, which
shows that the property depends on the code.

Simplifications that a reader should know:

- `SetMaxWriteSize` happens before the stream first runs, because its only caller is
  `AllocateBufferWithNotification` (`minwavertstream.cpp:560`).
- The number of worker threads that run the callback at a time is a constant; the
  system decides it.
- `SaveData` has two specifications. `Spec` is the code with any writer. `FittingSpec`
  leaves out the writes that reach past their frame into one that is still in use
  (`CopyToFree`), because the code does not look at that frame's flag (section 6). The
  contents of the file are the subject of `FittingSpec`; where the writes come from the
  stream, section 5 proves that it makes no others until something is lost.
- In `WaveRTStream` time is in whole milliseconds, so the 100 ns remainder is 0; the
  stream has no sideband and is not on the keyword pin. Format changes, presentation
  positions, content ids and audio engine volume are left out.
- `PauseFlush` zeroes the time since the last DPC; the code leaves the old time stamp,
  which the next RUN overwrites before anyone looks.
- In `KeywordDetector` the client makes one call at a time. Two assumptions are
  parameters: `SiblingRuns` (another stream's DPC also calls `DpcRoutine`) and
  `ResetsOverlap` (a reset may overlap that DPC). The passing runs set them to FALSE,
  and section 6 says what happens otherwise.
- `overlapped` in `NotificationList` remembers that a call that unregisters an event
  overlapped the walk; the code has no such variable.
- In `AudioControl` a set of coefficients is either all zero, which silences, or flat.
  The IOCTLs that only read back, and the PCM test buffer, are left out.
- In `AdapterDriver` power management and the filter installation in `StartDevice` are
  one step that may fail. Its reference counts are sets of holders.
- `NotificationIntervalMs`, `Due` and `TimeElapsedInMS` keep the width of the ULONG
  products of `AllocateBufferWithNotification` and `UpdatePosition` and of the time they
  cast to a ULONG of 100 ns (`HnsPerMs` to the millisecond), and the truncation of their
  divisions.
- Bluetooth HFP stands for the three sideband profiles; the USB and A2DP code repeats
  its handlers. In `SidebandAdapter` the name of a filter is what `NameOf` makes of the
  interface's link, a hash in the code. In `SidebandDevice` all notification requests
  are allocated and filters are installed when the model begins. A request to open or to
  close the channel succeeds, or fails and changes nothing, or is granted and reported
  as failed all the same (it has a timeout, `BthhfpDevice.cpp:1424`). `stray` remembers
  that the channel is open after one of the last two; the code has no such variable,
  and no step depends on it.

## 3. Runs

| Run | Asks | Bounds, and why they are enough |
|---|---|---|
| `RenderPath` | A stream that plays and saves, is refused, stopped and restarted: is the cursor in its frame (`CursorInFrame`), is a work item never used twice (`ItemOwnedOnce`), does every used frame have a save (`UsedFrameHasSave`), is a stopped object quiet (`StoppedIsQuiescent`), do the runs of `ReadBytes` fit the frames until something is lost (`WritesFitFrames`)? | DMA buffer and frames of 2 bytes, 2 frames, 4 items, 2 workers, displacements of 1 to 3, 8 bytes, 2 sessions: wraps within a displacement, a ring that is gone round, left-overs after a loss, and all items busy but one. Writes above a frame are covered by the theorems only. |
| `SaveDataSaved` | Writes of one and two bytes that reach into no other frame in use (`FairSpec`, which is `FittingSpec` with fairness): is every byte saved (`StoppedSavedAll`), once (`SavedOnce`), does the ring implement `FrameLog` (`ImplementsLog`), is a frame with a save released in the end (`FrameReleased`), does the stop end (`DrainEnds`)? | 2 frames of 2 bytes, 7 bytes: nearly two laps, with left-overs at the end of the ring. 2 work items are too few for 2 frames and 2 workers (section 5), so that `SaveFrame` may find none and lose a frame. |
| `RenderPathRefused` | violation of `CopyOnlyToFreeFrame`, section 6 | 9 bytes, enough to come round after a refused write. |
| `StreamClock` | Are counted packets transferred (`PacketsTransferred`) and signalled (`CompletionSignalled`), is a paused stream quiet (`PausedIsQuiet`), is the end kept (`EndNotPassed`) and noticed (`EndSignalled`), are reads in order (`ReadsAdvance`)? | Two packets of 2 ms, DPCs up to 3 ms late, 4 ms of playing before the end is announced, 2 sessions, counters modulo 16: pauses in mid-packet, late DPCs, a wrap of the buffer and a restart all occur. The end of the stream may be at every position of the buffer; an end at the buffer's end is excluded, section 6. The interval is exact and nothing wraps; section 6 says what happens otherwise. |
| `NotificationWalk` | Events are registered and unregistered at any time while the DPC walks. Is the list sound (`ListOK`), does the walk end (`WalkEnds`) and set each event once (`WalkSignalsAll`) unless an event is unregistered meanwhile, and what strands the DPC in freed memory (`OnlyFreeStrandsCursor`)? | 2 events, 3 entries: insertions behind, at and before the cursor, removals ahead of it, behind it and under it, entries that are freed and used again, and stranded walks that read anything. |
| `KeywordFifo` | Is each entry in one place (`EntryInOnePlace`), the fifo consecutive (`FifoConsecutive`), the queue behind the capture (`QueueNotAhead`), empty at a start (`StartsEmpty`), read in order (`ReadsInOrder`), does the DPC end (`DpcEnds`)? | 2 packets in the pool and 4 of time: overruns, and an empty pool and fifo with the last entry in the reader's hand. |
| `AudioControls` | Is a non-negative sample scaled to its percentage (`PositiveScaled`), does a mute take hold within a chunk (`MuteTakesHold`)? | 2 streams, the extreme samples, volumes 0, 50, 100 and an invalid one. 5-bit samples and a 13-bit ULONG keep the proportion the arithmetic depends on (`AudioAssumption`); the theorems hold at the real widths. |
| `AudioNegative` | violation of `ScaleIsPercentage`, section 6 | one stream, samples -16, -1, 0, 1, 15, volume 50 |
| `AdapterPnp` | Does at most one device hold the adapter object (`OneAdapter`), is it counted right (`InstancesCounted`)? | 4 interchangeable devices, any PnP order, files that outlive a surprise removal, any allocation may fail. The state space is finite without a bound. |
| `AdapterDispatch` | violation of `AudioFilesReachPortClass`, section 6 | 3 devices |
| `SidebandTasks` | Hands-free interfaces that come and go: are references counted (`RefsCounted`), do registered filters belong to devices that run or are being served (`FiltersFollowDevice`), does the cache know what is registered (`CacheCurrent`), does a queued task have a worker (`TaskWillBeServed`), does a cleanup leave nothing (`CleanupComplete`)? | 2 interfaces, memory for 2 objects, one notification thread, one thread of the work item, one file open at a time; tasks, phases and failures are unbounded. Two interfaces let a removed device's memory and its tasks meet a new one. 2.5 million states. |
| `SidebandStreams` | Does `Stop` leave nothing pending (`QuietAfterStop`), is a request in one place (`RequestInOnePlace`), are streams counted (`StreamsCounted`), what may be left on an idle device (`SilentWhenIdle`), does a faulty interface's retry end (`NoEndlessRetry`)? | 1 request and 2 threads of the work item, the speaker and the microphone, one error tolerated: the request may complete, be collected and enqueue the work item again while a thread that sent it is still in its loop, so that both threads go for it. Requests meet only in the collection; any number of them is covered by the theorems. Requests to open and close the channel may fail at any time. 1 million states. |

`CHECK_DEADLOCK FALSE` is set because the systems may stop: a stream may be destroyed,
a client need not call again, a stopped device stays stopped, and the bounds on time and
bytes end the behaviours.

## 4. Fairness

Safety is checked of `Spec`, in the runs with liveness of `FairSpec`; fairness adds no
behaviour. What fairness assumes:

- `SaveData`: the system's worker threads run (`WF` of their steps), a KMUTEX is granted
  in turn, so a waiting worker is not overtaken for ever (`SF` of `LockFile`), and the
  stream, at DISPATCH_LEVEL or inside `SetState`, leaves the routine it is in. Nobody
  has to write or stop.
- `WaveRTStream`: time passes, an expired timer gets its DPC, and a call that began
  returns. Nothing makes the client run, pause or write.
- `NotificationList`, `KeywordDetector`: a loop of a DPC goes on, and a `GetReadPacket`
  that holds an entry returns it.
- `SidebandDevice`: an enqueued work item is run by a system worker thread, and each
  thread that runs it goes on (`WF` of its steps, for each thread). The driver below
  need not complete anything and no stream need run.

Bounds do not cut liveness short: `Tick` is not bounded once the end of the stream is
announced, and the other liveness properties concern work already begun.

## 5. Proofs

All theorems hold for every value of the constants that satisfies the module's named
assumption (sizes and counts are naturals, sets are finite, NULL is no object, link or
port); further premises are in the last column, each a named definition.

| Module | Theorem | States | Premise |
|---|---|---|---|
| `SaveDataProofs` | `TypeCorrect` | `Spec => []TypeOK` | |
| | `CursorCorrect` | `Spec => []CursorInFrame` | |
| | `ItemsOwnedOnce` | `Spec => []ItemOwnedOnce` | |
| | `UsedFrameSaved` | `Spec => []UsedFrameHasSave` | `EnoughItems` |
| | `StoppedQuiet` | `Spec => []StoppedIsQuiescent` | `EnoughItems` |
| | `StoppedIsSaved` | `FittingSpec => []StoppedSavedAll` | |
| | `SavedAtMostOnce` | `FittingSpec => [](sessions <= 1 => SavedOnce)` | |
| | `LogImplemented` | `FittingSpec => ImplementsLog`: CSaveData refines `FrameLog` | |
| `RenderPathProofs` | `StreamDrivesSaveData` | `RenderSpec => Spec`: the stream is one of CSaveData's writers | |
| | `RunsFitFrames` | `RenderSpec => []WritesFitFrames` | |
| | `StreamFramesSaved` | the three item invariants, of `RenderSpec` | `EnoughItems` |
| | `PlayedIsSaved` | `StoppedSavedAll` and `SavedOnce`, of `RenderSpec` | nothing lost, no restart |
| | `CopiesToFreeFrames` | `RenderSpec`'s steps satisfy `CopyToFree` | nothing lost, no restart |
| | `StreamIsLogged` | `RenderSpec`'s steps are steps of `FrameLog` | nothing lost, no restart |
| `WaveRTStreamProofs` | `PausedStaysQuiet` | `Spec => []PausedIsQuiet` | |
| | `CompletionsSignalled` | `Spec => CompletionSignalled` | |
| | `CountedIsTransferred` | `Spec => []PacketsTransferred` | `ExactInterval`, `PositionInTime` |
| | `EndIsKept` | `Spec => []EndNotPassed` | `EndsInBuffer`, `UpdatesWithinBuffer` |
| | `PacketsReadOnce` | `Spec => ReadsAdvance` | packet counter below `ULong` |
| | `ListIsKept` | `ListSpec => []ListOK` | |
| | `WalksSignalAll` | `ListSpec => WalkSignalsAll` | |
| | `CursorStrandedByFree` | `ListSpec => OnlyFreeStrandsCursor` | |
| `KeywordDetectorProofs` | `EntriesInOnePlace` | `Spec => []EntryInOnePlace` | `NoOverlap` |
| | `QueueIsConsecutive` | `Spec => []FifoConsecutive` | `NoOverlap` |
| | `CaptureStartsEmpty` | `Spec => []StartsEmpty` | `NoOverlap` |
| | `PacketsReadInOrder` | `Spec => ReadsInOrder` | `NoOverlap` |
| | `QueueBehindCapture` | `Spec => []QueueNotAhead` | `NoOverlap`, `Alone` |
| `AudioControlProofs` | `TypeCorrect` | `Spec => []TypeOK` | |
| | `PositiveIsScaled` | `Spec => []PositiveScaled` | |
| | `MuteHolds` | `Spec => []MuteTakesHold` | |
| `AdapterDriverProofs` | `OneAdapterHolds` | `Spec => []OneAdapter` | |
| | `InstancesAreCounted` | `Spec => []InstancesCounted` | |
| `SidebandAdapterProofs` | `TasksAreServed` | `Spec => []TaskWillBeServed` | |
| | `CleanupIsAlone` | no notification and no task runs beside the rest of a cleanup | |
| | `ReferencesAreCounted` | `Spec => []RefsCounted` | `OneThreadEach`, `NamesDistinct` |
| | `FiltersGoWithDevice` | `Spec => []FiltersFollowDevice` | `OneThreadEach`, `NamesDistinct` |
| | `CacheIsCurrent` | `Spec => []CacheCurrent` | `OneThreadEach`, `NamesDistinct` |
| | `CleanupLeavesNothing` | `Spec => []CleanupComplete` | `OneThreadEach`, `NamesDistinct` |
| `SidebandDeviceProofs` | `StopIsQuiet` | `Spec => []QuietAfterStop` | |
| | `RequestsInOnePlace` | `Spec => []RequestInOnePlace` | |
| | `StreamsAreCounted` | `Spec => []StreamsCounted` | |
| | `IdleIsSilent` | `Spec => []SilentWhenIdle` | |

The premises:

- `EnoughItems`: there are at least as many work items as frames and worker threads
  together. It is a fact about the numbers: `DEFAULT_FRAME_COUNT` is 4
  (`savedata.cpp:48`) and `MAX_WORKER_ITEM_COUNT` is 8 (`savedata.cpp:58`), so the
  results hold of the code as long as at most 4 system worker threads run the callback
  of one stream at a time. With fewer items `SaveFrame` may find none, and the frame
  stays marked used for ever (the mutant `Bug_PollFrameCount`).
- `FittingSpec` instead of `Spec`: no write reaches past its frame into another one in
  use. `WriteData` does not see to that itself (`savedata.cpp:1013`), and it is the only
  thing the contents of the file depend on: `StoppedIsSaved` needs no work items to
  spare, because a frame that finds none is lost and said to be. For the stream it is
  not assumed but proved (`CopiesToFreeFrames`), up to the first loss or restart, from
  where `RenderPathRefused` shows the opposite. The conditions of the `RenderPathProofs`
  are part of the formulas (`lost = {} /\ sessions <= 1 => ...`), not assumptions about
  behaviours.
- `ExactInterval`: the interval of the timer is the duration of a packet, so no division
  cut anything off. `PositionInTime`: the bytes due between two updates of the position,
  and the time between them in 100 ns, fit a ULONG. Without either the code violates the property, section 6.
- `EndsInBuffer`: the end of the stream is a position of the buffer, so not its size.
  `UpdatesWithinBuffer`: an update of the position is due for fewer bytes than the
  buffer has, or it would go round the end; once the end is known the DPC updates it at
  every expiry of its timer. Without the first the code violates the property, section 6.
- The packet number of `GetReadPacket` is a ULONG that starts over after 2^32 packets,
  and with it the order of packets.
- `WalksSignalAll` has no premise, but its formula speaks of walks that no
  `UnregisterNotificationEvent` overlapped (`~overlapped`). The code does not exclude the
  others (`minwavertstream.cpp:699` takes no lock), and an entry freed under the DPC may
  hold anything (`CursorOnEntry`, section 6), so that nothing can be said of a walk that
  meets one. `ListIsKept` and `CursorStrandedByFree` are about them too: the list
  survives, and the one step that strands the DPC is named.
- `NoOverlap`: a reset does not overlap the DPC. `Alone`: no sibling stream drives
  `DpcRoutine`. Without them the code violates the properties, section 6.
- `OneThreadEach`: one thread at a time delivers notifications and one runs the work
  item's callback. `NamesDistinct`: two links have different hashes. Without any of the
  three the code violates `FiltersFollowDevice` or `RefsCounted`, section 6. What holds
  without them, `TasksAreServed` and `CleanupIsAlone`, is proved without them.

Why the properties are not inductive, and what the invariants add:

- `CursorInFrame`: a left over waits between two steps. `CursorInv` adds that it exists
  only after the ring wrapped, with the cursor at 0 and the left over smaller than a
  frame.
- `ItemOwnedOnce` follows from `ItemInv`: each phase of a work item, from the poll to the
  signal, is where its event and its owner say it is.
- `UsedFrameHasSave` and `StoppedIsQuiescent` rest on an accounting argument on top of
  it, `ServedInv`. While the stream runs, a frame has at most one work item that has
  still to release it, and the frame about to be saved has none (`FrameOneItem`). A busy
  item belongs therefore to another frame, or to a worker that has released its frame
  and not yet signalled: at most `FrameCount - 1 + WorkerCount` are busy when
  `SaveFrame` starts to poll, and one is done (`SomeItemDone`, a pigeonhole argument
  over cardinalities). An item that is done stays done until the stream itself takes it,
  so the poll always has one ahead of it (`DoneAhead`).
- The contents of the file, `BytesInv`: every number given out is in the file, at an
  offset that is still to be saved (`Live`: in the part a work item has not read yet, in
  the part about to be given to one, or in the current frame before the cursor), or in
  `lost` (`Accounted`); no number is at two such offsets
  (`Distinct`), and before a restart none is both there and in the file (`Once`). What is
  saved from where is `PartInv`: no part on its way to the file is empty (`NonEmpty`), no
  two are of one frame (`PartsApart`), and a current frame that is partly filled is not
  in use (`PartialFree`). A write that reaches into a used frame would break `Accounted`,
  which is why `FittingSpec` is needed, and only there.
- `ImplementsLog`: a chunk of the log is the bytes of one part in flight. Parts that are
  apart hold different numbers, so they are different chunks (`ChunksAreApart`), and none
  changes until it is appended (`ChunksKept`); there is room for one more because each is
  in a frame of its own (`RoomForChunk`). Each action then is a step of the log or leaves
  its variables alone (`LogStep`).
- `PlayedIsSaved` and the others of `RenderPathProofs`: until a loss the runs fit the
  frames (`AlignedInv`), so a run stays in a frame whose flag `WriteData` tests
  (`RunToFree`), and `BytesInv` is preserved as in `SaveDataProofs` (`WholeInv`).
- `WritesFitFrames` is a matter of arithmetic: as long as nothing was lost, cursor and
  DMA position agree modulo the DMA buffer. `AlignedInv` says that the cursor is a
  number of whole DMA buffers plus the DMA position, so a run that ends in the DMA
  buffer ends in the frame. That `RenderSpec` implies `Spec` brings in what is proved of
  `SaveData`.
- `PausedIsQuiet` needs `QuietInv`: where in `SetState` the thread is when timer and DPC
  are still allowed, and that both exist only with an interval above 0.
- `PacketsTransferred`: `TimeInv` compares the time the DPC has counted or carries with
  the time the position accounts for, `Rate * Elapsed <= Played`, through late DPCs,
  pauses that carry time over, and position updates in between. When the DPC counts it
  has just updated the position, so nothing is due and the counted packets are among the
  bytes played (`CountedIsPlayed`).
- `EndNotPassed`: `EndInv` says that what is left is exactly the way from the position to
  the end of the stream, forwards or around the buffer, and that the flag of the last
  buffer means that the position is there. `StopsAtEnd` follows `ByteDisplacement`
  through its three cases. `ReadsAdvance`: `ReadInv` says that the packet read last was
  completed, unless none was since STOP; without a completed packet the number available
  is the one that means none (`AvailableNumber`).
- `ListOK` and the walk: `Ring` is what the links reach from the head. `IsRing` says that
  they come back to the head and that no two places link to the same. From that alone,
  and without counting, follow what linking a last entry and unlinking any entry do to
  the ring (`RingInsert`, `RingRemove`), that the head is reached from everywhere
  (`HeadReached`) and that a place is not reached from its successor (`RingGoesOn`).
  `WalkInv` then says that the entries ahead of the cursor are those not yet signalled.
- `OnlyFreeStrandsCursor`: `HeldInv` says that every allocated entry is on the list or in
  the client's hand, and that an entry taken off the list still leads to it. So from
  any place that is not freed, the next one is not freed either (`LinkedIsValid`).
- The keyword detector's fifo: `PlaceInv` places each entry by indices of the two lists
  and the two hands that may hold it, `HolderInv` says at which steps a hand holds one,
  and `NumberInv` numbers the fifo backwards from the last queued packet, with what was
  read below it. `CaptureInv` adds, for a DPC between the computation of how much to
  queue and the last packet queued, that the rest fits the capture.
- `PositiveScaled`: `NotScaledYet` says what a chunk is before it is scaled;
  `ProductBounds` and `ScalePositive` show that the unsigned product of a non-negative
  sample and a volume up to 100 does not wrap and its hundredth is not clamped. `Faded` counts the chunks heard
  since a mute by where the stream is in `WriteData`.
- `OneAdapter` and `InstancesCounted` are one invariant: the counter is 1 when there is a
  holder, one that is being created, or a leak (`CounterExact`); `ObjectHeld` says that
  only `m_pCommon` and an open file keep the object, so that its release counts out the
  instance it counted in.
- `TaskWillBeServed`: `OrderInv` orders handle, cleanup flag, phases and work item, so
  that a task is queued only when the enqueue that follows is still to come or allowed.
  Its types are those of some set of objects (`TypeInv`), since the sequences of tasks
  and devices must be typed and the constants need not be disjoint.
- The devices (`DeviceInv`): an object is in the list, in a start task, in a stop task,
  with the notification thread or with the worker, and in each place at most once; the
  start waits before the stop, and a place excludes those that come later (`PlaceInv`).
  So the references can be counted by places (`RefsInv`; `HeldIsCount` relates that to
  the cardinalities of `Held`). A filter pair is installed under names that must be free.
  That is the content of `LinkInv`: of two live devices of one link, the stop of one is
  still to come before the start of the other, so the older one's filters are gone when
  the younger one's are installed. `FilterInv` then says that what is registered is what
  live, started devices point to, and `OwnInv` when memory is free. An interface that
  goes, comes and goes again before the work item runs is the case that needs all of
  them.
- `QuietAfterStop`: `QuietInv` follows the purge of the target. `RequestInOnePlace`:
  `PlaceInv` ties the collection, read by index (`Collects`), and the hands of the work
  item's threads (`Holds`) to where each request says it is.
  `SilentWhenIdle`: at most one stream opens at a time (`OneOpener`), and an open
  channel, a status and a pending request each have a stream that will undo them, unless
  a request failed or completed late (`ChannelInv`). `StreamsCounted` is inductive with
  the types alone.

Only model-checked, and why: liveness (`FrameReleased`, `DrainEnds`, `EndSignalled`,
`WalkEnds`, `DpcEnds`, `NoEndlessRetry`), which is outside the prover's reach, and the
violations of section 6. Every other property of a passing run is also stated by a
theorem. The other way round, `TypeOK` of `SaveData` and of `AudioControl` is proved and
in no run.

## 6. Deviations

Three are shown by runs of this project and listed under `findings`:

| Run | What the code does |
|---|---|
| `RenderPathRefused` | A write refused because its frame is in use leaves the cursor behind the DMA position for good (`savedata.cpp:948`). Later writes are not aligned with frames, and one that reaches past its frame is copied into the next without a look at that frame's flag (`:1013`). |
| `AudioNegative` | `(LONG)pSample[i] * vol` is unsigned (`savedata.cpp:986`): every negative sample becomes 32767 at any volume above 0. |
| `AdapterDispatch` | Creating the control device replaces the CREATE, CLOSE and DEVICE_CONTROL routines of the whole driver object (`AudioControlCore.cpp:43`). |

The models show more; each is reproduced by changing a run as stated. They are why some
properties carry a condition.

| Property | Change | What the code does |
|---|---|---|
| `SavedOnce` | `SaveDataSaved` with `MaxSessions = 2` | A partial frame saved by a stop is saved again by the next session: the cursor stays (`savedata.cpp:894-900`). |
| `ImplementsLog`, `StoppedSavedAll` | `SaveDataSaved` of `Spec` with `Fairness` instead of `FairSpec` | A write that crosses into the next frame overwrites what is in flight since the lap before (`savedata.cpp:1013`), the defect of `RenderPathRefused` without a refusal. |
| `PacketsTransferred` | without its premise `sessions <= 1` | STOP does not clear the time a pause carried over (`minwavertstream.cpp:1198-1210`, `1281`), so the first packet after a restart is counted early. |
| `PacketsTransferred` | `StreamClock` with `Rate = 4` | The interval is truncated to whole milliseconds (`:596-597`), and the counter runs ahead of the position. |
| `PacketsTransferred` | `StreamClock` with `ULong = 13`, `HnsPerMs = 1`, `MaxLag = 5`, `MaxTicks = 6` | The bytes due are a ULONG product (`:1422`): a position left alone for too long loses what wrapped. At 192,000 bytes per second that is 22 seconds. |
| `PacketsTransferred` | `StreamClock` with `HnsPerMs = 6` | The time since the last update is cast to a ULONG of 100 ns (`:1410`): a position left alone for 429 seconds loses what wrapped. |
| `EndNotPassed` | `StreamClock` with `EosPositions = {6}` | An end at the very end of the buffer is compared with a position that is always below it (`:1455`). |
| `WrittenNotInTransfer` | as a property of `StreamClock` | `SetWritePacket` uses the packet counter after it released the lock (`:1032-1053`). |
| `CompletionSignalled` | without its premise on `pc` | The timer is set before `m_KsState` (`:1353`, `:1366`); a DPC in between counts without signalling. |
| `CursorOnEntry` | as an invariant of `NotificationWalk` | An event may be unregistered and freed under the DPC (`:699`). |
| `StartsEmpty` | `KeywordFifo` with `ResetsOverlap = TRUE` | The pause resets the fifo before it stops the DPC (`:1260-1267`). |
| `QueueNotAhead` | `KeywordFifo` with `SiblingRuns = TRUE` | A detection moves the start of a capture that already queued packets (`minwavert.cpp:3779`). |
| `DetectionStartsCapture` | as an invariant of `KeywordFifo` | Arming starts the capture and the detection starts it again, against the assertion at `minwavert.cpp:3747`. |
| `DisarmKeepsOther` | as a property of `KeywordFifo` | `SetArmed(FALSE)` tests whether a detector *was* armed, not whether one still is (`minwavert.cpp:3662`), so disarming one of two stops the capture of the other. |
| `MutedChunkSilent` | as a property of `AudioNegative` | Only the first part of a chunk is muted (`savedata.cpp:973`). |
| `EqCoeffsApplied` | as a property of `AudioNegative` | Coefficients go to a table the data path does not use; the one it uses stays zero. |
| `UnloadReleases`, `ControlReachable` | as invariants of `AdapterPnp` | The unload routine is replaced too (`AudioControlCore.cpp:48`); a second `AddDevice` deletes the link in use (`:22`). |
| `FiltersFollowDevice` | `SidebandTasks` with `WorkerThreads = {w1, w2}` | The work item is created with `AutomaticSerialization = FALSE` (`common.cpp:3327`); two callbacks may run the start and the stop of one device at the same time. |
| `RefsCounted`, `FiltersFollowDevice` | `SidebandTasks` with `Notifiers = {n1, n2}` | Two removals of one interface at a time both release what the list holds. |
| `FiltersFollowDevice` | `SidebandTasks` with a constant `NameOf` | Filter names come from a 32-bit hash of the link (`BthhfpDevice.cpp:3296`); two devices with one hash share a filter. |
| `DestroyedNotRunning` | as a property of `SidebandTasks` | A device may be destroyed while its state still says running, against the assertion at `BthhfpDevice.cpp:530`. |
| `RequestReadyWhenIdle` | as an invariant of `SidebandStreams` | A suspend may leave the status request in use, because the event it waits for may be that of another start (`BthhfpDevice.cpp:2656`). |
| `UndoneWasOnly`, `StartedHasChannel` | as properties of `SidebandStreams` | A start that fails after a second one counted itself is not the only one, against the assertion at `BthhfpDevice.cpp:1035`; the second has no channel. |
| `ClosedWhenIdle` | as an invariant of `SidebandStreams` | A channel whose close request failed stays open on an idle device: `StreamSuspend` passes the failure on (`BthhfpDevice.cpp:1070`), a start that is undone ignores it (`:1040`), `SetState(KSSTATE_PAUSE)` only logs it (`minwavertstream.cpp:1297-1303`), and nobody tries again before the next stream. So does one that was opened by a request that timed out. A status request that outlives its suspend (`RequestReadyWhenIdle`) may set the status of an idle device. |

`InstancesCounted` names the instance that `NewAdapterCommon` leaks when its allocation
fails (`common.cpp:587-602`) instead of excluding the failure.

Read in the code beside the models, and not checked by a run:

- `Suspend` may wait for as long as the other stream runs, for the reason given at
  `RequestReadyWhenIdle`.
- The Bluetooth and the USB work item share the subdevice cache, which has no lock; both
  profiles are compiled (`TabletAudioSample.vcxproj:199`).
- A removal whose stop task cannot be allocated leaves a dead device in the list. A
  break out of the notification work item leaves collected requests behind
  (`BthhfpDevice.cpp:1639`, `1658`). The destructor does not delete
  `m_NRECDisableStatusReq`.
- `InstallEndpointFilters` reports success when the topology filter failed and the wave
  filter did not, and the status of a failed caching is overwritten by the connection's.
- `SetContentId` remembers the new content id as the old one
  (`minwavertstream.cpp:1587`), `UpdateDrmRights` does nothing when the last stream
  closes, and a loopback stream opened after `SetLoopbackProtection` is not muted.

## 7. Not modelled, and what is left

- **Other samples of the repository** (network, storage, USB, ...): the upstream
  collection, unchanged; nothing in the audio driver calls them. They are nearly all of
  the repository's lines, which is why the map covers a small share of them.
- **Filter driver** (`AudioFilterDriver`, `AudioVolumeProcessor.cpp`): a prototype for
  one USB device that is not on the stack of the SysVAD devices. It allocates a KS
  header without a KS device, and its `DriverEntry` overwrites the routines KS installed,
  so what START, CREATE and an IOCTL do is decided inside KS, which the repository does
  not hold. From reading: REMOVE is passed down before what it released is, and
  `SetupPins` zeroes pin descriptors that all devices share on every START.
- **WaveRT miniport**: pin counts and content ids are changed by the port class one call
  at a time, in a few lines that a unit test reaches; the rest parses properties over
  constant tables.
- **USB headset and A2DP**: the same handlers as Bluetooth HFP with other requests.
- **Topology miniports, mixer, audio modules, KS helpers**: getters and setters.
  **Tone generator, APOs**: signal processing. **Keyword adapter, test clients**: user
  mode.
- **Within modelled components**: format changes, presentation position and audio engine
  volume of a stream, power management, the static endpoints in `StartDevice`, the
  IOCTLs that only read back.

Left to do, in this order: the start of the static endpoints, through
`EndpointFilters`, in `AdapterDriver`; USB and Bluetooth together on one subdevice
cache; theorems about more than one notification thread, as far as the code allows.
