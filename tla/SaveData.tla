------------------------------ MODULE SaveData ------------------------------
(***************************************************************************)
(* CSaveData (src/audio/sysvad/savedata.cpp): the ring of frames that one  *)
(* render stream fills and that system worker threads save to a wave file. *)
(*                                                                         *)
(* Actors: the stream (WriteData at DISPATCH_LEVEL under the position spin *)
(* lock, WaitAllWorkItems in the ACQUIRE -> STOP transition, so never two  *)
(* of these calls at a time) and the system worker threads that run        *)
(* SaveFrameWorkerCallback for queued work items.  A step is what one      *)
(* actor does between two points at which the other actors can tell the    *)
(* difference: taking or releasing a lock, storing a frame flag, setting   *)
(* or polling an event, copying into the ring, writing the file.           *)
(*                                                                         *)
(* Data: a byte is numbered by its place in what the stream offered, so    *)
(* the ring and the file show which bytes they hold.                       *)
(***************************************************************************)
EXTENDS Integers, Sequences

CONSTANTS
  FrameCount,   \* DEFAULT_FRAME_COUNT (4 in the code)
  ItemCount,    \* MAX_WORKER_ITEM_COUNT (8 in the code)
  WorkerCount,  \* system worker threads that may run the callback at a time
  FrameSizes,   \* sizes SetMaxWriteSize may be called with, and the default
  WriteSizes,   \* byte counts WriteData may be called with
  MaxOffered,   \* bound: bytes offered to WriteData in a behaviour
  MaxSessions   \* bound: times the stream leaves KSSTATE_STOP

ASSUME ConstantsAssumption ==
  /\ FrameCount \in Nat \ {0}
  /\ ItemCount \in Nat \ {0}
  /\ WorkerCount \in Nat \ {0}
  /\ FrameSizes \subseteq Nat \ {0}
  /\ WriteSizes \subseteq Nat
  /\ MaxOffered \in Nat
  /\ MaxSessions \in Nat

VARIABLES
  frameSize,    \* m_ulFrameSize; m_ulBufferSize is always FrameCount times it
  bufferOffset, \* m_ulBufferOffset
  frameIndex,   \* m_ulFrameIndex
  frameUsed,    \* m_fFrameUsed
  buffer,       \* m_pDataBuffer: the number of the byte at each offset
  disabled,     \* m_fWriteDisabled
  pc,           \* where the stream is in WriteData / WaitAllWorkItems
  rest,         \* left-over bytes of the current WriteData still to copy
  saveFrame,    \* the frame number argument of the SaveFrame under way
  saveSize,     \* the data size argument of the SaveFrame under way
  scan,         \* i, the work item GetNewWorkItem polls next
  item,         \* m_pWorkItems: ulFrameNo and ulDataSize of each work item
  done,         \* EventDone of each work item
  queue,        \* the system's critical work queue
  wpc,          \* where each worker thread is in SaveFrameWorkerCallback
  witem,        \* pParam of each worker thread
  fileSync,     \* m_FileSync: the worker thread that owns it, 0 for none
  file,         \* the data part of the wave file, up to m_pFilePtr
  offered,      \* history: bytes handed to WriteData so far
  lost,         \* history: bytes of a refused write, of a failed file write,
                \* or of a frame for which there was no work item
  sessions      \* history: times the stream left KSSTATE_STOP

streamVars == <<frameSize, bufferOffset, frameIndex, disabled, rest, offered,
                sessions>>
saveVars   == <<saveFrame, saveSize, scan>>
workerVars == <<queue, wpc, witem, fileSync, file>>
vars == <<frameSize, bufferOffset, frameIndex, frameUsed, buffer, disabled, pc,
          rest, saveFrame, saveSize, scan, item, done, queue, wpc, witem,
          fileSync, file, offered, lost, sessions>>

Frames  == 0 .. FrameCount - 1
Items   == 0 .. ItemCount - 1
Workers == 1 .. WorkerCount
BufferSize == FrameCount * frameSize
Offsets    == 0 .. BufferSize - 1

SmallerOf(a, b) == IF a <= b THEN a ELSE b

Init ==
  /\ frameSize \in FrameSizes
  /\ bufferOffset = 0
  /\ frameIndex = 0
  /\ frameUsed = [f \in Frames |-> FALSE]
  /\ buffer = [k \in Offsets |-> 0]
  /\ disabled = FALSE
  /\ pc = "Stopped"
  /\ rest = 0
  /\ saveFrame = 0
  /\ saveSize = 0
  /\ scan = 0
  /\ item = [i \in Items |-> [frame |-> 0, size |-> 0]]
  /\ done = [i \in Items |-> TRUE]
  /\ queue = <<>>
  /\ wpc = [w \in Workers |-> "Idle"]
  /\ witem = [w \in Workers |-> 0]
  /\ fileSync = 0
  /\ file = <<>>
  /\ offered = 0
  /\ lost = {}
  /\ sessions = 0

-----------------------------------------------------------------------------
(***************************************************************************)
(* The stream.                                                             *)
(***************************************************************************)

\* The port allocates the cyclic buffer once, before the stream first runs.
SetMaxWriteSize(size) ==
  /\ pc = "Stopped"
  /\ sessions = 0
  /\ frameSize' = size
  /\ buffer' = [k \in 0 .. FrameCount * size - 1 |-> 0]
  /\ UNCHANGED <<bufferOffset, frameIndex, frameUsed, disabled, pc, rest, item,
                 done, offered, lost, sessions, saveVars, workerVars>>

\* CMiniportWaveRTStream::SetState(KSSTATE_ACQUIRE) from KSSTATE_STOP.
LeaveStop ==
  /\ pc = "Stopped"
  /\ sessions < MaxSessions
  /\ sessions' = sessions + 1
  /\ pc' = "Ready"
  /\ UNCHANGED <<frameSize, bufferOffset, frameIndex, frameUsed, buffer,
                 disabled, rest, item, done, offered, lost, saveVars,
                 workerVars>>

Disable(fDisable) ==
  /\ pc # "Destroyed"
  /\ disabled' = fDisable
  /\ UNCHANGED <<frameSize, bufferOffset, frameIndex, frameUsed, buffer, pc,
                 rest, item, done, offered, lost, sessions, saveVars,
                 workerVars>>

\* The bytes numbered first, first + 1, ... land at offset and after it.
Copied(offset, count, first) ==
  [k \in Offsets |-> IF offset <= k /\ k < offset + count
                     THEN first + (k - offset)
                     ELSE buffer[k]]

\* Under m_FrameInUseSpinLock: the current frame may be written.
FrameAvailable == ~frameUsed[frameIndex]

\* "The logic below assumes that write size is <= than frame size."
CutToFrame(ulByteCount) == SmallerOf(ulByteCount, frameSize)

\* A bug to be caught: the frame index does not wrap with the ring.
Bug_NextFrameUnwrapped == frameIndex + 1

NextFrame == (frameIndex + 1) % FrameCount

\* Writing is disabled, there is nothing to write, or the frame is in use.
WriteDropped(count) ==
  /\ pc = "Ready"
  /\ offered + count <= MaxOffered
  /\ disabled \/ count = 0 \/ ~FrameAvailable
  /\ offered' = offered + count
  /\ lost' = lost \union (offered + 1 .. offered + count)
  /\ UNCHANGED <<frameSize, bufferOffset, frameIndex, frameUsed, buffer,
                 disabled, pc, rest, sessions, item, done, saveVars, workerVars>>

\* WriteData up to the test of the left over.  A count above the frame size
\* is cut to it; what is cut is never seen again and gets no number.
WriteData(ulByteCount) ==
  /\ pc = "Ready"
  /\ offered + ulByteCount <= MaxOffered
  /\ ~disabled
  /\ ulByteCount # 0
  /\ FrameAvailable
  /\ LET count == CutToFrame(ulByteCount)
         written == SmallerOf(count, BufferSize - bufferOffset)
         end == bufferOffset + written
         fSaveFrame == \/ end >= (frameIndex + 1) * frameSize
                       \/ end = BufferSize
     IN /\ buffer' = Copied(bufferOffset, written, offered + 1)
        /\ bufferOffset' = IF end = BufferSize THEN 0 ELSE end
        /\ offered' = offered + count
        /\ rest' = count - written
        /\ IF fSaveFrame
           THEN /\ frameUsed' = [frameUsed EXCEPT ![frameIndex] = TRUE]
                /\ saveFrame' = frameIndex
                /\ saveSize' = frameSize
                /\ frameIndex' = NextFrame
                /\ pc' = IF count # written THEN "Rest" ELSE "Scan"
           ELSE /\ UNCHANGED <<frameUsed, saveFrame, saveSize, frameIndex>>
                /\ pc' = IF count # written THEN "Rest" ELSE "Ready"
  /\ UNCHANGED <<frameSize, disabled, sessions, scan, item, done, lost,
                 workerVars>>

\* The left over goes to the next frame if that frame is available.  There is
\* a left over only when the ring wrapped, and then fSaveFrame holds.
WriteRest ==
  /\ pc = "Rest"
  /\ IF FrameAvailable
     THEN /\ buffer' = Copied(bufferOffset, rest, offered - rest + 1)
          /\ bufferOffset' = bufferOffset + rest
          /\ lost' = lost
     ELSE /\ lost' = lost \union (offered - rest + 1 .. offered)
          /\ UNCHANGED <<buffer, bufferOffset>>
  /\ rest' = 0
  /\ pc' = "Scan"
  /\ UNCHANGED <<frameSize, frameIndex, frameUsed, disabled, offered, sessions,
                 item, done, saveVars, workerVars>>

\* A bug to be caught: the last, partly filled frame is forgotten.
Bug_PartialForgotten == FALSE

\* There is a last, partly filled frame.
PartialFrame == bufferOffset > frameIndex * frameSize

\* A bug to be caught: the partly filled frame is saved as if it were full.
Bug_PartialSizeFull == frameSize

PartialSize == bufferOffset - frameIndex * frameSize

\* The partial frame, if any, is handed to SaveFrame before the waits.
WaitAllWorkItems ==
  /\ pc = "Ready"
  /\ IF PartialFrame
     THEN /\ saveFrame' = frameIndex
          /\ saveSize' = PartialSize
          /\ pc' = "DrainScan"
     ELSE /\ UNCHANGED <<saveFrame, saveSize>>
          /\ pc' = "Drain"
  /\ UNCHANGED <<frameUsed, buffer, scan, item, done, lost, streamVars,
                 workerVars>>

\* A bug to be caught: the loop over the events starts at 1.
Bug_AwaitedFromOne == Items \ {0}

\* The work items whose events are waited for.
Awaited == Items

\* Every EventDone has been waited for: the stream is in KSSTATE_STOP.
AllItemsDone ==
  /\ pc = "Drain"
  /\ \A i \in Awaited : done[i]
  /\ pc' = "Stopped"
  /\ UNCHANGED <<frameUsed, buffer, item, done, lost, streamVars, saveVars,
                 workerVars>>

\* A bug to be caught: only one work item per frame is polled.
Bug_PollFrameCount == FrameCount

\* How many work items GetNewWorkItem polls.
PollCount == ItemCount

\* A bug to be caught: the result of the poll is ignored.
Bug_PollIgnored == TRUE

\* KeWaitForSingleObject with a zero timeout on the item's EventDone.
ItemDone == done[scan]

\* Where SaveFrame returns to.
AfterSaveFrame == IF pc = "Scan" THEN "Ready" ELSE "Drain"

\* GetNewWorkItem finds item scan done, and SaveFrame queues it.
TakeItem ==
  /\ pc \in {"Scan", "DrainScan"}
  /\ scan < PollCount
  /\ ItemDone
  /\ done' = [done EXCEPT ![scan] = FALSE]
  /\ item' = [item EXCEPT ![scan] = [frame |-> saveFrame, size |-> saveSize]]
  /\ queue' = Append(queue, scan)
  /\ scan' = 0
  /\ pc' = AfterSaveFrame
  /\ UNCHANGED <<frameUsed, buffer, saveFrame, saveSize, wpc, witem, fileSync,
                 file, lost, streamVars>>

\* GetNewWorkItem finds item scan busy and polls the next one.
SkipItem ==
  /\ pc \in {"Scan", "DrainScan"}
  /\ scan < PollCount
  /\ ~ItemDone
  /\ scan' = scan + 1
  /\ UNCHANGED <<frameUsed, buffer, pc, saveFrame, saveSize, item, done, lost,
                 streamVars, workerVars>>

\* The part of the ring that SaveFrame is asked to save.
ToSave == {k \in Offsets : /\ saveFrame * frameSize <= k
                          /\ k < saveFrame * frameSize + saveSize}

\* GetNewWorkItem returns NULL: SaveFrame does nothing, the frame is lost.
NoItem ==
  /\ pc \in {"Scan", "DrainScan"}
  /\ scan = PollCount
  /\ scan' = 0
  /\ pc' = AfterSaveFrame
  /\ lost' = lost \union {buffer[k] : k \in ToSave}
  /\ UNCHANGED <<frameUsed, buffer, saveFrame, saveSize, item, done,
                 streamVars, workerVars>>

\* ~CSaveData: frees the work items and the ring, rewrites the wave header.
Destroy ==
  /\ pc = "Stopped"
  /\ fileSync = 0
  /\ pc' = "Destroyed"
  /\ UNCHANGED <<frameUsed, buffer, item, done, lost, streamVars, saveVars,
                 workerVars>>

-----------------------------------------------------------------------------
(***************************************************************************)
(* The worker threads: SaveFrameWorkerCallback.                            *)
(***************************************************************************)

\* A system worker thread takes the oldest work item off the queue.
Dequeue(w) ==
  /\ wpc[w] = "Idle"
  /\ queue # <<>>
  /\ witem' = [witem EXCEPT ![w] = Head(queue)]
  /\ queue' = Tail(queue)
  /\ wpc' = [wpc EXCEPT ![w] = "Lock"]
  /\ UNCHANGED <<frameUsed, buffer, pc, item, done, fileSync, file, lost,
                 streamVars, saveVars>>

\* A bug to be caught: the frame is released before it is read.
Bug_LockFileReleasing(w) ==
  /\ wpc[w] = "Lock"
  /\ fileSync = 0
  /\ fileSync' = w
  /\ wpc' = [wpc EXCEPT ![w] = "Write"]
  /\ frameUsed' = [frameUsed EXCEPT ![item[witem[w]].frame] = FALSE]
  /\ UNCHANGED <<buffer, pc, item, done, queue, witem, file, lost, streamVars,
                 saveVars>>

\* KeWaitForSingleObject on m_FileSync.
LockFile(w) ==
  /\ wpc[w] = "Lock"
  /\ fileSync = 0
  /\ fileSync' = w
  /\ wpc' = [wpc EXCEPT ![w] = "Write"]
  /\ UNCHANGED <<frameUsed, buffer, pc, item, done, queue, witem, file, lost,
                 streamVars, saveVars>>

\* What the ring holds of the frame part that work item i describes.
FrameData(i) ==
  [k \in 1 .. item[i].size |-> buffer[item[i].frame * frameSize + k - 1]]

\* FileOpen, FileWrite and FileClose; opening or writing may fail, and then
\* neither the file nor m_pFilePtr changes and the frame is lost.
WriteFrame(w) ==
  /\ wpc[w] = "Write"
  /\ \/ /\ file' = file \o FrameData(witem[w])
        /\ lost' = lost
     \/ /\ file' = file
        /\ lost' = lost \union {FrameData(witem[w])[k] :
                                 k \in DOMAIN FrameData(witem[w])}
  /\ wpc' = [wpc EXCEPT ![w] = "Release"]
  /\ UNCHANGED <<frameUsed, buffer, pc, item, done, queue, witem, fileSync,
                 streamVars, saveVars>>

\* A bug to be caught: the file mutex is not released.
Bug_MutexKept(w) ==
  /\ wpc[w] = "Release"
  /\ frameUsed' = [frameUsed EXCEPT ![item[witem[w]].frame] = FALSE]
  /\ wpc' = [wpc EXCEPT ![w] = "Signal"]
  /\ UNCHANGED <<buffer, pc, item, done, queue, witem, fileSync, file, lost,
                 streamVars, saveVars>>

\* The frame flag is cleared, then m_FileSync is released.
ReleaseFrame(w) ==
  /\ wpc[w] = "Release"
  /\ frameUsed' = [frameUsed EXCEPT ![item[witem[w]].frame] = FALSE]
  /\ fileSync' = 0
  /\ wpc' = [wpc EXCEPT ![w] = "Signal"]
  /\ UNCHANGED <<buffer, pc, item, done, queue, witem, file, lost, streamVars,
                 saveVars>>

\* KeSetEvent on EventDone; the callback returns.
SignalDone(w) ==
  /\ wpc[w] = "Signal"
  /\ done' = [done EXCEPT ![witem[w]] = TRUE]
  /\ wpc' = [wpc EXCEPT ![w] = "Idle"]
  /\ UNCHANGED <<frameUsed, buffer, pc, item, queue, witem, fileSync, file,
                 lost, streamVars, saveVars>>

-----------------------------------------------------------------------------
Stream ==
  \/ \E size \in FrameSizes : SetMaxWriteSize(size)
  \/ LeaveStop
  \/ \E fDisable \in BOOLEAN : Disable(fDisable)
  \/ \E n \in WriteSizes : WriteDropped(n)
  \/ \E n \in WriteSizes : WriteData(n)
  \/ WriteRest
  \/ WaitAllWorkItems
  \/ AllItemsDone
  \/ TakeItem
  \/ SkipItem
  \/ NoItem
  \/ Destroy

Worker(w) ==
  \/ Dequeue(w)
  \/ LockFile(w)
  \/ WriteFrame(w)
  \/ ReleaseFrame(w)
  \/ SignalDone(w)

Next == Stream \/ \E w \in Workers : Worker(w)

Spec == Init /\ [][Next]_vars

\* Threads run, a KMUTEX is granted in turn, and the stream leaves the
\* routines it is in; nobody has to start a write or a stop.
Fairness ==
  /\ WF_vars(WriteRest) /\ WF_vars(AllItemsDone)
  /\ WF_vars(TakeItem) /\ WF_vars(SkipItem) /\ WF_vars(NoItem)
  /\ \A w \in Workers :
       /\ WF_vars(Dequeue(w)) /\ SF_vars(LockFile(w))
       /\ WF_vars(WriteFrame(w)) /\ WF_vars(ReleaseFrame(w))
       /\ WF_vars(SignalDone(w))

\* A step copies only into frames that are not in use.
CopyToFree ==
  \A k \in Offsets : frameUsed[k \div frameSize] => buffer'[k] = buffer[k]

\* The steps of a stream whose writes reach into no frame that is in use:
\* WriteData itself tests the flag of the frame it begins in only.
FittingNext ==
  \/ \E size \in FrameSizes : SetMaxWriteSize(size)
  \/ LeaveStop
  \/ \E fDisable \in BOOLEAN : Disable(fDisable)
  \/ \E n \in WriteSizes : WriteDropped(n)
  \/ \E n \in WriteSizes : WriteData(n) /\ CopyToFree
  \/ WriteRest
  \/ WaitAllWorkItems
  \/ AllItemsDone
  \/ TakeItem
  \/ SkipItem
  \/ NoItem
  \/ Destroy
  \/ \E w \in Workers : Worker(w)

FittingSpec == Init /\ [][FittingNext]_vars

FairSpec == FittingSpec /\ Fairness

-----------------------------------------------------------------------------
(***************************************************************************)
(* Properties.                                                             *)
(***************************************************************************)

\* Every variable has its type.
TypeOK ==
  /\ frameSize \in FrameSizes
  /\ bufferOffset \in Nat
  /\ frameIndex \in Frames
  /\ frameUsed \in [Frames -> BOOLEAN]
  /\ buffer \in [Offsets -> Nat]
  /\ disabled \in BOOLEAN
  /\ pc \in {"Stopped", "Ready", "Rest", "Scan", "DrainScan", "Drain",
             "Destroyed"}
  /\ rest \in Nat
  /\ saveFrame \in Frames
  /\ saveSize \in Nat
  /\ scan \in 0 .. ItemCount
  /\ item \in [Items -> [frame : Frames, size : Nat]]
  /\ done \in [Items -> BOOLEAN]
  /\ queue \in Seq(Items)
  /\ wpc \in [Workers -> {"Idle", "Lock", "Write", "Release", "Signal"}]
  /\ witem \in [Workers -> Items]
  /\ fileSync \in 0 .. WorkerCount
  /\ file \in Seq(Nat)
  /\ offered \in Nat
  /\ lost \subseteq Nat
  /\ sessions \in Nat

\* The write cursor stays inside the current frame, so that no copy of
\* WriteData leaves the ring and "the current frame is full" is decided right,
\* whatever sizes are written and whatever is dropped.
CursorInFrame ==
  /\ frameIndex * frameSize <= bufferOffset
  /\ bufferOffset < (frameIndex + 1) * frameSize

\* A work item is with the queue / held by a worker thread.
Queued(i) == \E k \in 1 .. Len(queue) : queue[k] = i
Held(i)   == \E w \in Workers : wpc[w] # "Idle" /\ witem[w] = i

\* The item's frame is still to be read / to be released.
Unread(i) == \/ Queued(i)
             \/ \E w \in Workers : wpc[w] \in {"Lock", "Write"} /\ witem[w] = i
Unreleased(i) == \/ Unread(i)
                 \/ \E w \in Workers : wpc[w] = "Release" /\ witem[w] = i

\* No work item is ever with the queue or a worker twice, and its event is
\* unsignalled exactly as long as it is with one of them: IoQueueWorkItem is
\* never called for an item in use, and its parameters are not overwritten.
ItemOwnedOnce ==
  /\ \A i \in Items : ~done[i] <=> Queued(i) \/ Held(i)
  /\ \A k, l \in 1 .. Len(queue) : queue[k] = queue[l] => k = l
  /\ \A v, w \in Workers :
       wpc[v] # "Idle" /\ wpc[w] # "Idle" /\ witem[v] = witem[w] => v = w
  /\ \A i \in Items : ~(Queued(i) /\ Held(i))

\* A frame marked used is about to be saved or has a work item that will
\* release it.  If SaveFrame found no work item the flag would stay set and
\* the stream would never write past the frame again.
UsedFrameHasSave ==
  \A f \in Frames :
    frameUsed[f] => \/ pc \in {"Rest", "Scan"} /\ saveFrame = f
                    \/ \E i \in Items : Unreleased(i) /\ item[i].frame = f

\* "All write activity is done at this point (see acquire->stop stream
\* transition)": once stopped nothing is queued or running, no frame is in use.
StoppedIsQuiescent ==
  pc \in {"Stopped", "Destroyed"} =>
    /\ queue = <<>>
    /\ \A w \in Workers : wpc[w] = "Idle"
    /\ \A f \in Frames : ~frameUsed[f]

\* When the stream has stopped every byte it offered is in the file, except
\* those of a refused write, of a failed file write and of a frame for which
\* all work items were busy.
StoppedSavedAll ==
  pc \in {"Stopped", "Destroyed"} =>
    \A n \in 1 .. offered : n \in lost \/ \E k \in 1 .. Len(file) : file[k] = n

\* No byte is in the file twice.
SavedOnce == \A k, l \in 1 .. Len(file) : file[k] = file[l] => k = l

\* The ring and its work items implement the abstract log of chunks.
Log == INSTANCE FrameLog WITH
         Capacity <- FrameCount,
         pending  <- {FrameData(i) : i \in {j \in Items : Unread(j)}},
         log      <- file
ImplementsLog == Log!Spec

\* A frame that has a save is eventually released.
FrameReleased ==
  \A f \in Frames :
    (\E i \in Items : Unreleased(i) /\ item[i].frame = f) ~> ~frameUsed[f]

\* The stop transition does not wait for ever.
DrainEnds == pc = "Drain" ~> pc = "Stopped"
=============================================================================
