---------------------------- MODULE WaveRTStream ----------------------------
(***************************************************************************)
(* CMiniportWaveRTStream as a clock: the simulated DMA position, the       *)
(* packet counter, the notification timer and the state machine of the     *)
(* stream (src/audio/sysvad/EndpointsCommon/minwavertstream.cpp and the    *)
(* end of MiniportStreamAudioEngineNode.cpp).                              *)
(*                                                                         *)
(* Actors: a client (the port driver, which makes one SetState, packet or  *)
(* position-writing call at a time), any thread asking for a position, the *)
(* timer DPC TimerNotifyRT, and time.  What is done under m_PositionSpinLock*)
(* is one step; what SetState and SetWritePacket do outside it is cut into *)
(* the steps between which a DPC can run.                                  *)
(*                                                                         *)
(* The stream is one of a device without a sideband and not on the pin of  *)
(* the keyword detector, so those branches are never entered.  Time is in  *)
(* whole milliseconds, so the 100 ns remainder of UpdatePosition is 0.     *)
(***************************************************************************)
EXTENDS Integers

CONSTANTS
  DmaBufferSize,           \* m_ulDmaBufferSize
  NotificationsPerBuffer,  \* m_ulNotificationsPerBuffer
  Rate,                    \* m_ulDmaMovementRate, bytes per second
  Second,                  \* milliseconds in a second (1000 in the code)
  HnsPerMs,                \* 100 ns units in a millisecond (10000 in the code)
  ULong,                   \* 2^32: the number of values of a ULONG
  EosPositions,            \* bound: write positions given with end of stream
  MaxLag,                  \* bound: milliseconds a position update may be due
  MaxTicks,                \* bound: milliseconds until the end of the stream
  MaxSessions              \* bound: times the stream leaves KSSTATE_STOP

ASSUME StreamAssumption ==
  /\ DmaBufferSize \in Nat \ {0}
  /\ NotificationsPerBuffer \in Nat \ {0}
  /\ DmaBufferSize % NotificationsPerBuffer = 0
  /\ Rate \in Nat \ {0}
  /\ Second \in Nat \ {0}
  /\ HnsPerMs \in Nat \ {0}
  /\ ULong \in Nat \ {0}
  /\ EosPositions \subseteq 0 .. DmaBufferSize
  /\ MaxLag \in Nat
  /\ MaxTicks \in Nat
  /\ MaxSessions \in Nat

VARIABLES
  capture,             \* m_bCapture
  ksState,             \* m_KsState
  timer,               \* m_pNotificationTimer is set
  dpcQueued,           \* the timer expired and TimerNotifyRT has yet to run
  eventSet,            \* the notification event on m_NotificationList
  sinceDma,            \* milliseconds since m_ullDmaTimeStamp
  sinceDpc,            \* milliseconds since m_ullLastDPCTimeStamp
  dpcCarry,            \* m_hnsDPCTimeCarryForward, in milliseconds
  byteCarry,           \* m_byteDisplacementCarryForward
  position,            \* m_ullPlayPosition, always equal to m_ullWritePosition
  linearPosition,      \* m_ullLinearPosition
  packetCounter,       \* m_llPacketCounter
  lastOsReadPacket,    \* m_ulLastOsReadPacket
  lastOsWritePacket,   \* m_ulLastOsWritePacket
  currentWritePosition,\* m_ulCurrentWritePosition
  eosReceived,         \* m_bEoSReceived
  lastBufferRendered,  \* m_bLastBufferRendered
  pc,                  \* where the client is in SetState or SetWritePacket
  seenPacket,          \* currentPacket, the local of SetWritePacket, 0 outside
  eosLeft,             \* history: bytes left to the end-of-stream position
  ticks,               \* history: milliseconds the stream ran
  sessions             \* history: times the stream left KSSTATE_STOP

clockVars    == <<sinceDma, sinceDpc, dpcCarry, ticks>>
positionVars == <<byteCarry, position, linearPosition, eosLeft,
                  lastBufferRendered>>
packetVars   == <<capture, lastOsReadPacket, lastOsWritePacket>>
writeVars    == <<currentWritePosition, eosReceived>>
clientVars   == <<ksState, pc, seenPacket, sessions>>
timerVars    == <<timer, dpcQueued, eventSet>>
vars == <<clockVars, positionVars, packetCounter, packetVars, writeVars,
          clientVars, timerVars>>

STOP == 0
ACQUIRE == 1
PAUSE == 2
RUN == 3
KsStates == STOP .. RUN

ULongMax   == ULong - 1
PacketSize == DmaBufferSize \div NotificationsPerBuffer

\* AllocateBufferWithNotification: the duration of the buffer, then of a packet.
\* The product wraps, and both divisions may cut something off.
NotificationIntervalMs ==
  (((DmaBufferSize * Second) % ULong) \div Rate) \div NotificationsPerBuffer

SmallerOf(a, b) == IF a <= b THEN a ELSE b

Init ==
  /\ capture \in BOOLEAN
  /\ ksState = STOP
  /\ timer = FALSE
  /\ dpcQueued = FALSE
  /\ eventSet = FALSE
  /\ sinceDma = 0 /\ sinceDpc = 0 /\ dpcCarry = 0 /\ byteCarry = 0
  /\ position = 0 /\ linearPosition = 0
  /\ packetCounter = 0
  /\ lastOsReadPacket = ULongMax
  /\ lastOsWritePacket = ULongMax
  /\ currentWritePosition = 0
  /\ eosReceived = FALSE
  /\ lastBufferRendered = FALSE
  /\ pc = "Idle"
  /\ seenPacket = 0
  /\ eosLeft = 0
  /\ ticks = 0
  /\ sessions = 0

-----------------------------------------------------------------------------
(***************************************************************************)
(* UpdatePosition.                                                         *)
(***************************************************************************)

\* TimeElapsedInMS: the time is cast to a ULONG before it is divided.
TimeElapsedInMS(ms) == ((ms * HnsPerMs) % ULong) \div HnsPerMs

\* The bytes due since the last update, times a second, as a ULONG.
Due == (Rate * TimeElapsedInMS(sinceDma) + byteCarry) % ULong
DueBytes == Due \div Second

\* A bug to be caught: the wrap around to the end-of-stream position is missed.
Bug_WrapNotClamped ==
  IF eosReceived /\ position <= currentWritePosition
    THEN SmallerOf(DueBytes, currentWritePosition - position)
    ELSE DueBytes

\* ByteDisplacement: once the end of the stream is known it is cut so as not
\* to pass it, directly or around the end of the DMA buffer.
ByteDisplacement ==
  LET end == (position + DueBytes) % DmaBufferSize
  IN IF ~eosReceived THEN DueBytes
     ELSE IF position <= currentWritePosition
       THEN SmallerOf(DueBytes, currentWritePosition - position)
     ELSE IF end < position /\ end > currentWritePosition
       THEN DueBytes - (end - currentWritePosition)
     ELSE DueBytes

PositionAfter == (position + ByteDisplacement) % DmaBufferSize

\* A bug to be caught: the position before the update is compared.
Bug_EndReachedBefore ==
  eosReceived /\ (position + DueBytes) % DmaBufferSize = currentWritePosition

EndReached == eosReceived /\ PositionAfter = currentWritePosition

UpdatePosition ==
  /\ byteCarry' = Due % Second
  /\ lastBufferRendered' = (lastBufferRendered \/ EndReached)
  /\ position' = PositionAfter
  /\ linearPosition' = linearPosition + ByteDisplacement
  /\ eosLeft' = IF eosReceived THEN eosLeft - ByteDisplacement ELSE eosLeft
  /\ sinceDma' = 0

\* GetPosition, GetPositions or GetPacketCount of a stream that runs.
GetPosition ==
  /\ ksState = RUN
  /\ UpdatePosition
  /\ UNCHANGED <<sinceDpc, dpcCarry, ticks, packetCounter, packetVars,
                 writeVars, clientVars, timerVars>>

-----------------------------------------------------------------------------
(***************************************************************************)
(* Time and the timer DPC.                                                 *)
(***************************************************************************)

\* Milliseconds since the last packet was counted.
DpcElapsed == sinceDpc + dpcCarry

\* After the end of the stream the position comes to rest by itself.
Ending == eosReceived /\ pc # "RunSet"

\* A millisecond passes while a clock of the stream matters.  MaxLag keeps the
\* DPC and the position updates from being late for ever.
Tick ==
  /\ timer \/ ksState = RUN
  /\ sinceDma < MaxLag
  /\ sinceDpc < MaxLag
  /\ Ending \/ ticks < MaxTicks
  /\ sinceDma' = sinceDma + 1
  /\ sinceDpc' = sinceDpc + 1
  /\ ticks' = IF Ending THEN ticks ELSE ticks + 1
  /\ dpcQueued' = (dpcQueued \/ timer)
  /\ UNCHANGED <<dpcCarry, positionVars, packetCounter, packetVars, writeVars,
                 clientVars, timer, eventSet>>

BufferCompleted == TimeElapsedInMS(DpcElapsed) >= NotificationIntervalMs

\* TimerNotifyRT has nothing to do yet.
TimerNotifyEarly ==
  /\ dpcQueued
  /\ ~BufferCompleted
  /\ ~eosReceived
  /\ dpcQueued' = FALSE
  /\ UNCHANGED <<clockVars, positionVars, packetCounter, packetVars, writeVars,
                 clientVars, timer, eventSet>>

\* A bug to be caught: the interval is not taken off.
Bug_CarryWhole == DpcElapsed

CarryAfterPacket == DpcElapsed - NotificationIntervalMs

\* The timer is cancelled after the last buffer was rendered.
TimerAfterNotify == timer /\ ~lastBufferRendered'

\* TimerNotifyRT at the end of a packet, or after the end of the stream.
TimerNotify ==
  /\ dpcQueued
  /\ BufferCompleted \/ eosReceived
  /\ dpcQueued' = FALSE
  /\ IF BufferCompleted
     THEN /\ dpcCarry' = CarryAfterPacket
          /\ sinceDpc' = 0
     ELSE UNCHANGED <<dpcCarry, sinceDpc>>
  /\ UpdatePosition
  /\ packetCounter' = IF eosReceived THEN packetCounter ELSE packetCounter + 1
  /\ IF ksState = RUN
     THEN /\ eventSet' = (eventSet \/ BufferCompleted \/ lastBufferRendered')
          /\ timer' = TimerAfterNotify
     ELSE UNCHANGED <<eventSet, timer>>
  /\ UNCHANGED <<ticks, packetVars, writeVars, clientVars>>

-----------------------------------------------------------------------------
(***************************************************************************)
(* SetState.                                                               *)
(***************************************************************************)

\* STOP -> ACQUIRE and PAUSE -> ACQUIRE.
SetStateAcquire ==
  /\ pc = "Idle"
  /\ ksState \in {STOP, PAUSE}
  /\ ksState = STOP => sessions < MaxSessions
  /\ ksState' = ACQUIRE
  /\ sessions' = IF ksState = STOP THEN sessions + 1 ELSE sessions
  /\ UNCHANGED <<clockVars, positionVars, packetCounter, packetVars, writeVars,
                 pc, seenPacket, timerVars>>

\* A bug to be caught: STOP forgets the OS read position.
Bug_ReadPacketKept == lastOsReadPacket

ReadPacketAfterStop == ULongMax

\* ACQUIRE -> STOP.  The carries are not among what is reset.
SetStateStop ==
  /\ pc = "Idle"
  /\ ksState = ACQUIRE
  /\ packetCounter' = 0
  /\ position' = 0
  /\ linearPosition' = 0
  /\ lastOsReadPacket' = ReadPacketAfterStop
  /\ currentWritePosition' = 0
  /\ lastOsWritePacket' = ULongMax
  /\ eosReceived' = FALSE
  /\ lastBufferRendered' = FALSE
  /\ eosLeft' = 0
  /\ ksState' = STOP
  /\ UNCHANGED <<clockVars, byteCarry, capture, pc, seenPacket, sessions,
                 timerVars>>

\* ACQUIRE -> PAUSE: the position is not updated, the stream does not run.
SetStatePause ==
  /\ pc = "Idle"
  /\ ksState = ACQUIRE
  /\ ksState' = PAUSE
  /\ UNCHANGED <<clockVars, positionVars, packetCounter, packetVars, writeVars,
                 pc, seenPacket, sessions, timerVars>>

\* A bug to be caught: m_KsState is set before the DPC is waited for.
Bug_PauseStateFirst ==
  /\ pc = "Idle"
  /\ ksState = RUN
  /\ timer' = FALSE
  /\ pc' = "PauseFlush"
  /\ ksState' = PAUSE
  /\ UNCHANGED <<clockVars, positionVars, packetCounter, packetVars, writeVars,
                 seenPacket, sessions, dpcQueued, eventSet>>

\* RUN -> PAUSE: ExCancelTimer, if there is a timer to cancel.
PauseCancel ==
  /\ pc = "Idle"
  /\ ksState = RUN
  /\ IF NotificationIntervalMs > 0
     THEN timer' = FALSE /\ pc' = "PauseFlush"
     ELSE timer' = timer /\ pc' = "PausePositions"
  /\ UNCHANGED <<clockVars, positionVars, packetCounter, packetVars, writeVars,
                 ksState, seenPacket, sessions, dpcQueued, eventSet>>

\* A bug to be caught: the queued DPC is not waited for.
Bug_NotFlushed == TRUE

\* KeFlushQueuedDpcs returns.
DpcsFlushed == ~dpcQueued

\* The time since the last packet is kept for the next RUN, which is the first
\* to look at the clock again, after setting it.
PauseFlush ==
  /\ pc = "PauseFlush"
  /\ DpcsFlushed
  /\ dpcCarry' = DpcElapsed
  /\ sinceDpc' = 0
  /\ pc' = "PausePositions"
  /\ UNCHANGED <<sinceDma, ticks, positionVars, packetCounter, packetVars,
                 writeVars, ksState, seenPacket, sessions, timerVars>>

\* GetPositions, still with m_KsState at RUN, then m_KsState is set.
PausePositions ==
  /\ pc = "PausePositions"
  /\ UpdatePosition
  /\ ksState' = PAUSE
  /\ pc' = "Idle"
  /\ UNCHANGED <<sinceDpc, dpcCarry, ticks, packetCounter, packetVars,
                 writeVars, seenPacket, sessions, timerVars>>

\* PAUSE -> RUN: the time stamps are taken and the timer is set ...  (MaxLag
\* also bounds what the pauses before may have carried over.)
RunStart ==
  /\ pc = "Idle"
  /\ ksState = PAUSE
  /\ dpcCarry <= MaxLag
  /\ sinceDma' = 0
  /\ sinceDpc' = 0
  /\ timer' = (timer \/ NotificationIntervalMs > 0)
  /\ pc' = "RunSet"
  /\ UNCHANGED <<dpcCarry, ticks, positionVars, packetCounter, packetVars,
                 writeVars, ksState, seenPacket, sessions, dpcQueued, eventSet>>

\* ... before m_KsState says that the stream runs.
RunSet ==
  /\ pc = "RunSet"
  /\ ksState' = RUN
  /\ pc' = "Idle"
  /\ UNCHANGED <<clockVars, positionVars, packetCounter, packetVars, writeVars,
                 seenPacket, sessions, timerVars>>

-----------------------------------------------------------------------------
(***************************************************************************)
(* Packets.                                                                *)
(***************************************************************************)

\* The 0-based number of the last completed packet.
AvailablePacketNumber == (packetCounter - 1) % ULong

\* GetReadPacket: after it read the counter it uses only the client's state.
GetReadPacket ==
  /\ pc = "Idle"
  /\ capture
  /\ ksState >= PAUSE
  /\ AvailablePacketNumber # lastOsReadPacket
  /\ lastOsReadPacket' = AvailablePacketNumber
  /\ UNCHANGED <<clockVars, positionVars, packetCounter, capture,
                 lastOsWritePacket, writeVars, clientVars, timerVars>>

\* From the current position to an end of the stream given as a position.
WayTo(end) == IF position <= end THEN end - position
                                 ELSE end + DmaBufferSize - position

\* SetCurrentWritePositionInternal, with m_bEoSReceived set after it for the
\* last buffer.
SetCurrentWritePositionInternal(writePosition, endOfStream) ==
  /\ ~eosReceived
  /\ writePosition <= DmaBufferSize
  /\ currentWritePosition' = writePosition
  /\ eosReceived' = endOfStream
  /\ eosLeft' = IF endOfStream THEN WayTo(writePosition) ELSE eosLeft

\* SetStreamCurrentWritePositionForLastBuffer of an offloaded stream.
SetWritePositionForLastBuffer(writePosition) ==
  /\ pc = "Idle"
  /\ ~capture
  /\ SetCurrentWritePositionInternal(writePosition, TRUE)
  /\ UNCHANGED <<clockVars, byteCarry, position, linearPosition,
                 lastBufferRendered, packetCounter, packetVars, clientVars,
                 timerVars>>

\* SetWritePacket up to the release of the lock ...
WritePacketBegin ==
  /\ pc = "Idle"
  /\ ~capture
  /\ ~eosReceived
  /\ seenPacket' = packetCounter
  /\ pc' = "WritePacket"
  /\ UNCHANGED <<clockVars, positionVars, packetCounter, packetVars, writeVars,
                 ksState, sessions, timerVars>>

\* The packet in transfer cannot be written any more.
ExpectedPacket ==
  (IF ksState = RUN THEN seenPacket + 1 ELSE seenPacket) % ULong

\* ... and after it, when the packet is the expected one.  With end of stream
\* the write position is within the packet, else it is the packet's start.
WritePacketAccept(endOfStream) ==
  /\ pc = "WritePacket"
  /\ \E length \in 0 .. PacketSize :
       LET start == (ExpectedPacket % NotificationsPerBuffer) * PacketSize
       IN /\ endOfStream \/ length = 0
          /\ endOfStream => start + length \in EosPositions
          /\ SetCurrentWritePositionInternal(start + length, endOfStream)
  /\ lastOsWritePacket' = ExpectedPacket
  /\ seenPacket' = 0
  /\ pc' = "Idle"
  /\ UNCHANGED <<clockVars, byteCarry, position, linearPosition,
                 lastBufferRendered, packetCounter, capture, lastOsReadPacket,
                 ksState, sessions, timerVars>>

\* STATUS_DATA_LATE_ERROR, STATUS_DATA_OVERRUN, a length above the packet size.
WritePacketReject ==
  /\ pc = "WritePacket"
  /\ seenPacket' = 0
  /\ pc' = "Idle"
  /\ UNCHANGED <<clockVars, positionVars, packetCounter, packetVars, writeVars,
                 ksState, sessions, timerVars>>

\* The client's wait on the notification event returns and resets it.
ClientWakes ==
  /\ eventSet
  /\ eventSet' = FALSE
  /\ UNCHANGED <<clockVars, positionVars, packetCounter, packetVars, writeVars,
                 clientVars, timer, dpcQueued>>

-----------------------------------------------------------------------------
SetState ==
  \/ SetStateAcquire \/ SetStateStop \/ SetStatePause
  \/ PauseCancel \/ PauseFlush \/ PausePositions
  \/ RunStart \/ RunSet

Packets ==
  \/ GetReadPacket
  \/ \E p \in EosPositions : SetWritePositionForLastBuffer(p)
  \/ WritePacketBegin
  \/ \E endOfStream \in BOOLEAN : WritePacketAccept(endOfStream)
  \/ WritePacketReject

Next ==
  \/ Tick \/ TimerNotifyEarly \/ TimerNotify
  \/ GetPosition \/ ClientWakes
  \/ SetState \/ Packets

Spec == Init /\ [][Next]_vars

\* Time passes, an expired timer gets its DPC, and a call returns.
Fairness ==
  /\ WF_vars(Tick) /\ WF_vars(TimerNotifyEarly) /\ WF_vars(TimerNotify)
  /\ WF_vars(PauseFlush) /\ WF_vars(PausePositions) /\ WF_vars(RunSet)
  /\ WF_vars(WritePacketReject)

FairSpec == Spec /\ Fairness

-----------------------------------------------------------------------------
(***************************************************************************)
(* Properties.                                                             *)
(***************************************************************************)

\* Every variable has its type.
TypeOK ==
  /\ capture \in BOOLEAN
  /\ ksState \in KsStates
  /\ timer \in BOOLEAN /\ dpcQueued \in BOOLEAN /\ eventSet \in BOOLEAN
  /\ sinceDma \in Nat /\ sinceDpc \in Nat /\ dpcCarry \in Nat
  /\ byteCarry \in 0 .. Second - 1
  /\ position \in 0 .. DmaBufferSize - 1
  /\ linearPosition \in Nat
  /\ packetCounter \in Nat
  /\ lastOsReadPacket \in 0 .. ULongMax
  /\ lastOsWritePacket \in 0 .. ULongMax
  /\ currentWritePosition \in 0 .. DmaBufferSize
  /\ eosReceived \in BOOLEAN /\ lastBufferRendered \in BOOLEAN
  /\ pc \in {"Idle", "PauseFlush", "PausePositions", "RunSet", "WritePacket"}
  /\ seenPacket \in Nat
  /\ eosLeft \in Int
  /\ ticks \in Nat
  /\ sessions \in Nat

\* "The 0-based number of the last completed packet": every counted packet has
\* been transferred whole, through any number of pauses and late DPCs.
\* GetReadPacket subtracts the two as unsigned numbers for its time stamp.
\* A session after a STOP starts with the time the session before carried over.
PacketsTransferred ==
  sessions <= 1 => packetCounter * PacketSize <= linearPosition

\* While the stream is not running and no call is under way there is neither a
\* timer nor a DPC, so that SetState(STOP) resets what nobody else touches.
PausedIsQuiet ==
  ksState # RUN /\ pc # "RunSet" => ~timer /\ ~dpcQueued

\* After the end of the stream was announced, no byte after it is read, and
\* the last buffer counts as rendered exactly when its last byte was read.
EndNotPassed ==
  eosReceived => /\ eosLeft >= 0
                 /\ lastBufferRendered => eosLeft = 0

\* GetReadPacket returns only packets completed since the stream was started,
\* and none of them twice or out of order, across pauses and restarts.
ReadsAdvance ==
  [][lastOsReadPacket' # lastOsReadPacket /\ ksState' # STOP =>
       /\ lastOsReadPacket' < packetCounter
       /\ lastOsReadPacket = ULongMax \/ lastOsReadPacket < lastOsReadPacket'
    ]_vars

\* "If running, then the current packing is already transfering to hardware so
\* the OS should write the packet after the current packet."
WrittenNotInTransfer ==
  [][lastOsWritePacket' # lastOsWritePacket /\ ksState = RUN =>
       lastOsWritePacket' > packetCounter]_vars

\* "Driver consumed a complete buffer for this stream": the client's event is
\* set by the DPC that counts the packet, also when it runs late, while the
\* stream is being paused.  Between setting the timer and m_KsState the start
\* leaves a gap in which it is not.
CompletionSignalled ==
  [][packetCounter' > packetCounter /\ pc # "RunSet" => eventSet']_vars

\* A stream that runs with the end of the stream announced renders its last
\* buffer, signals it and stops its timer, unless it is paused.
EndSignalled ==
  ksState = RUN /\ eosReceived ~> ~timer
=============================================================================
