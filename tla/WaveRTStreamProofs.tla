------------------------- MODULE WaveRTStreamProofs -------------------------
(***************************************************************************)
(* Proofs about the two parts of CMiniportWaveRTStream: the stream         *)
(* (WaveRTStream), for any buffer, rate and lag of the timer and for any   *)
(* number of pauses, and its notification list (NotificationList), for any *)
(* number of events and entries, even infinitely many.                     *)
(***************************************************************************)
EXTENDS WaveRTStream, NotificationList, TLAPS

-----------------------------------------------------------------------------
(***************************************************************************)
(* Timer and DPC.                                                          *)
(***************************************************************************)
\* Each stage of SetState has left behind what the one before undid.
QuietInv ==
  /\ PausedIsQuiet
  /\ pc \in {"Idle", "PauseFlush", "PausePositions", "RunSet", "WritePacket"}
  /\ pc \in {"PauseFlush", "PausePositions"} => ksState = RUN /\ ~timer
  /\ pc = "PausePositions" => ~dpcQueued
  /\ pc = "RunSet" => ksState = PAUSE
  /\ timer => NotificationIntervalMs > 0
  /\ dpcQueued => NotificationIntervalMs > 0

LEMMA QuietInit == Init => QuietInv
BY DEF Init, QuietInv, PausedIsQuiet

\* Steps that leave the timer, its DPC and the state alone.
LEMMA QuietSame ==
  ASSUME QuietInv, UNCHANGED <<timer, dpcQueued, ksState>>,
         \/ pc' = pc
         \/ pc \in {"Idle", "WritePacket"} /\ pc' \in {"Idle", "WritePacket"}
  PROVE  QuietInv'
BY DEF QuietInv, PausedIsQuiet, NotificationIntervalMs

LEMMA QuietNext == QuietInv /\ [Next]_vars => QuietInv'
<1> SUFFICES ASSUME QuietInv, [Next]_vars PROVE QuietInv'
  OBVIOUS
<1> USE DEF clientVars, timerVars
<1>1. CASE UNCHANGED vars
  BY <1>1, QuietSame DEF vars
<1>2. CASE Tick
  <2>1. /\ UNCHANGED <<timer, ksState, pc>>
        /\ timer \/ ksState = RUN
    BY <1>2 DEF Tick
  <2>2. dpcQueued' => dpcQueued \/ timer
    BY <1>2 DEF Tick
  <2> QED BY <2>1, <2>2 DEF QuietInv, PausedIsQuiet, NotificationIntervalMs
<1>3. CASE TimerNotifyEarly
  <2>1. UNCHANGED <<timer, ksState, pc>> /\ ~dpcQueued'
    BY <1>3 DEF TimerNotifyEarly
  <2> QED BY <2>1 DEF QuietInv, PausedIsQuiet, NotificationIntervalMs
<1>4. CASE TimerNotify
  <2>1. UNCHANGED <<ksState, pc>> /\ ~dpcQueued'
    BY <1>4 DEF TimerNotify
  <2>2. timer' => timer
    BY <1>4 DEF TimerNotify, TimerAfterNotify
  <2> QED BY <2>1, <2>2 DEF QuietInv, PausedIsQuiet, NotificationIntervalMs
<1>5. CASE GetPosition
  BY <1>5, QuietSame DEF GetPosition
<1>6. CASE ClientWakes
  BY <1>6, QuietSame DEF ClientWakes
<1>7. CASE SetStateAcquire
  BY <1>7 DEF SetStateAcquire, QuietInv, PausedIsQuiet, STOP, ACQUIRE, PAUSE, RUN,
     NotificationIntervalMs
<1>8. CASE SetStateStop
  BY <1>8 DEF SetStateStop, QuietInv, PausedIsQuiet, STOP, ACQUIRE, RUN,
     NotificationIntervalMs
<1>9. CASE SetStatePause
  BY <1>9 DEF SetStatePause, QuietInv, PausedIsQuiet, ACQUIRE, PAUSE, RUN,
     NotificationIntervalMs
<1>10. CASE PauseCancel
  <2>1. pc = "Idle" /\ UNCHANGED <<ksState, dpcQueued>> /\ ksState = RUN
    BY <1>10 DEF PauseCancel
  <2>2. CASE NotificationIntervalMs > 0
    <3>1. ~timer' /\ pc' = "PauseFlush"
      BY <1>10, <2>2 DEF PauseCancel
    <3> QED BY <2>1, <2>2, <3>1 DEF QuietInv, PausedIsQuiet, NotificationIntervalMs
  <2>3. CASE ~(NotificationIntervalMs > 0)
    <3>1. timer' = timer /\ pc' = "PausePositions"
      BY <1>10, <2>3 DEF PauseCancel
    <3> QED BY <2>1, <2>3, <3>1 DEF QuietInv, PausedIsQuiet, NotificationIntervalMs
  <2> QED BY <2>2, <2>3
<1>11. CASE PauseFlush
  BY <1>11 DEF PauseFlush, DpcsFlushed, QuietInv, PausedIsQuiet,
     NotificationIntervalMs
<1>12. CASE PausePositions
  BY <1>12 DEF PausePositions, QuietInv, PausedIsQuiet, PAUSE, RUN,
     NotificationIntervalMs
<1>13. CASE RunStart
  <2>1. /\ pc = "Idle" /\ pc' = "RunSet" /\ ksState = PAUSE
        /\ UNCHANGED <<ksState, dpcQueued>>
    BY <1>13 DEF RunStart
  <2>2. timer' => timer \/ NotificationIntervalMs > 0
    BY <1>13 DEF RunStart
  <2> QED BY <2>1, <2>2 DEF QuietInv, PausedIsQuiet, PAUSE, RUN,
          NotificationIntervalMs
<1>14. CASE RunSet
  BY <1>14 DEF RunSet, QuietInv, PausedIsQuiet, NotificationIntervalMs
<1>15. CASE Packets
  <2>1. UNCHANGED <<timer, dpcQueued, ksState>>
    BY <1>15 DEF Packets, GetReadPacket, SetWritePositionForLastBuffer,
       WritePacketBegin, WritePacketAccept, WritePacketReject
  <2>2. \/ pc' = pc
        \/ pc \in {"Idle", "WritePacket"} /\ pc' \in {"Idle", "WritePacket"}
    BY <1>15 DEF Packets, GetReadPacket, SetWritePositionForLastBuffer,
       WritePacketBegin, WritePacketAccept, WritePacketReject
  <2> QED BY <2>1, <2>2, QuietSame
<1> QED BY <1>1, <1>2, <1>3, <1>4, <1>5, <1>6, <1>7, <1>8, <1>9, <1>10, <1>11,
           <1>12, <1>13, <1>14, <1>15 DEF Next, SetState

LEMMA QuietInvariant == Spec => []QuietInv
BY QuietInit, QuietNext, PTL DEF Spec

\* A stream that is not running has neither a timer nor a DPC, so that STOP
\* resets what nobody else touches, however often and late the timer expired.
THEOREM PausedStaysQuiet == Spec => []PausedIsQuiet
<1>1. QuietInv => PausedIsQuiet
  BY DEF QuietInv
<1> QED BY <1>1, QuietInvariant, PTL

-----------------------------------------------------------------------------
(***************************************************************************)
(* Arithmetic of the position.                                             *)
(***************************************************************************)
LEMMA DivMod ==
  ASSUME NEW a \in Nat, NEW b \in Nat \ {0}
  PROVE  /\ a \div b \in Nat
         /\ a % b \in 0 .. b - 1
         /\ a = (a \div b) * b + (a % b)
<1>1. a \div b \in Nat
  OBVIOUS
<1>2. a % b \in 0 .. b - 1
  OBVIOUS
<1>3. a = (a \div b) * b + (a % b)
  BY SMTT(30)
<1> QED BY <1>1, <1>2, <1>3

LEMMA ProductNat == ASSUME NEW a \in Nat, NEW b \in Nat PROVE a * b \in Nat
OBVIOUS

\* A step of n bytes from position p of a ring of D bytes that ends before p
\* has gone past the end of the ring.
LEMMA WrapIsLong ==
  ASSUME NEW D \in Nat \ {0}, NEW p \in 0 .. D - 1, NEW n \in Nat,
         (p + n) % D < p
  PROVE  n >= D - p + ((p + n) % D)
<1> DEFINE k == (p + n) \div D
           r == (p + n) % D
<1>1. k \in Nat /\ r \in 0 .. D - 1 /\ p + n = k * D + r
  <2>1. p + n \in Nat
    OBVIOUS
  <2> QED BY <2>1, DivMod, Zenon
<1> HIDE DEF k, r
<1>2. k # 0
  <2>1. ASSUME k = 0 PROVE FALSE
    <3>1. p + n = r
      BY <1>1, <2>1
    <3> QED BY <1>1, <3>1 DEF r
  <2> QED BY <2>1
<1>3. k * D >= D
  BY <1>1, <1>2
<1>4. k * D \in Nat
  BY <1>1, ProductNat
<1>5. n >= D - p + r
  BY <1>1, <1>3, <1>4
<1> QED BY <1>5 DEF r

ClockType ==
  /\ sinceDma \in Nat /\ sinceDpc \in Nat /\ dpcCarry \in Nat
  /\ sinceDma <= MaxLag
  /\ byteCarry \in 0 .. Second - 1
  /\ position \in 0 .. DmaBufferSize - 1
  /\ linearPosition \in Nat
  /\ packetCounter \in Nat
  /\ currentWritePosition \in 0 .. DmaBufferSize
  /\ seenPacket \in Nat
  /\ sessions \in Nat

\* The cast to a ULONG never makes a time longer, and keeps one that fits.
LEMMA ElapsedMs ==
  ASSUME NEW t \in Nat
  PROVE  /\ TimeElapsedInMS(t) \in Nat
         /\ TimeElapsedInMS(t) <= t
         /\ t * HnsPerMs < ULong => TimeElapsedInMS(t) = t
<1> DEFINE h == t * HnsPerMs
           c == h % ULong
           e == c \div HnsPerMs
<1>1. HnsPerMs \in Nat \ {0} /\ ULong \in Nat \ {0}
  BY StreamAssumption
<1>2. h \in Nat
  BY <1>1, ProductNat
<1>3. c \in Nat /\ c <= h /\ (h < ULong => c = h)
  <2> HIDE DEF h
  <2>1. /\ h \div ULong \in Nat /\ c \in 0 .. ULong - 1
        /\ h = (h \div ULong) * ULong + c
    BY <1>1, <1>2, DivMod
  <2>2. (h \div ULong) * ULong \in Nat
    BY <1>1, <2>1, ProductNat
  <2>3. h < ULong => c = h
    BY <1>1, <1>2
  <2> QED BY <2>1, <2>2, <2>3
<1> HIDE DEF c
<1>4. /\ e \in Nat /\ c % HnsPerMs \in Nat
      /\ c % HnsPerMs < HnsPerMs
      /\ c = e * HnsPerMs + (c % HnsPerMs)
  BY <1>1, <1>3, DivMod
<1> HIDE DEF e
<1>5. e <= t
  <2> SUFFICES ASSUME e >= t + 1 PROVE FALSE
    BY <1>4
  <2>1. (t + 1) * HnsPerMs <= e * HnsPerMs
    BY <1>1, <1>4
  <2>2. (t + 1) * HnsPerMs = h + HnsPerMs
    BY <1>1
  <2>3. e * HnsPerMs \in Nat /\ e * HnsPerMs <= c
    BY <1>1, <1>3, <1>4, ProductNat
  <2> QED BY <1>1, <1>2, <1>3, <2>1, <2>2, <2>3
<1>6. c = h => e = t
  <2> SUFFICES ASSUME c = h, e + 1 <= t PROVE FALSE
    BY <1>4, <1>5
  <2>1. (e + 1) * HnsPerMs <= t * HnsPerMs
    BY <1>1, <1>4
  <2>2. (e + 1) * HnsPerMs = e * HnsPerMs + HnsPerMs
    BY <1>1, <1>4
  <2>3. e * HnsPerMs \in Nat
    BY <1>1, <1>4, ProductNat
  <2> QED BY <1>1, <1>2, <1>4, <2>1, <2>2, <2>3
<1> QED BY <1>3, <1>4, <1>5, <1>6 DEF TimeElapsedInMS, e, c

LEMMA DueNat ==
  ASSUME ClockType
  PROVE  Due \in Nat /\ DueBytes \in Nat /\ Due % Second \in 0 .. Second - 1
         /\ Due = DueBytes * Second + (Due % Second)
<1>1. Rate \in Nat /\ Second \in Nat \ {0} /\ ULong \in Nat \ {0}
  BY StreamAssumption
<1>2. Rate * TimeElapsedInMS(sinceDma) \in Nat
  BY <1>1, ElapsedMs, ProductNat DEF ClockType
<1>3. Due \in Nat
  <2>1. Rate * TimeElapsedInMS(sinceDma) + byteCarry \in Nat
    BY <1>1, <1>2 DEF ClockType
  <2> QED BY <1>1, <2>1, DivMod DEF Due
<1> QED BY <1>1, <1>3, DivMod DEF DueBytes

\* The end of the stream shortens a displacement, but never turns it around.
LEMMA DisplacementNat ==
  ASSUME ClockType
  PROVE  /\ ByteDisplacement \in Nat
         /\ ~eosReceived => ByteDisplacement = DueBytes
<1> DEFINE n == DueBytes
           D == DmaBufferSize
           end == (position + n) % D
<1>1. n \in Nat /\ D \in Nat \ {0}
  BY DueNat, StreamAssumption
<1>2. position \in 0 .. D - 1 /\ currentWritePosition \in 0 .. D
  BY DEF ClockType
<1>3. end < position => n >= D - position + end
  BY <1>1, <1>2, WrapIsLong
<1>4. end \in 0 .. D - 1
  BY <1>1, <1>2, DivMod
<1>5. ByteDisplacement =
        IF ~eosReceived THEN n
        ELSE IF position <= currentWritePosition
          THEN SmallerOf(n, currentWritePosition - position)
        ELSE IF end < position /\ end > currentWritePosition
          THEN n - (end - currentWritePosition)
        ELSE n
  BY DEF ByteDisplacement
<1> HIDE DEF n, D, end
<1>6. CASE ~eosReceived
  BY <1>1, <1>5, <1>6 DEF n
<1>7. CASE eosReceived /\ position <= currentWritePosition
  BY <1>1, <1>2, <1>5, <1>7 DEF SmallerOf
<1>8. CASE eosReceived /\ position > currentWritePosition
           /\ end < position /\ end > currentWritePosition
  BY <1>1, <1>2, <1>3, <1>4, <1>5, <1>8
<1>9. CASE eosReceived /\ position > currentWritePosition
           /\ ~(end < position /\ end > currentWritePosition)
  BY <1>1, <1>2, <1>5, <1>9
<1> QED BY <1>2, <1>6, <1>7, <1>8, <1>9

LEMMA PositionUpdated ==
  ASSUME ClockType, UpdatePosition
  PROVE  /\ sinceDma' = 0 /\ sinceDma' <= MaxLag
         /\ byteCarry' \in 0 .. Second - 1
         /\ position' \in 0 .. DmaBufferSize - 1
         /\ linearPosition' \in Nat
         /\ linearPosition' >= linearPosition
         /\ ~eosReceived => linearPosition' * Second + byteCarry'
                              = linearPosition * Second + Due
<1>1. Second \in Nat \ {0} /\ DmaBufferSize \in Nat \ {0}
  BY StreamAssumption
<1>2. ByteDisplacement \in Nat
  BY DisplacementNat
<1>3. sinceDma' = 0 /\ sinceDma' <= MaxLag /\ byteCarry' = Due % Second
  BY StreamAssumption DEF UpdatePosition
<1>4. linearPosition' = linearPosition + ByteDisplacement
  BY DEF UpdatePosition
<1>5. position' \in 0 .. DmaBufferSize - 1
  <2>1. position + ByteDisplacement \in Nat
    BY <1>2 DEF ClockType
  <2> QED BY <1>1, <2>1, DivMod DEF UpdatePosition, PositionAfter
<1>6. ASSUME ~eosReceived
      PROVE  linearPosition' * Second + byteCarry' = linearPosition * Second + Due
  <2>1. linearPosition' = linearPosition + DueBytes
    BY <1>4, <1>6, DisplacementNat
  <2>2. (linearPosition + DueBytes) * Second
          = linearPosition * Second + DueBytes * Second
    BY <1>1, DueNat DEF ClockType
  <2>3. linearPosition * Second \in Nat /\ DueBytes * Second \in Nat
    BY <1>1, DueNat, ProductNat DEF ClockType
  <2>4. Due = DueBytes * Second + byteCarry'
    BY <1>3, DueNat, Zenon
  <2>5. byteCarry' \in 0 .. Second - 1
    BY <1>3, DueNat, Zenon
  <2>6. linearPosition' * Second = linearPosition * Second + DueBytes * Second
    BY <2>1, <2>2
  <2> QED BY <1>1, <2>3, <2>4, <2>5, <2>6
<1> QED BY <1>2, <1>3, <1>4, <1>5, <1>6, DueNat DEF ClockType

-----------------------------------------------------------------------------
(***************************************************************************)
(* Types of what the clock counts.                                         *)
(***************************************************************************)
LEMMA IntervalNat ==
  /\ NotificationIntervalMs \in Nat
  /\ PacketSize \in Nat
<1>1. /\ DmaBufferSize \in Nat /\ Second \in Nat /\ Rate \in Nat \ {0}
      /\ NotificationsPerBuffer \in Nat \ {0}
  BY StreamAssumption
<1>2. (DmaBufferSize * Second) % ULong \in Nat
  <2>1. DmaBufferSize * Second \in Nat
    BY <1>1, ProductNat
  <2>2. ULong \in Nat \ {0}
    BY StreamAssumption
  <2> QED BY <2>1, <2>2, DivMod
<1>3. ((DmaBufferSize * Second) % ULong) \div Rate \in Nat
  BY <1>1, <1>2, DivMod
<1> QED BY <1>1, <1>3, DivMod DEF NotificationIntervalMs, PacketSize

LEMMA ClockInit == Init => ClockType
BY StreamAssumption DEF Init, ClockType

LEMMA ClockNext == ClockType /\ [Next]_vars => ClockType'
<1> SUFFICES ASSUME ClockType, [Next]_vars PROVE ClockType'
  OBVIOUS
<1> USE DEF clockVars, positionVars, packetVars, writeVars, clientVars
<1>1. CASE UNCHANGED vars
  BY <1>1 DEF vars, ClockType
<1>2. CASE Tick
  BY <1>2, StreamAssumption DEF Tick, ClockType
<1>3. CASE TimerNotifyEarly
  BY <1>3 DEF TimerNotifyEarly, ClockType
<1>4. CASE TimerNotify
  <2>1. dpcCarry' \in Nat /\ sinceDpc' \in Nat
    <3>1. CASE BufferCompleted
      <4>1. DpcElapsed \in Nat
        BY DEF DpcElapsed, ClockType
      <4>2. DpcElapsed - NotificationIntervalMs \in Nat
        BY <3>1, <4>1, ElapsedMs, IntervalNat DEF BufferCompleted
      <4> QED BY <1>4, <3>1, <4>2 DEF TimerNotify, CarryAfterPacket
    <3>2. CASE ~BufferCompleted
      BY <1>4, <3>2 DEF TimerNotify, ClockType
    <3> QED BY <3>1, <3>2
  <2>2. /\ packetCounter' \in Nat
        /\ UNCHANGED <<currentWritePosition, seenPacket, sessions>>
        /\ UpdatePosition
    BY <1>4 DEF TimerNotify, ClockType
  <2> QED BY <2>1, <2>2, PositionUpdated DEF ClockType
<1>5. CASE GetPosition
  <2>1. UpdatePosition
    BY <1>5 DEF GetPosition
  <2> QED BY <1>5, <2>1, PositionUpdated DEF GetPosition, ClockType
<1>6. CASE ClientWakes
  BY <1>6 DEF ClientWakes, ClockType
<1>7. CASE SetStateAcquire \/ SetStatePause \/ PauseCancel \/ RunStart \/ RunSet
  BY <1>7, StreamAssumption DEF SetStateAcquire, SetStatePause, PauseCancel,
     RunStart, RunSet, ClockType
<1>8. CASE SetStateStop
  BY <1>8, StreamAssumption DEF SetStateStop, ClockType
<1>9. CASE PauseFlush
  BY <1>9 DEF PauseFlush, DpcElapsed, ClockType
<1>10. CASE PausePositions
  <2>1. UpdatePosition
    BY <1>10 DEF PausePositions
  <2> QED BY <1>10, <2>1, PositionUpdated DEF PausePositions, ClockType
<1>11. CASE GetReadPacket \/ WritePacketBegin \/ WritePacketReject
  BY <1>11 DEF GetReadPacket, WritePacketBegin, WritePacketReject, ClockType
<1>12. ASSUME NEW p \in EosPositions, SetWritePositionForLastBuffer(p)
       PROVE  ClockType'
  BY <1>12, StreamAssumption DEF SetWritePositionForLastBuffer,
     SetCurrentWritePositionInternal, ClockType
<1>13. ASSUME NEW endOfStream \in BOOLEAN, WritePacketAccept(endOfStream)
       PROVE  ClockType'
  <2>1. /\ UNCHANGED <<clockVars, byteCarry, position, linearPosition,
                       packetCounter, sessions>>
        /\ seenPacket' = 0
    BY <1>13 DEF WritePacketAccept
  <2>2. ExpectedPacket \in Nat
    <3>1. seenPacket \in Nat /\ seenPacket + 1 \in Nat /\ ULong \in Nat \ {0}
      BY StreamAssumption DEF ClockType
    <3>2. seenPacket % ULong \in Nat /\ (seenPacket + 1) % ULong \in Nat
      BY <3>1, DivMod
    <3> QED BY <3>2 DEF ExpectedPacket
  <2>3. (ExpectedPacket % NotificationsPerBuffer) * PacketSize \in Nat
    <3>1. ExpectedPacket % NotificationsPerBuffer \in Nat
      BY <2>2, DivMod, StreamAssumption
    <3> QED BY <3>1, IntervalNat, ProductNat
  <2>4. PICK length \in 0 .. PacketSize :
          LET start == (ExpectedPacket % NotificationsPerBuffer) * PacketSize
          IN SetCurrentWritePositionInternal(start + length, endOfStream)
    BY <1>13 DEF WritePacketAccept
  <2>5. currentWritePosition' \in 0 .. DmaBufferSize
    <3> DEFINE start == (ExpectedPacket % NotificationsPerBuffer) * PacketSize
    <3>1. start \in Nat /\ length \in Nat
      BY <2>3, IntervalNat
    <3>2. /\ start + length <= DmaBufferSize
          /\ currentWritePosition' = start + length
      BY <2>4 DEF SetCurrentWritePositionInternal
    <3> HIDE DEF start
    <3> QED BY <3>1, <3>2, StreamAssumption
  <2> QED BY <2>1, <2>5 DEF ClockType
<1> QED BY <1>1, <1>2, <1>3, <1>4, <1>5, <1>6, <1>7, <1>8, <1>9, <1>10, <1>11,
           <1>12, <1>13 DEF Next, SetState, Packets

LEMMA ClockInvariant == Spec => []ClockType
BY ClockInit, ClockNext, PTL DEF Spec

\* The DPC that counts a packet signals it, however late it runs and even while
\* the stream is being paused, but for the gap of RunStart.
THEOREM CompletionsSignalled == Spec => CompletionSignalled
<1>1. ClockType /\ QuietInv /\ [Next]_vars
        => [packetCounter' > packetCounter /\ pc # "RunSet" => eventSet']_vars
  <2> SUFFICES ASSUME ClockType, QuietInv, [Next]_vars,
                      packetCounter' > packetCounter, pc # "RunSet"
               PROVE  eventSet'
    OBVIOUS
  <2>1. packetCounter \in Nat
    BY DEF ClockType
  <2>2. packetCounter' # packetCounter /\ ~(packetCounter' = 0)
    BY <2>1
  <2>3. TimerNotify
    BY <2>2 DEF Next, SetState, Packets, Tick, TimerNotifyEarly, GetPosition,
       ClientWakes, SetStateAcquire, SetStateStop, SetStatePause, PauseCancel,
       PauseFlush, PausePositions, RunStart, RunSet, GetReadPacket,
       SetWritePositionForLastBuffer, WritePacketBegin, WritePacketAccept,
       WritePacketReject, vars
  <2>4. ~eosReceived /\ dpcQueued
    BY <2>2, <2>3 DEF TimerNotify
  <2>5. BufferCompleted
    BY <2>3, <2>4 DEF TimerNotify
  <2>6. ksState = RUN
    BY <2>4 DEF QuietInv, PausedIsQuiet
  <2>7. eventSet' = (eventSet \/ BufferCompleted \/ lastBufferRendered')
    BY <2>3, <2>6 DEF TimerNotify
  <2> QED BY <2>5, <2>7
<1> QED BY <1>1, ClockInvariant, QuietInvariant, PTL DEF Spec, CompletionSignalled

-----------------------------------------------------------------------------
(***************************************************************************)
(* Time and bytes.                                                         *)
(***************************************************************************)
\* The interval of the timer is the duration of a packet: no product wrapped and
\* nothing was cut off when AllocateBufferWithNotification divided.
ExactInterval == PacketSize * Second = Rate * NotificationIntervalMs

\* The position is never left alone for so long that the time since its last
\* update or the bytes due wrap.
PositionInTime ==
  /\ MaxLag * HnsPerMs < ULong
  /\ Rate * MaxLag + Second <= ULong

\* The milliseconds that packets were counted for or may yet be, and the bytes
\* that were played or are due, in units of a byte per second.
Elapsed == packetCounter * NotificationIntervalMs + dpcCarry + sinceDpc
Played  == linearPosition * Second + byteCarry + Rate * sinceDma

\* The counter never gets ahead of the bytes, because what it has counted and
\* what it carries are no more than the time the position accounts for.
TimeInv ==
  /\ sessions = 0 => /\ ksState = STOP
                     /\ packetCounter = 0 /\ dpcCarry = 0 /\ sinceDpc = 0
  /\ ksState # RUN /\ pc # "RunSet" => sinceDma = 0
  /\ sessions <= 1 /\ ksState # STOP /\ ~eosReceived => Rate * Elapsed <= Played
  /\ PacketsTransferred

LEMMA ElapsedNat ==
  ASSUME ClockType
  PROVE  /\ packetCounter * NotificationIntervalMs \in Nat
         /\ Elapsed \in Nat
         /\ linearPosition * Second \in Nat
         /\ Rate * sinceDma \in Nat
         /\ Played \in Nat
<1>1. Rate \in Nat /\ Second \in Nat \ {0}
  BY StreamAssumption
<1>2. packetCounter * NotificationIntervalMs \in Nat
  BY IntervalNat, ProductNat DEF ClockType
<1>3. linearPosition * Second \in Nat /\ Rate * sinceDma \in Nat
  BY <1>1, ProductNat DEF ClockType
<1>4. Elapsed \in Nat
  BY <1>2 DEF Elapsed, ClockType
<1>5. Played \in Nat
  BY <1>1, <1>3 DEF Played, ClockType
<1> QED BY <1>2, <1>3, <1>4, <1>5

LEMMA TimesMonotone ==
  ASSUME NEW r \in Nat, NEW a \in Nat, NEW b \in Nat, a <= b
  PROVE  r * a <= r * b
OBVIOUS

\* A step that adds no time and takes no bytes.
LEMMA TimeKept ==
  ASSUME ClockType, ClockType', Rate * Elapsed <= Played,
         Elapsed' <= Elapsed, Played' >= Played
  PROVE  Rate * Elapsed' <= Played'
<1>1. Elapsed \in Nat /\ Played \in Nat
  BY ElapsedNat
<1>2. Elapsed' \in Nat /\ Played' \in Nat
  <2>1. Rate \in Nat /\ Second \in Nat \ {0}
    BY StreamAssumption
  <2>2. /\ packetCounter' * NotificationIntervalMs \in Nat
        /\ linearPosition' * Second \in Nat /\ Rate * sinceDma' \in Nat
    BY <2>1, IntervalNat, ProductNat DEF ClockType
  <2>3. Elapsed' = packetCounter' * NotificationIntervalMs + dpcCarry' + sinceDpc'
    BY DEF Elapsed, NotificationIntervalMs
  <2>4. Played' = linearPosition' * Second + byteCarry' + Rate * sinceDma'
    BY DEF Played
  <2>5. dpcCarry' \in Nat /\ sinceDpc' \in Nat /\ byteCarry' \in Nat
    BY <2>1 DEF ClockType
  <2>6. Elapsed' \in Nat
    BY <2>2, <2>3, <2>5
  <2>7. Played' \in Nat
    BY <2>2, <2>4, <2>5
  <2> QED BY <2>6, <2>7
<1>3. Rate \in Nat
  BY StreamAssumption
<1> DEFINE e == Elapsed
           f == Elapsed'
           p == Played
           q == Played'
<1> HIDE DEF e, f, p, q
<1>4. e \in Nat /\ f \in Nat /\ p \in Nat /\ q \in Nat
  BY <1>1, <1>2 DEF e, f, p, q
<1>5. f <= e /\ q >= p /\ Rate * e <= p
  BY DEF e, f, p, q
<1>6. Rate * f <= Rate * e
  BY <1>3, <1>4, <1>5, TimesMonotone
<1>7. Rate * f \in Nat /\ Rate * e \in Nat
  BY <1>3, <1>4, ProductNat
<1>8. Rate * f <= q
  BY <1>4, <1>5, <1>6, <1>7
<1> QED BY <1>8 DEF f, q

\* What the counter is worth, when nothing is due: the DPC has just brought the
\* position up to date.
LEMMA CountedIsPlayed ==
  ASSUME ExactInterval, NEW c \in Nat, NEW t \in Nat, NEW l \in Nat,
         NEW b \in 0 .. Second - 1,
         Rate * (c * NotificationIntervalMs + t) <= l * Second + b
  PROVE  c * PacketSize <= l
<1> DEFINE i == NotificationIntervalMs
           p == PacketSize
           k == c * p
<1>1. Rate \in Nat /\ Second \in Nat \ {0} /\ i \in Nat /\ p \in Nat
  BY StreamAssumption, IntervalNat
<1>2. p * Second = Rate * i
  BY DEF ExactInterval
<1> HIDE DEF i, p
<1>3. c * i \in Nat /\ k \in Nat
  BY <1>1, ProductNat
<1>4. c * i <= c * i + t /\ c * i + t \in Nat
  BY <1>3
<1>5. Rate * (c * i) <= Rate * (c * i + t)
  BY <1>1, <1>3, <1>4, TimesMonotone
<1>6. Rate * (c * i) = c * (p * Second)
  <2>1. Rate * (c * i) = c * (Rate * i)
    BY <1>1
  <2> QED BY <1>2, <2>1, Zenon
<1>7. c * (p * Second) = k * Second
  BY <1>1
<1> HIDE DEF k
<1>8. Rate * (c * i + t) <= l * Second + b
  BY DEF i
<1>9. /\ k * Second \in Nat /\ l * Second \in Nat
      /\ Rate * (c * i) \in Nat /\ Rate * (c * i + t) \in Nat
  BY <1>1, <1>3, <1>4, ProductNat
<1>10. k * Second < l * Second + Second
  BY <1>1, <1>5, <1>6, <1>7, <1>8, <1>9
<1>11. k <= l
  <2>1. ASSUME k >= l + 1 PROVE FALSE
    <3>1. (l + 1) * Second <= k * Second
      BY <1>1, <1>3, <2>1
    <3>2. (l + 1) * Second = l * Second + Second
      BY <1>1
    <3> QED BY <1>1, <1>9, <1>10, <3>1, <3>2
  <2> QED BY <1>3, <2>1
<1> QED BY <1>11 DEF k, p

LEMMA TimeInit == Init => TimeInv
<1> SUFFICES ASSUME Init PROVE TimeInv
  OBVIOUS
<1>1. packetCounter * PacketSize = 0
  BY IntervalNat DEF Init
<1> QED BY <1>1 DEF Init, TimeInv, PacketsTransferred, STOP, RUN

\* Steps after which the same time and the same bytes are accounted for.
LEMMA TimeSame ==
  ASSUME TimeInv, UNCHANGED <<packetCounter, dpcCarry, sinceDpc, sinceDma,
                              linearPosition, byteCarry, ksState, sessions>>,
         eosReceived => eosReceived',
         pc' # "RunSet" => pc # "RunSet" \/ ksState' = RUN
  PROVE  TimeInv'
BY DEF TimeInv, PacketsTransferred, Elapsed, Played, NotificationIntervalMs,
   PacketSize

LEMMA SumsOrdered ==
  ASSUME NEW c \in Nat, NEW x \in Nat, NEW y \in Nat, NEW v \in Nat,
         NEW w \in Nat, x + y <= v + w
  PROVE  c + x + y <= c + v + w
OBVIOUS

LEMMA DueFits ==
  ASSUME ClockType, PositionInTime
  PROVE  Due = Rate * sinceDma + byteCarry
<1>1. Rate \in Nat /\ Second \in Nat \ {0} /\ MaxLag \in Nat /\ ULong \in Nat \ {0}
  BY StreamAssumption
<1>2. Rate * sinceDma <= Rate * MaxLag
  BY <1>1, TimesMonotone DEF ClockType
<1>3. Rate * sinceDma \in Nat /\ Rate * MaxLag \in Nat
  BY <1>1, ProductNat DEF ClockType
<1> DEFINE n == Rate * sinceDma + byteCarry
<1>4. n \in 0 .. ULong - 1
  BY <1>1, <1>2, <1>3 DEF PositionInTime, ClockType
<1> HIDE DEF n
<1>5. n % ULong = n
  BY <1>1, <1>4
<1>6. TimeElapsedInMS(sinceDma) = sinceDma
  <2>1. sinceDma * HnsPerMs <= MaxLag * HnsPerMs
    BY <1>1, StreamAssumption DEF ClockType
  <2>2. /\ sinceDma * HnsPerMs \in Nat /\ MaxLag * HnsPerMs \in Nat
        /\ sinceDma \in Nat
    BY <1>1, StreamAssumption, ProductNat DEF ClockType
  <2> QED BY <1>1, <2>1, <2>2, ElapsedMs DEF PositionInTime
<1> QED BY <1>5, <1>6 DEF Due, n

\* Until the end of the stream is known an update loses nothing that was due.
LEMMA PlayedKept ==
  ASSUME PositionInTime, ClockType, ClockType', UpdatePosition, ~eosReceived
  PROVE  /\ Played' = Played
         /\ Played' = linearPosition' * Second + byteCarry'
<1>0. /\ sinceDma' = 0
      /\ linearPosition' * Second + byteCarry' = linearPosition * Second + Due
  BY PositionUpdated
<1>1. Rate * sinceDma' = 0
  BY <1>0, StreamAssumption
<1>2. /\ linearPosition' * Second \in Nat /\ byteCarry' \in Nat
      /\ linearPosition * Second \in Nat /\ byteCarry \in Nat
      /\ Rate * sinceDma \in Nat
  <2>1. Second \in Nat \ {0}
    BY StreamAssumption
  <2>2. linearPosition' \in Nat /\ byteCarry' \in Nat /\ byteCarry \in Nat
    BY <2>1 DEF ClockType
  <2> QED BY <2>1, <2>2, ElapsedNat, ProductNat
<1>3. Played' = linearPosition' * Second + byteCarry' + Rate * sinceDma'
  BY DEF Played
<1>4. Played' = linearPosition' * Second + byteCarry'
  BY <1>1, <1>2, <1>3
<1>5. Played = linearPosition * Second + (Rate * sinceDma + byteCarry)
  BY <1>2 DEF Played
<1> QED BY <1>0, <1>4, <1>5, DueFits

\* A step that only updates the position.
LEMMA TimeUpdate ==
  ASSUME PositionInTime, ClockType, ClockType', TimeInv, UpdatePosition,
         UNCHANGED <<packetCounter, eosReceived, sessions>>,
         dpcCarry' + sinceDpc' <= dpcCarry + sinceDpc,
         ksState # STOP, sessions # 0
  PROVE  TimeInv'
<1>1. /\ sinceDma' = 0
      /\ linearPosition' >= linearPosition
      /\ ~eosReceived => linearPosition' * Second + byteCarry'
                           = linearPosition * Second + Due
  BY PositionUpdated
<1>2. packetCounter * NotificationIntervalMs \in Nat
  BY ElapsedNat
<1>3. Elapsed' <= Elapsed
  <2>1. /\ dpcCarry' \in Nat /\ sinceDpc' \in Nat
        /\ dpcCarry \in Nat /\ sinceDpc \in Nat
    BY DEF ClockType
  <2>2. packetCounter * NotificationIntervalMs + dpcCarry' + sinceDpc'
          <= packetCounter * NotificationIntervalMs + dpcCarry + sinceDpc
    BY <1>2, <2>1, SumsOrdered
  <2> QED BY <2>2 DEF Elapsed, NotificationIntervalMs
<1>4. ~eosReceived => Played' = Played
  BY PlayedKept
<1>5. sessions <= 1 /\ ~eosReceived => Rate * Elapsed' <= Played'
  <2> SUFFICES ASSUME sessions <= 1, ~eosReceived PROVE Rate * Elapsed' <= Played'
    OBVIOUS
  <2>1. Rate * Elapsed <= Played /\ Played' >= Played
    BY <1>4, ElapsedNat DEF TimeInv
  <2> QED BY <1>3, <2>1, TimeKept
<1>6. sessions <= 1 => packetCounter * PacketSize <= linearPosition'
  <2>1. packetCounter * PacketSize \in Nat
    BY IntervalNat, ProductNat DEF ClockType
  <2> QED BY <1>1, <2>1 DEF TimeInv, PacketsTransferred, ClockType
<1> QED BY <1>1, <1>5, <1>6 DEF TimeInv, PacketsTransferred, PacketSize

\* A DPC that counts a packet moves an interval from the carry to the counter.
LEMMA TimeCount ==
  ASSUME PositionInTime, ExactInterval, ClockType, ClockType', TimeInv, TimerNotify,
         ~eosReceived, ksState # STOP, sessions # 0
  PROVE  TimeInv'
<1>1. /\ BufferCompleted /\ UpdatePosition
      /\ packetCounter' = packetCounter + 1
      /\ dpcCarry' = DpcElapsed - NotificationIntervalMs /\ sinceDpc' = 0
      /\ UNCHANGED <<ksState, pc, sessions, eosReceived>>
  BY DEF TimerNotify, CarryAfterPacket, clientVars, writeVars
<1>2. sinceDma' = 0
  BY <1>1, PositionUpdated
<1>3. Played' = Played /\ Played' = linearPosition' * Second + byteCarry'
  BY <1>1, PlayedKept
<1>4. /\ packetCounter' * NotificationIntervalMs
           = packetCounter * NotificationIntervalMs + NotificationIntervalMs
      /\ packetCounter * NotificationIntervalMs \in Nat
  BY <1>1, IntervalNat, ElapsedNat DEF ClockType
<1>5. Elapsed' = Elapsed
  <2>1. Elapsed' = packetCounter' * NotificationIntervalMs + dpcCarry' + sinceDpc'
    BY DEF Elapsed, NotificationIntervalMs
  <2>2. Elapsed = packetCounter * NotificationIntervalMs + dpcCarry + sinceDpc
    BY DEF Elapsed
  <2>3. /\ dpcCarry' = (sinceDpc + dpcCarry) - NotificationIntervalMs
        /\ sinceDpc' = 0
        /\ dpcCarry \in Nat /\ sinceDpc \in Nat
    <3>1. dpcCarry' = (sinceDpc + dpcCarry) - NotificationIntervalMs
      BY <1>1 DEF DpcElapsed
    <3> QED BY <1>1, <3>1 DEF ClockType
  <2> DEFINE c == packetCounter * NotificationIntervalMs
             d == packetCounter' * NotificationIntervalMs
  <2>4. c \in Nat /\ d = c + NotificationIntervalMs
    BY <1>4
  <2> HIDE DEF c, d
  <2>5. d + dpcCarry' + sinceDpc' = c + dpcCarry + sinceDpc
    BY <2>3, <2>4, IntervalNat
  <2> QED BY <2>1, <2>2, <2>5, Zenon DEF c, d
<1>6. sessions <= 1 => Rate * Elapsed' <= linearPosition' * Second + byteCarry'
  BY <1>3, <1>5 DEF TimeInv
<1>7. sessions <= 1 => packetCounter' * PacketSize <= linearPosition'
  <2> SUFFICES ASSUME sessions <= 1
               PROVE  packetCounter' * PacketSize <= linearPosition'
    OBVIOUS
  <2>1. /\ packetCounter' \in Nat /\ dpcCarry' \in Nat
        /\ linearPosition' \in Nat /\ byteCarry' \in 0 .. Second - 1
    BY DEF ClockType
  <2>2. Elapsed' = packetCounter' * NotificationIntervalMs + dpcCarry'
    <3>1. Elapsed' = packetCounter' * NotificationIntervalMs + dpcCarry' + sinceDpc'
      BY DEF Elapsed, NotificationIntervalMs
    <3>2. packetCounter' * NotificationIntervalMs \in Nat
      BY <2>1, IntervalNat, ProductNat
    <3> QED BY <1>1, <2>1, <3>1, <3>2
  <2>3. Rate * (packetCounter' * NotificationIntervalMs + dpcCarry')
          <= linearPosition' * Second + byteCarry'
    BY <1>6, <2>2
  <2> QED BY <2>1, <2>3, CountedIsPlayed
<1>8. sessions <= 1 => Rate * Elapsed' <= Played'
  BY <1>3, <1>6
<1> QED BY <1>1, <1>2, <1>7, <1>8 DEF TimeInv, PacketsTransferred, PacketSize

\* A millisecond is one of the timer's and one of the position's.
LEMMA TimeTick ==
  ASSUME ClockType, ClockType', QuietInv, TimeInv, Tick
  PROVE  TimeInv'
<1>1. /\ sinceDma' = sinceDma + 1 /\ sinceDpc' = sinceDpc + 1
      /\ UNCHANGED <<packetCounter, dpcCarry, linearPosition, byteCarry, ksState,
                     sessions, eosReceived, pc>>
  BY DEF Tick, positionVars, writeVars, clientVars
<1>2. ksState # STOP /\ (ksState = RUN \/ pc = "RunSet") /\ sessions # 0
  BY DEF Tick, QuietInv, PausedIsQuiet, TimeInv, STOP, PAUSE, RUN
<1>3. sessions <= 1 /\ ~eosReceived => Rate * Elapsed' <= Played'
  <2> SUFFICES ASSUME sessions <= 1, ~eosReceived PROVE Rate * Elapsed' <= Played'
    OBVIOUS
  <2>1. Elapsed' = Elapsed + 1
    <3>1. Elapsed' = packetCounter * NotificationIntervalMs + dpcCarry + (sinceDpc + 1)
      BY <1>1 DEF Elapsed, NotificationIntervalMs
    <3>2. packetCounter * NotificationIntervalMs \in Nat
      BY ElapsedNat
    <3> QED BY <3>1, <3>2 DEF Elapsed, ClockType
  <2>2. Played' = Played + Rate
    <3>1. Played' = linearPosition * Second + byteCarry + Rate * (sinceDma + 1)
      BY <1>1 DEF Played
    <3>2. Rate * (sinceDma + 1) = Rate * sinceDma + Rate
      BY StreamAssumption DEF ClockType
    <3>3. /\ linearPosition * Second \in Nat /\ Rate * sinceDma \in Nat
          /\ byteCarry \in Nat /\ Rate \in Nat
      BY ElapsedNat, StreamAssumption DEF ClockType
    <3> QED BY <3>1, <3>2, <3>3 DEF Played
  <2>3. Rate * Elapsed <= Played
    BY <1>2 DEF TimeInv
  <2>4. Rate * (Elapsed + 1) = Rate * Elapsed + Rate
    BY ElapsedNat, StreamAssumption
  <2>5. Rate * Elapsed \in Nat /\ Rate \in Nat /\ Played \in Nat
    BY ElapsedNat, ProductNat, StreamAssumption
  <2>6. Rate * Elapsed + Rate <= Played + Rate
    BY <2>3, <2>5
  <2> QED BY <2>1, <2>2, <2>4, <2>6
<1> QED BY <1>1, <1>2, <1>3 DEF TimeInv, PacketsTransferred, PacketSize

LEMMA TimeNext ==
  ASSUME PositionInTime, ExactInterval, ClockType, ClockType', QuietInv, TimeInv,
         [Next]_vars
  PROVE  TimeInv'
<1> USE DEF clockVars, positionVars, packetVars, writeVars, clientVars
<1>1. CASE UNCHANGED vars
  BY <1>1, TimeSame DEF vars
<1>2. CASE Tick
  BY <1>2, TimeTick
<1>3. CASE TimerNotifyEarly
  BY <1>3, TimeSame DEF TimerNotifyEarly
<1>4. CASE TimerNotify
  <2>1. ksState # STOP /\ sessions # 0
    BY <1>4 DEF TimerNotify, QuietInv, PausedIsQuiet, TimeInv, STOP, PAUSE, RUN
  <2>2. CASE ~eosReceived
    BY <1>4, <2>1, <2>2, TimeCount
  <2>3. CASE eosReceived
    <3>1. /\ UpdatePosition
          /\ UNCHANGED <<packetCounter, eosReceived, sessions, ksState, pc>>
      BY <1>4, <2>3 DEF TimerNotify
    <3>2. dpcCarry' + sinceDpc' <= dpcCarry + sinceDpc
      <4>1. CASE BufferCompleted
        <5>1. dpcCarry' = (sinceDpc + dpcCarry) - NotificationIntervalMs /\ sinceDpc' = 0
          BY <1>4, <4>1 DEF TimerNotify, CarryAfterPacket, DpcElapsed
        <5> QED BY <5>1, IntervalNat DEF ClockType
      <4>2. CASE ~BufferCompleted
        BY <1>4, <4>2 DEF TimerNotify, ClockType
      <4> QED BY <4>1, <4>2
    <3> QED BY <2>1, <3>1, <3>2, TimeUpdate
  <2> QED BY <2>2, <2>3
<1>5. CASE GetPosition
  <2>1. ksState # STOP /\ sessions # 0
    BY <1>5 DEF GetPosition, TimeInv, STOP, RUN
  <2>2. /\ UpdatePosition
        /\ UNCHANGED <<packetCounter, eosReceived, sessions, dpcCarry, sinceDpc>>
    BY <1>5 DEF GetPosition
  <2>3. dpcCarry' + sinceDpc' <= dpcCarry + sinceDpc
    BY <2>2 DEF ClockType
  <2> QED BY <2>1, <2>2, <2>3, TimeUpdate
<1>6. CASE ClientWakes
  BY <1>6, TimeSame DEF ClientWakes
<1>7. CASE SetStateAcquire
  <2>1. /\ pc = "Idle" /\ pc' = "Idle" /\ ksState \in {STOP, PAUSE} /\ ksState' = ACQUIRE
        /\ UNCHANGED <<packetCounter, dpcCarry, sinceDpc, sinceDma, linearPosition,
                       byteCarry, eosReceived>>
        /\ sessions' = IF ksState = STOP THEN sessions + 1 ELSE sessions
    BY <1>7 DEF SetStateAcquire
  <2>2. sinceDma = 0 /\ sessions' # 0
    BY <2>1 DEF TimeInv, ClockType, STOP, PAUSE, RUN
  <2>3. sessions' <= 1 => sessions <= 1 /\ (ksState = STOP => sessions = 0)
    BY <2>1 DEF ClockType
  <2>4. ASSUME sessions' <= 1, ~eosReceived' PROVE Rate * Elapsed' <= Played'
    <3>1. CASE ksState = STOP
      <4>1. packetCounter = 0 /\ dpcCarry = 0 /\ sinceDpc = 0
        BY <2>3, <2>4, <3>1 DEF TimeInv
      <4>2. Elapsed' = 0
        BY <2>1, <4>1, IntervalNat DEF Elapsed, NotificationIntervalMs
      <4>3. Played' = Played
        BY <2>1 DEF Played
      <4>4. Rate * 0 = 0 /\ Played \in Nat
        BY ElapsedNat, StreamAssumption
      <4> QED BY <4>2, <4>3, <4>4
    <3>2. CASE ksState # STOP
      <4>1. Rate * Elapsed <= Played
        BY <2>1, <2>3, <2>4, <3>2 DEF TimeInv
      <4>2. Elapsed' = Elapsed /\ Played' = Played
        BY <2>1 DEF Elapsed, Played, NotificationIntervalMs
      <4> QED BY <4>1, <4>2
    <3> QED BY <3>1, <3>2
  <2>5. PacketsTransferred'
    BY <2>1, <2>3 DEF TimeInv, PacketsTransferred, PacketSize
  <2> QED BY <2>1, <2>2, <2>4, <2>5 DEF TimeInv
<1>8. CASE SetStateStop
  <2>1. /\ packetCounter' = 0 /\ linearPosition' = 0 /\ ksState' = STOP
        /\ UNCHANGED <<sinceDma, pc, sessions>>
        /\ pc = "Idle" /\ ksState = ACQUIRE
    BY <1>8 DEF SetStateStop
  <2>2. sessions # 0 /\ sinceDma = 0
    BY <2>1 DEF TimeInv, ACQUIRE, STOP, RUN
  <2>3. 0 * PacketSize = 0
    BY IntervalNat
  <2> QED BY <2>1, <2>2, <2>3 DEF TimeInv, PacketsTransferred, PacketSize
<1>9. CASE SetStatePause
  <2>1. /\ pc = "Idle" /\ pc' = "Idle" /\ ksState = ACQUIRE /\ ksState' = PAUSE
        /\ UNCHANGED <<packetCounter, dpcCarry, sinceDpc, sinceDma, linearPosition,
                       byteCarry, eosReceived, sessions>>
    BY <1>9 DEF SetStatePause
  <2>2. sinceDma = 0 /\ sessions # 0
    BY <2>1 DEF TimeInv, ACQUIRE, STOP, RUN
  <2>3. Elapsed' = Elapsed /\ Played' = Played
    BY <2>1 DEF Elapsed, Played, NotificationIntervalMs
  <2> QED BY <2>1, <2>2, <2>3 DEF TimeInv, PacketsTransferred, PacketSize, ACQUIRE,
          STOP
<1>10. CASE PauseCancel
  <2>1. pc' # "RunSet" /\ ksState' = RUN
    BY <1>10 DEF PauseCancel
  <2> QED BY <1>10, <2>1, TimeSame DEF PauseCancel
<1>11. CASE PauseFlush
  <2>1. /\ dpcCarry' = sinceDpc + dpcCarry /\ sinceDpc' = 0
        /\ UNCHANGED <<packetCounter, sinceDma, linearPosition, byteCarry,
                       eosReceived, sessions, ksState>>
        /\ ksState = RUN
    BY <1>11 DEF PauseFlush, DpcElapsed, QuietInv
  <2>2. Elapsed' <= Elapsed /\ Played' >= Played
    <3>1. Played' = Played
      BY <2>1 DEF Played
    <3>2. dpcCarry' + sinceDpc' <= dpcCarry + sinceDpc
      BY <2>1 DEF ClockType
    <3>3. packetCounter * NotificationIntervalMs + dpcCarry' + sinceDpc'
            <= packetCounter * NotificationIntervalMs + dpcCarry + sinceDpc
      BY <3>2, ElapsedNat, SumsOrdered DEF ClockType
    <3>4. Elapsed' <= Elapsed
      BY <2>1, <3>3 DEF Elapsed, NotificationIntervalMs
    <3> QED BY <3>1, <3>4, ElapsedNat
  <2>3. sessions # 0
    BY <2>1 DEF TimeInv, STOP, RUN
  <2>4. sessions <= 1 /\ ~eosReceived => Rate * Elapsed' <= Played'
    BY <2>1, <2>2, TimeKept DEF TimeInv, STOP, RUN
  <2> QED BY <2>1, <2>3, <2>4 DEF TimeInv, PacketsTransferred, PacketSize
<1>12. CASE PausePositions
  <2>1. /\ UpdatePosition
        /\ UNCHANGED <<packetCounter, eosReceived, sessions, dpcCarry, sinceDpc>>
    BY <1>12 DEF PausePositions
  <2>2. ksState # STOP /\ sessions # 0
    BY <1>12 DEF PausePositions, QuietInv, TimeInv, STOP, RUN
  <2>3. dpcCarry' + sinceDpc' <= dpcCarry + sinceDpc
    BY <2>1 DEF ClockType
  <2> QED BY <2>1, <2>2, <2>3, TimeUpdate
<1>13. CASE RunStart
  <2>1. /\ sinceDma' = 0 /\ sinceDpc' = 0 /\ pc = "Idle" /\ ksState = PAUSE
        /\ UNCHANGED <<packetCounter, dpcCarry, linearPosition, byteCarry,
                       eosReceived, sessions, ksState>>
    BY <1>13 DEF RunStart
  <2>2. sinceDma = 0 /\ sessions # 0
    BY <2>1 DEF TimeInv, PAUSE, STOP, RUN
  <2>3. Elapsed' <= Elapsed /\ Played' >= Played
    <3>1. Played' = Played
      BY <2>1, <2>2 DEF Played
    <3>2. dpcCarry' + sinceDpc' <= dpcCarry + sinceDpc
      BY <2>1 DEF ClockType
    <3>3. packetCounter * NotificationIntervalMs + dpcCarry' + sinceDpc'
            <= packetCounter * NotificationIntervalMs + dpcCarry + sinceDpc
      BY <3>2, ElapsedNat, SumsOrdered DEF ClockType
    <3>4. Elapsed' <= Elapsed
      BY <2>1, <3>3 DEF Elapsed, NotificationIntervalMs
    <3> QED BY <3>1, <3>4, ElapsedNat
  <2>4. sessions <= 1 /\ ~eosReceived => Rate * Elapsed' <= Played'
    BY <2>1, <2>3, TimeKept DEF TimeInv, PAUSE, STOP
  <2> QED BY <2>1, <2>2, <2>4 DEF TimeInv, PacketsTransferred, PacketSize
<1>14. CASE RunSet
  <2>1. /\ ksState' = RUN /\ ksState = PAUSE
        /\ UNCHANGED <<packetCounter, dpcCarry, sinceDpc, sinceDma, linearPosition,
                       byteCarry, eosReceived, sessions>>
    BY <1>14 DEF RunSet, QuietInv
  <2>2. Elapsed' = Elapsed /\ Played' = Played
    BY <2>1 DEF Elapsed, Played, NotificationIntervalMs
  <2> QED BY <2>1, <2>2 DEF TimeInv, PacketsTransferred, PacketSize, PAUSE, STOP, RUN
<1>15. CASE Packets
  <2>1. UNCHANGED <<packetCounter, dpcCarry, sinceDpc, sinceDma, linearPosition,
                    byteCarry, ksState, sessions>>
    BY <1>15 DEF Packets, GetReadPacket, SetWritePositionForLastBuffer,
       WritePacketBegin, WritePacketAccept, WritePacketReject
  <2>2. pc # "RunSet" \/ pc' = pc
    BY <1>15 DEF Packets, GetReadPacket, SetWritePositionForLastBuffer,
       WritePacketBegin, WritePacketAccept, WritePacketReject
  <2>3. eosReceived => eosReceived'
    BY <1>15 DEF Packets, GetReadPacket, SetWritePositionForLastBuffer,
       WritePacketBegin, WritePacketAccept, WritePacketReject,
       SetCurrentWritePositionInternal
  <2> QED BY <2>1, <2>2, <2>3, TimeSame
<1> QED BY <1>1, <1>2, <1>3, <1>4, <1>5, <1>6, <1>7, <1>8, <1>9, <1>10, <1>11,
           <1>12, <1>13, <1>14, <1>15 DEF Next, SetState

\* Every packet that was counted has been transferred whole, however late the
\* timer is and wherever in a packet the stream is paused, until it is restarted
\* after a STOP, as long as the interval is the exact duration of a packet and the
\* bytes due between two updates of the position fit a ULONG.
THEOREM CountedIsTransferred ==
  ASSUME ExactInterval, PositionInTime PROVE Spec => []PacketsTransferred
<1>1. Init => TimeInv
  BY TimeInit
<1>2. ClockType /\ ClockType' /\ QuietInv /\ TimeInv /\ [Next]_vars => TimeInv'
  BY TimeNext
<1>3. TimeInv => PacketsTransferred
  BY DEF TimeInv
<1> QED BY <1>1, <1>2, <1>3, ClockInvariant, QuietInvariant, PTL DEF Spec
-----------------------------------------------------------------------------
(***************************************************************************)
(* The end of the stream.                                                  *)
(***************************************************************************)
\* A position update is never as late as the DMA buffer is long, so that the
\* position cannot pass the end of the stream by a whole round, and the end is
\* given as a position of the buffer.  (An end at DmaBufferSize, which
\* SetCurrentWritePositionInternal accepts, is never reached.)
UpdatesWithinBuffer == Rate * MaxLag <= (DmaBufferSize - 1) * Second
EndsInBuffer        == DmaBufferSize \notin EosPositions

\* What is left is always the way from the position to the end.
EndInv ==
  /\ eosReceived => /\ currentWritePosition < DmaBufferSize
                    /\ eosLeft = WayTo(currentWritePosition)
  /\ lastBufferRendered => eosReceived /\ position = currentWritePosition

LEMMA DueWithinBuffer ==
  ASSUME ClockType, UpdatesWithinBuffer
  PROVE  DueBytes \in 0 .. DmaBufferSize - 1
<1>1. /\ Rate \in Nat /\ Second \in Nat \ {0} /\ MaxLag \in Nat
      /\ ULong \in Nat \ {0} /\ DmaBufferSize \in Nat \ {0}
  BY StreamAssumption
<1> DEFINE t == TimeElapsedInMS(sinceDma)
           x == Rate * t + byteCarry
           u == (x \div ULong) * ULong
           d == DueBytes * Second
           m == (DmaBufferSize - 1) * Second
<1>0. t \in Nat /\ t <= MaxLag
  BY <1>1, ElapsedMs DEF ClockType
<1> HIDE DEF t
<1>2. Rate * t <= Rate * MaxLag
  BY <1>0, <1>1, TimesMonotone
<1>3. Rate * t \in Nat /\ Rate * MaxLag \in Nat /\ byteCarry \in 0 .. Second - 1
  BY <1>0, <1>1, ProductNat DEF ClockType
<1>4. x \in Nat /\ x <= Rate * MaxLag + Second - 1
  BY <1>1, <1>2, <1>3
<1> HIDE DEF x
<1>5. Due = x % ULong
  BY DEF Due, x, t
<1>6. u \in Nat /\ x = u + (x % ULong) /\ x % ULong \in Nat
  <2>1. /\ x \div ULong \in Nat /\ x % ULong \in 0 .. ULong - 1
        /\ x = (x \div ULong) * ULong + (x % ULong)
    BY <1>1, <1>4, DivMod
  <2> QED BY <1>1, <2>1, ProductNat
<1>7. DueBytes \in Nat /\ Due \in Nat /\ Due % Second \in Nat
      /\ Due = d + (Due % Second)
  BY DueNat
<1>8. d \in Nat /\ m \in Nat
  BY <1>1, <1>7, ProductNat
<1>9. Rate * MaxLag <= m
  BY DEF UpdatesWithinBuffer
<1> HIDE DEF u, d, m
<1>10. Due <= x
  BY <1>5, <1>6, <1>7
<1>11. d <= m + Second - 1
  BY <1>1, <1>3, <1>4, <1>7, <1>8, <1>9, <1>10
<1>12. ASSUME DueBytes >= DmaBufferSize PROVE FALSE
  <2>1. DmaBufferSize * Second <= DueBytes * Second
    BY <1>1, <1>7, <1>12
  <2>2. DmaBufferSize * Second = (DmaBufferSize - 1) * Second + Second
    BY <1>1
  <2>3. m + Second <= d
    BY <2>1, <2>2 DEF m, d
  <2> QED BY <1>1, <1>8, <1>11, <2>3
<1> QED BY <1>1, <1>7, <1>12

\* A step of less than a round goes around the end of the ring at most once.
LEMMA RingStep ==
  ASSUME NEW D \in Nat \ {0}, NEW p \in 0 .. D - 1, NEW n \in 0 .. D - 1
  PROVE  (p + n) % D = IF p + n < D THEN p + n ELSE p + n - D
<1>1. CASE p + n < D
  BY <1>1
<1>2. CASE p + n >= D
  <2>1. p + n - D \in 0 .. D - 1
    BY <1>2
  <2>2. (p + n - D) % D = p + n - D
    BY <2>1
  <2> DEFINE q == (p + n) \div D
             r == (p + n) % D
  <2>3. p + n \in Nat
    OBVIOUS
  <2>4. q \in Nat /\ r \in 0 .. D - 1 /\ p + n = q * D + r
    BY <2>3, DivMod
  <2> HIDE DEF q, r
  <2>5. q # 0
    <3>1. q = 0 => q * D = 0
      OBVIOUS
    <3> QED BY <1>2, <2>4, <3>1
  <2>6. ~(q >= 2)
    <3>1. q >= 2 => q * D >= 2 * D
      BY <2>4
    <3>2. q * D \in Nat
      BY <2>4, ProductNat
    <3> QED BY <2>4, <3>1, <3>2
  <2>7. q = 1
    BY <2>4, <2>5, <2>6
  <2>8. r = p + n - D
    BY <2>4, <2>7
  <2> QED BY <1>2, <2>8 DEF r
<1> QED BY <1>1, <1>2

\* ByteDisplacement stops at the end of the stream, however it is reached.
LEMMA StopsAtEnd ==
  ASSUME ClockType, UpdatesWithinBuffer, eosReceived,
         currentWritePosition < DmaBufferSize
  PROVE  /\ PositionAfter \in 0 .. DmaBufferSize - 1
         /\ IF PositionAfter <= currentWritePosition
              THEN currentWritePosition - PositionAfter
                     = WayTo(currentWritePosition) - ByteDisplacement
              ELSE (currentWritePosition + DmaBufferSize) - PositionAfter
                     = WayTo(currentWritePosition) - ByteDisplacement
         /\ position = currentWritePosition => PositionAfter = currentWritePosition
<1> DEFINE D == DmaBufferSize
           w == currentWritePosition
           n == DueBytes
           b == ByteDisplacement
           end == (position + n) % D
<1>1. /\ D \in Nat \ {0} /\ n \in 0 .. D - 1
      /\ position \in 0 .. D - 1 /\ w \in 0 .. D - 1
  BY StreamAssumption, DueWithinBuffer DEF ClockType
<1>2. end = IF position + n < D THEN position + n ELSE position + n - D
  BY <1>1, RingStep
<1>3. b = IF position <= w THEN SmallerOf(n, w - position)
          ELSE IF end < position /\ end > w THEN n - (end - w)
          ELSE n
  BY DEF ByteDisplacement
<1>4. PositionAfter = (position + b) % D
  BY DEF PositionAfter
<1>5. WayTo(w) = IF position <= w THEN w - position ELSE w + D - position
  BY DEF WayTo
<1> HIDE DEF D, w, n, b, end
<1>6. b \in 0 .. D - 1
  <2>1. CASE position <= w
    BY <1>1, <1>3, <2>1 DEF SmallerOf
  <2>2. CASE position > w /\ end < position /\ end > w
    BY <1>1, <1>2, <1>3, <2>2
  <2>3. CASE position > w /\ ~(end < position /\ end > w)
    BY <1>1, <1>3, <2>3
  <2> QED BY <1>1, <2>1, <2>2, <2>3
<1>7. PositionAfter = IF position + b < D THEN position + b ELSE position + b - D
  BY <1>1, <1>4, <1>6, RingStep
<1>8. PositionAfter \in 0 .. D - 1
  BY <1>1, <1>6, <1>7
<1>9. IF PositionAfter <= w THEN w - PositionAfter = WayTo(w) - b
                            ELSE (w + D) - PositionAfter = WayTo(w) - b
  <2>1. CASE position <= w
    <3>1. b <= w - position /\ WayTo(w) = w - position
      BY <1>1, <1>3, <1>5, <2>1 DEF SmallerOf
    <3>2. PositionAfter = position + b
      BY <1>1, <1>6, <1>7, <3>1
    <3> QED BY <1>1, <1>6, <3>1, <3>2
  <2>2. CASE position > w /\ end < position /\ end > w
    <3>1. b = n - (end - w) /\ WayTo(w) = (w + D) - position
      BY <1>1, <1>3, <1>5, <2>2
    <3>2. end = (position + n) - D
      BY <1>1, <1>2, <2>2
    <3>3. b = (w + D) - position
      BY <1>1, <3>1, <3>2
    <3>4. PositionAfter = w
      BY <1>1, <1>7, <3>3
    <3> QED BY <1>1, <3>1, <3>3, <3>4
  <2>3. CASE position > w /\ ~(end < position /\ end > w)
    <3>1. b = n /\ WayTo(w) = (w + D) - position
      BY <1>1, <1>3, <1>5, <2>3
    <3>2. CASE position + n < D
      <4>1. PositionAfter = position + n
        BY <1>7, <3>1, <3>2
      <4> QED BY <1>1, <2>3, <3>1, <4>1
    <3>3. CASE position + n >= D
      <4>1. PositionAfter = (position + n) - D /\ end = PositionAfter
        BY <1>1, <1>2, <1>7, <3>1, <3>3
      <4>2. PositionAfter <= w
        BY <1>1, <2>3, <4>1
      <4> QED BY <1>1, <2>3, <3>1, <4>1, <4>2
    <3> QED BY <1>1, <3>2, <3>3
  <2> QED BY <1>1, <2>1, <2>2, <2>3
<1>10. position = w => PositionAfter = w
  BY <1>1, <1>3, <1>7 DEF SmallerOf
<1> QED BY <1>8, <1>9, <1>10 DEF D, w, b

LEMMA EndInit == Init => EndInv
BY DEF Init, EndInv

\* Steps that leave the position and the end alone.
LEMMA EndSame ==
  ASSUME EndInv, UNCHANGED <<position, eosLeft, lastBufferRendered,
                             currentWritePosition, eosReceived>>
  PROVE  EndInv'
BY DEF EndInv, WayTo

LEMMA EndUpdate ==
  ASSUME ClockType, UpdatesWithinBuffer, EndInv, UpdatePosition,
         UNCHANGED <<currentWritePosition, eosReceived>>
  PROVE  EndInv'
<1>1. /\ position' = PositionAfter
      /\ eosLeft' = IF eosReceived THEN eosLeft - ByteDisplacement ELSE eosLeft
      /\ lastBufferRendered' = (lastBufferRendered \/ EndReached)
  BY DEF UpdatePosition
<1>2. CASE ~eosReceived
  BY <1>1, <1>2 DEF EndInv, EndReached
<1>3. CASE eosReceived
  <2>1. currentWritePosition < DmaBufferSize /\ eosLeft = WayTo(currentWritePosition)
    BY <1>3 DEF EndInv
  <2>2. IF position' <= currentWritePosition
          THEN currentWritePosition - position' = eosLeft'
          ELSE (currentWritePosition + DmaBufferSize) - position' = eosLeft'
    BY <1>1, <1>3, <2>1, StopsAtEnd
  <2>3. eosLeft' = IF position' <= currentWritePosition'
                     THEN currentWritePosition' - position'
                     ELSE currentWritePosition' + DmaBufferSize - position'
    <3>1. /\ position' \in Int /\ currentWritePosition \in Int
          /\ DmaBufferSize \in Int
      BY <1>1, <1>3, <2>1, StopsAtEnd, StreamAssumption DEF ClockType
    <3> QED BY <2>2, <3>1
  <2>4. lastBufferRendered' => position' = currentWritePosition'
    BY <1>1, <1>3, <2>1, StopsAtEnd DEF EndInv, EndReached
  <2> QED BY <1>3, <2>1, <2>3, <2>4 DEF EndInv, WayTo
<1> QED BY <1>2, <1>3

\* The way to an end of the stream that is set is measured from the position.
LEMMA EndSet ==
  ASSUME EndInv, EndsInBuffer, NEW w \in 0 .. DmaBufferSize, NEW e \in BOOLEAN,
         e => w \in EosPositions, SetCurrentWritePositionInternal(w, e),
         UNCHANGED <<position, lastBufferRendered>>
  PROVE  EndInv'
<1>1. /\ ~eosReceived /\ currentWritePosition' = w /\ eosReceived' = e
      /\ eosLeft' = IF e THEN WayTo(w) ELSE eosLeft
  BY DEF SetCurrentWritePositionInternal
<1>2. ~lastBufferRendered'
  BY <1>1 DEF EndInv
<1>3. e => w < DmaBufferSize
  BY StreamAssumption DEF EndsInBuffer
<1> QED BY <1>1, <1>2, <1>3 DEF EndInv, WayTo

LEMMA EndNext ==
  ASSUME EndsInBuffer, UpdatesWithinBuffer, ClockType, ClockType', EndInv, [Next]_vars
  PROVE  EndInv'
<1> USE DEF clockVars, positionVars, packetVars, writeVars, clientVars
<1>1. CASE \/ UNCHANGED vars \/ Tick \/ TimerNotifyEarly \/ ClientWakes
           \/ SetStateAcquire \/ SetStatePause \/ PauseCancel \/ PauseFlush
           \/ RunStart \/ RunSet
           \/ GetReadPacket \/ WritePacketBegin \/ WritePacketReject
  BY <1>1, EndSame DEF vars, Tick, TimerNotifyEarly, ClientWakes, SetStateAcquire,
     SetStatePause, PauseCancel, PauseFlush, RunStart, RunSet, GetReadPacket,
     WritePacketBegin, WritePacketReject
<1>2. CASE TimerNotify \/ GetPosition \/ PausePositions
  <2>1. UpdatePosition /\ UNCHANGED <<currentWritePosition, eosReceived>>
    BY <1>2 DEF TimerNotify, GetPosition, PausePositions
  <2> QED BY <2>1, EndUpdate
<1>3. CASE SetStateStop
  BY <1>3 DEF SetStateStop, EndInv
<1>4. ASSUME NEW p \in EosPositions, SetWritePositionForLastBuffer(p)
      PROVE  EndInv'
  <2>1. /\ p \in 0 .. DmaBufferSize
        /\ SetCurrentWritePositionInternal(p, TRUE)
        /\ UNCHANGED <<position, lastBufferRendered>>
    BY <1>4, StreamAssumption DEF SetWritePositionForLastBuffer
  <2> QED BY <2>1, EndSet
<1>5. ASSUME NEW endOfStream \in BOOLEAN, WritePacketAccept(endOfStream)
      PROVE  EndInv'
  <2> DEFINE start == (ExpectedPacket % NotificationsPerBuffer) * PacketSize
  <2>1. PICK length \in 0 .. PacketSize :
          /\ endOfStream => start + length \in EosPositions
          /\ SetCurrentWritePositionInternal(start + length, endOfStream)
    BY <1>5 DEF WritePacketAccept
  <2>2. UNCHANGED <<position, lastBufferRendered>>
    BY <1>5 DEF WritePacketAccept
  <2>3. currentWritePosition' = start + length
    BY <2>1 DEF SetCurrentWritePositionInternal
  <2>4. start + length \in 0 .. DmaBufferSize
    BY <2>3 DEF ClockType
  <2> HIDE DEF start
  <2> QED BY <2>1, <2>2, <2>4, EndSet
<1> QED BY <1>1, <1>2, <1>3, <1>4, <1>5 DEF Next, SetState, Packets

\* No byte after the end of the stream is read, directly or around the end of
\* the DMA buffer, and the last buffer counts as rendered only with its last
\* byte, for any buffer and rate, wherever in it the end lies and however late
\* the timer is within a round of it.
THEOREM EndIsKept ==
  ASSUME EndsInBuffer, UpdatesWithinBuffer PROVE Spec => []EndNotPassed
<1>1. Init => EndInv
  BY EndInit
<1>2. ClockType /\ ClockType' /\ EndInv /\ [Next]_vars => EndInv'
  BY EndNext
<1>3. ClockType /\ EndInv => EndNotPassed
  <2> SUFFICES ASSUME ClockType, EndInv, eosReceived
               PROVE  eosLeft >= 0 /\ (lastBufferRendered => eosLeft = 0)
    BY DEF EndNotPassed
  <2> QED BY StreamAssumption DEF ClockType, EndInv, WayTo
<1> QED BY <1>1, <1>2, <1>3, ClockInvariant, PTL DEF Spec

-----------------------------------------------------------------------------
(***************************************************************************)
(* Reading packets.                                                        *)
(***************************************************************************)
\* The packet read last was completed, or none was since the STOP.
ReadInv ==
  \/ lastOsReadPacket = ULongMax
  \/ lastOsReadPacket \in Nat /\ lastOsReadPacket < packetCounter

\* Without a completed packet the number available is the one that says so.
LEMMA AvailableNumber ==
  ASSUME ClockType
  PROVE  /\ packetCounter = 0 => AvailablePacketNumber = ULongMax
         /\ packetCounter # 0 => /\ AvailablePacketNumber \in Nat
                                 /\ AvailablePacketNumber < packetCounter
         /\ packetCounter # 0 /\ packetCounter < ULong
              => AvailablePacketNumber = packetCounter - 1
<1>1. packetCounter \in Nat /\ ULong \in Nat \ {0}
  BY StreamAssumption DEF ClockType
<1>2. ASSUME packetCounter = 0 PROVE AvailablePacketNumber = ULongMax
  <2>1. AvailablePacketNumber = (-1) % ULong
    BY <1>2 DEF AvailablePacketNumber
  <2>2. (-1) % ULong = ULong - 1
    BY <1>1, SMTT(30)
  <2> QED BY <2>1, <2>2 DEF ULongMax
<1>3. ASSUME packetCounter # 0
      PROVE  /\ AvailablePacketNumber \in Nat
             /\ AvailablePacketNumber < packetCounter
             /\ packetCounter < ULong => AvailablePacketNumber = packetCounter - 1
  <2> DEFINE x == packetCounter - 1
             u == (x \div ULong) * ULong
  <2>1. x \in Nat /\ x < packetCounter
    BY <1>1, <1>3
  <2>2. AvailablePacketNumber = x % ULong
    BY DEF AvailablePacketNumber
  <2> HIDE DEF x
  <2>3. u \in Nat /\ x % ULong \in Nat /\ x = u + (x % ULong)
    <3>1. /\ x \div ULong \in Nat /\ x % ULong \in 0 .. ULong - 1
          /\ x = (x \div ULong) * ULong + (x % ULong)
      BY <1>1, <2>1, DivMod
    <3> QED BY <1>1, <3>1, ProductNat
  <2> HIDE DEF u
  <2>4. x % ULong <= x
    BY <2>1, <2>3
  <2>5. packetCounter < ULong => x % ULong = x
    BY <1>1, <2>1
  <2>6. packetCounter < ULong => AvailablePacketNumber = packetCounter - 1
    BY <2>2, <2>5 DEF x
  <2> QED BY <1>1, <2>1, <2>2, <2>3, <2>4, <2>6
<1> QED BY <1>2, <1>3

LEMMA ReadNext == ClockType /\ ClockType' /\ ReadInv /\ [Next]_vars => ReadInv'
<1> SUFFICES ASSUME ClockType, ClockType', ReadInv, [Next]_vars PROVE ReadInv'
  OBVIOUS
<1> USE DEF clockVars, positionVars, packetVars, writeVars, clientVars
<1>1. CASE UNCHANGED <<lastOsReadPacket, packetCounter>>
  BY <1>1 DEF ReadInv, ULongMax
<1>2. CASE TimerNotify
  <2>1. /\ lastOsReadPacket' = lastOsReadPacket
        /\ packetCounter' = IF eosReceived THEN packetCounter ELSE packetCounter + 1
    BY <1>2 DEF TimerNotify
  <2>2. packetCounter' >= packetCounter
    BY <2>1 DEF ClockType
  <2> QED BY <2>1, <2>2 DEF ReadInv, ULongMax, ClockType
<1>3. CASE SetStateStop
  BY <1>3 DEF SetStateStop, ReadPacketAfterStop, ReadInv, ULongMax
<1>4. CASE GetReadPacket
  <2>1. /\ lastOsReadPacket' = AvailablePacketNumber
        /\ packetCounter' = packetCounter
    BY <1>4 DEF GetReadPacket
  <2> QED BY <2>1, AvailableNumber DEF ReadInv, ULongMax
<1>5. CASE \/ UNCHANGED vars \/ Tick \/ TimerNotifyEarly \/ ClientWakes \/ GetPosition
           \/ SetStateAcquire \/ SetStatePause \/ PauseCancel \/ PauseFlush
           \/ PausePositions \/ RunStart \/ RunSet
  BY <1>1, <1>5 DEF vars, Tick, TimerNotifyEarly, ClientWakes, GetPosition,
     SetStateAcquire, SetStatePause, PauseCancel, PauseFlush, PausePositions,
     RunStart, RunSet
<1>6. CASE \/ \E p \in EosPositions : SetWritePositionForLastBuffer(p)
           \/ \E endOfStream \in BOOLEAN : WritePacketAccept(endOfStream)
           \/ WritePacketBegin \/ WritePacketReject
  BY <1>1, <1>6 DEF SetWritePositionForLastBuffer, WritePacketAccept,
     WritePacketBegin, WritePacketReject
<1> QED BY <1>2, <1>3, <1>4, <1>5, <1>6 DEF Next, SetState, Packets

\* Until the packet number wraps, GetReadPacket returns only completed packets,
\* each at most once and in order, however often the stream is paused or stopped
\* between two of them.
THEOREM PacketsReadOnce == Spec /\ [](packetCounter < ULong) => ReadsAdvance
<1>1. Init => ReadInv
  BY DEF Init, ReadInv
<1>2. ClockType /\ ClockType' /\ ReadInv /\ [Next]_vars => ReadInv'
  BY ReadNext
<1>3. ClockType /\ ReadInv /\ packetCounter < ULong /\ [Next]_vars
        => [lastOsReadPacket' # lastOsReadPacket /\ ksState' # STOP =>
              /\ lastOsReadPacket' < packetCounter
              /\ lastOsReadPacket = ULongMax \/ lastOsReadPacket < lastOsReadPacket'
           ]_vars
  <2> SUFFICES ASSUME ClockType, ReadInv, packetCounter < ULong, [Next]_vars,
                      lastOsReadPacket' # lastOsReadPacket, ksState' # STOP
               PROVE  /\ lastOsReadPacket' < packetCounter
                      /\ \/ lastOsReadPacket = ULongMax
                         \/ lastOsReadPacket < lastOsReadPacket'
    OBVIOUS
  <2>1. GetReadPacket
    BY DEF Next, SetState, Packets, Tick, TimerNotifyEarly, TimerNotify, GetPosition,
       ClientWakes, SetStateAcquire, SetStateStop, SetStatePause, PauseCancel,
       PauseFlush, PausePositions, RunStart, RunSet, SetWritePositionForLastBuffer,
       WritePacketBegin, WritePacketAccept, WritePacketReject, vars, packetVars
  <2>2. /\ lastOsReadPacket' = AvailablePacketNumber
        /\ AvailablePacketNumber # lastOsReadPacket
    BY <2>1 DEF GetReadPacket
  <2>3. packetCounter # 0
    BY <2>2, AvailableNumber DEF ReadInv, ClockType
  <2>4. AvailablePacketNumber = packetCounter - 1
    BY <2>3, AvailableNumber
  <2> QED BY <2>2, <2>4 DEF ReadInv, ClockType
<1> QED BY <1>1, <1>2, <1>3, ClockInvariant, PTL DEF Spec, ReadsAdvance

-----------------------------------------------------------------------------
(***************************************************************************)
(* The notification list: links.                                           *)
(***************************************************************************)
Links == [Places -> Places]

\* A place reaches itself and whatever those it reaches link to, up to the head.
LEMMA ReachedClosed ==
  ASSUME NEW f \in Links, NEW a \in Places
  PROVE  /\ a \in Reached(f, a)
         /\ Reached(f, a) \subseteq Places
         /\ \A q \in Reached(f, a) \ {Head} : f[q] \in Reached(f, a)
<1>1. a \in Reached(f, a) /\ Reached(f, a) \subseteq Places
  BY DEF Reached
<1>2. ASSUME NEW q \in Reached(f, a) \ {Head} PROVE f[q] \in Reached(f, a)
  <2>1. q \in Places /\ f[q] \in Places
    BY <1>1 DEF Links
  <2>2. ASSUME NEW S \in SUBSET Places, a \in S, \A p \in S \ {Head} : f[p] \in S
        PROVE  f[q] \in S
    BY <2>2 DEF Reached
  <2> QED BY <2>1, <2>2 DEF Reached
<1> QED BY <1>1, <1>2

\* It reaches nothing else.
LEMMA ReachedLeast ==
  ASSUME NEW f, NEW a, NEW S \in SUBSET Places,
         a \in S, \A q \in S \ {Head} : f[q] \in S
  PROVE  Reached(f, a) \subseteq S
BY DEF Reached

\* Links that agree on what is reached reach the same.
LEMMA ReachedSame ==
  ASSUME NEW f \in Links, NEW g \in Links, NEW a \in Places,
         \A q \in Reached(f, a) \ {Head} : g[q] = f[q]
  PROVE  Reached(g, a) = Reached(f, a)
<1>1. /\ a \in Reached(f, a) /\ Reached(f, a) \subseteq Places
      /\ \A q \in Reached(f, a) \ {Head} : f[q] \in Reached(f, a)
  BY ReachedClosed
<1>2. /\ a \in Reached(g, a) /\ Reached(g, a) \subseteq Places
      /\ \A q \in Reached(g, a) \ {Head} : g[q] \in Reached(g, a)
  BY ReachedClosed
<1>3. Reached(g, a) \subseteq Reached(f, a)
  BY <1>1, ReachedLeast
<1>4. \A q \in Reached(g, a) \ {Head} : f[q] \in Reached(g, a)
  BY <1>2, <1>3
<1>5. Reached(f, a) \subseteq Reached(g, a)
  BY <1>2, <1>4, ReachedLeast
<1> QED BY <1>3, <1>5

LEMMA ReachedHead ==
  ASSUME NEW f \in Links
  PROVE  Reached(f, Head) = {Head}
<1>1. Head \in Places
  BY DEF Places
<1>2. Reached(f, Head) \subseteq {Head}
  BY <1>1, ReachedLeast
<1> QED BY <1>1, <1>2, ReachedClosed

\* What a place reaches, its successor reaches too, but for the place itself.
LEMMA ReachedNext ==
  ASSUME NEW f \in Links, NEW a \in Places, a # Head
  PROVE  /\ Reached(f, a) \subseteq {a} \union Reached(f, f[a])
         /\ Reached(f, f[a]) \subseteq Reached(f, a)
<1>1. f[a] \in Places
  BY DEF Links
<1> DEFINE T == Reached(f, f[a])
<1>2. /\ f[a] \in T /\ T \subseteq Places
      /\ \A q \in T \ {Head} : f[q] \in T
  BY <1>1, ReachedClosed
<1>3. /\ a \in Reached(f, a) /\ Reached(f, a) \subseteq Places
      /\ \A q \in Reached(f, a) \ {Head} : f[q] \in Reached(f, a)
  BY ReachedClosed
<1>4. T \subseteq Reached(f, a)
  BY <1>3, ReachedLeast
<1> HIDE DEF T
<1>5. Reached(f, a) \subseteq {a} \union T
  <2> DEFINE S == {a} \union T
  <2>1. S \in SUBSET Places /\ a \in S
    BY <1>2
  <2>2. \A q \in S \ {Head} : f[q] \in S
    BY <1>2
  <2> HIDE DEF S
  <2>3. Reached(f, a) \subseteq S
    BY <2>1, <2>2, ReachedLeast
  <2> QED BY <2>3 DEF S
<1> QED BY <1>4, <1>5 DEF T

-----------------------------------------------------------------------------
(***************************************************************************)
(* The list as a ring of links.                                            *)
(***************************************************************************)
Ring(f) == Reached(f, f[Head])

\* The links lead from the head through different places back to it.
IsRing(f) ==
  /\ f \in Links
  /\ Head \in Ring(f)
  /\ \A p, q \in Ring(f) : f[p] = f[q] => p = q

LEMMA RingClosed ==
  ASSUME NEW f, IsRing(f)
  PROVE  /\ Ring(f) \subseteq Places
         /\ Head \in Ring(f)
         /\ \A q \in Ring(f) : f[q] \in Ring(f)
<1>1. f \in Links /\ f[Head] \in Places /\ Head \in Ring(f)
  BY DEF IsRing, Links, Places
<1> QED BY <1>1, ReachedClosed DEF Ring

LEMMA RingLeast ==
  ASSUME NEW f, NEW S \in SUBSET Places,
         f[Head] \in S, \A q \in S \ {Head} : f[q] \in S
  PROVE  Ring(f) \subseteq S
BY ReachedLeast DEF Ring

\* Every place of a ring has a predecessor, which is another place of it unless
\* the ring is the head alone.
LEMMA Predecessor ==
  ASSUME NEW f, IsRing(f), NEW x \in Ring(f)
  PROVE  /\ \E q \in Ring(f) : f[q] = x
         /\ x # Head => f[x] # x
<1>1. /\ Ring(f) \subseteq Places /\ Head \in Ring(f)
      /\ \A q \in Ring(f) : f[q] \in Ring(f)
  BY RingClosed
<1>2. \E q \in Ring(f) : f[q] = x
  <2> SUFFICES ASSUME \A q \in Ring(f) : f[q] # x PROVE FALSE
    OBVIOUS
  <2>1. Ring(f) \ {x} \in SUBSET Places /\ f[Head] \in Ring(f) \ {x}
    BY <1>1
  <2>2. \A q \in (Ring(f) \ {x}) \ {Head} : f[q] \in Ring(f) \ {x}
    BY <1>1
  <2> QED BY <2>1, <2>2, RingLeast
<1>3. ASSUME x # Head, f[x] = x PROVE FALSE
  <2>1. \A q \in Ring(f) : f[q] = x => q = x
    BY <1>3 DEF IsRing
  <2>2. Ring(f) \ {x} \in SUBSET Places /\ f[Head] \in Ring(f) \ {x}
    BY <1>1, <1>3, <2>1
  <2>3. \A q \in (Ring(f) \ {x}) \ {Head} : f[q] \in Ring(f) \ {x}
    BY <1>1, <2>1
  <2> QED BY <2>2, <2>3, RingLeast
<1> QED BY <1>2, <1>3

\* From every place of a ring the links lead on to the head.
LEMMA HeadReached ==
  ASSUME NEW f, IsRing(f), NEW c \in Ring(f)
  PROVE  Reached(f, c) \subseteq Ring(f) /\ Head \in Reached(f, c)
<1>1. /\ f \in Links /\ Ring(f) \subseteq Places /\ Head \in Ring(f)
      /\ \A q \in Ring(f) : f[q] \in Ring(f)
  BY RingClosed DEF IsRing
<1>2. Reached(f, c) \subseteq Ring(f)
  BY <1>1, ReachedLeast
<1>3. /\ c \in Reached(f, c) /\ Reached(f, c) \subseteq Places
      /\ \A q \in Reached(f, c) \ {Head} : f[q] \in Reached(f, c)
  BY <1>1, ReachedClosed
<1> DEFINE P == {y \in Places : c \in Reached(f, y)} \union Reached(f, c)
<1>4. P \in SUBSET Places
  BY <1>3
<1>5. f[Head] \in P
  BY <1>1 DEF Ring
<1>6. ASSUME NEW y \in P \ {Head} PROVE f[y] \in P
  <2>1. CASE y \in Reached(f, c)
    BY <1>3, <2>1
  <2>2. CASE y \notin Reached(f, c)
    <3>1. y \in Places /\ c \in Reached(f, y) /\ y # c
      BY <1>3, <2>2
    <3>2. c \in Reached(f, f[y])
      BY <1>1, <3>1, ReachedNext
    <3>3. f[y] \in Places
      BY <1>1, <3>1 DEF Links
    <3> QED BY <3>2, <3>3
  <2> QED BY <2>1, <2>2
<1>7. Head \in P
  BY <1>1, <1>4, <1>5, <1>6, RingLeast, Zenon
<1>8. Head \in Reached(f, c)
  BY <1>1, <1>3, <1>7, ReachedHead
<1> QED BY <1>2, <1>8

\* The links that lead on from a place of a ring never come back to it before
\* the head.
LEMMA RingGoesOn ==
  ASSUME NEW f, IsRing(f), NEW c \in Ring(f), c # Head
  PROVE  Reached(f, f[c]) = Reached(f, c) \ {c}
<1>1. /\ f \in Links /\ Ring(f) \subseteq Places /\ Head \in Ring(f)
      /\ \A q \in Ring(f) : f[q] \in Ring(f)
  BY RingClosed DEF IsRing
<1>2. Reached(f, c) \subseteq {c} \union Reached(f, f[c])
  BY <1>1, ReachedNext
<1>3. Reached(f, f[c]) \subseteq Reached(f, c)
  BY <1>1, ReachedNext
<1>4. c \notin Reached(f, f[c])
  <2> SUFFICES ASSUME c \in Reached(f, f[c]) PROVE FALSE
    OBVIOUS
  <2> DEFINE T == Reached(f, f[c])
             S == Ring(f) \ (T \ {Head})
  <2>1. f[c] \in Ring(f) /\ T \subseteq Ring(f)
    BY <1>1, HeadReached
  <2>2. f[c] \in T /\ \A q \in T \ {Head} : f[q] \in T
    BY <1>1, <2>1, ReachedClosed
  <2>3. ASSUME NEW x \in T PROVE \E q \in T \ {Head} : f[q] = x
    <3> SUFFICES ASSUME \A q \in T \ {Head} : f[q] # x PROVE FALSE
      OBVIOUS
    <3> DEFINE U == T \ {x}
    <3>1. U \in SUBSET Places /\ f[c] \in U
      BY <1>1, <2>1, <2>2
    <3>2. \A q \in U \ {Head} : f[q] \in U
      BY <2>2
    <3> HIDE DEF U
    <3>3. T \subseteq U
      BY <3>1, <3>2, ReachedLeast
    <3> QED BY <3>3 DEF U
  <2>4. \A y \in Ring(f) : f[y] \in T => y \in T \ {Head}
    BY <2>1, <2>3 DEF IsRing
  <2> HIDE DEF T
  <2>5. S \in SUBSET Places /\ f[Head] \in S
    BY <1>1, <2>4
  <2>6. \A y \in S \ {Head} : f[y] \in S
    BY <1>1, <2>4
  <2>7. Ring(f) \subseteq S
    BY <2>5, <2>6, RingLeast, Zenon
  <2>8. c \in S
    BY <2>7
  <2> QED BY <2>8 DEF T
<1> QED BY <1>2, <1>3, <1>4

\* Linking a new last place into a ring.
LEMMA RingInsert ==
  ASSUME NEW f, IsRing(f), NEW n \in Entries, n \notin Ring(f), f[n] = Head,
         NEW q \in Ring(f), f[q] = Head,
         NEW g \in Links, g[q] = n, \A p \in Places : p # q => g[p] = f[p]
  PROVE  /\ IsRing(g)
         /\ Ring(g) = Ring(f) \union {n}
         /\ \A c \in Ring(f) \ {Head} : Reached(g, c) = Reached(f, c) \union {n}
<1>1. /\ f \in Links /\ Ring(f) \subseteq Places /\ Head \in Ring(f)
      /\ \A p \in Ring(f) : f[p] \in Ring(f)
      /\ \A p, r \in Ring(f) : f[p] = f[r] => p = r
  BY RingClosed DEF IsRing
<1>2. n \in Places /\ n # Head /\ Head \in Places
  BY NotificationAssumption DEF Places
<1>3. /\ g \in Links
      /\ g[q] = n
      /\ \A p \in Places : p # q => g[p] = f[p]
  OBVIOUS
<1>4. /\ g[n] = Head
      /\ \A p \in Ring(f) : p # q => g[p] = f[p] /\ g[p] # Head
  BY <1>1, <1>2, <1>3
<1>5. ASSUME NEW a \in Places, NEW S \in SUBSET Ring(f), q \in S, a \in S \union {n},
             \A p \in S \ {Head} : f[p] \in S
      PROVE  Reached(g, a) \subseteq S \union {n}
  <2> DEFINE T == S \union {n}
  <2>1. T \in SUBSET Places /\ a \in T
    BY <1>1, <1>2, <1>5
  <2>2. \A p \in T \ {Head} : g[p] \in T
    <3> SUFFICES ASSUME NEW p \in T \ {Head} PROVE g[p] \in T
      OBVIOUS
    <3>1. CASE p = q
      BY <1>3, <3>1
    <3>2. CASE p = n
      <4>1. Head \in S
        <5>1. CASE q = Head
          BY <1>5, <5>1
        <5>2. CASE q # Head
          BY <1>5, <5>2
        <5> QED BY <5>1, <5>2
      <4> QED BY <1>4, <3>2, <4>1
    <3>3. CASE p # q /\ p # n
      BY <1>4, <1>5, <3>3
    <3> QED BY <3>1, <3>2, <3>3
  <2> HIDE DEF T
  <2>3. Reached(g, a) \subseteq T
    BY <2>1, <2>2, ReachedLeast
  <2> QED BY <2>3 DEF T
<1>6. ASSUME NEW a \in Places, NEW b \in Ring(f),
             Reached(g, a) \subseteq Ring(f) \union {n},
             \/ b \in Reached(g, a)
             \/ b = Head /\ n \in Reached(g, a)
      PROVE  Reached(f, b) \subseteq Reached(g, a)
  <2> DEFINE S == Reached(g, a) \ {n}
  <2>1. /\ a \in Reached(g, a) /\ Reached(g, a) \subseteq Places
        /\ \A p \in Reached(g, a) \ {Head} : g[p] \in Reached(g, a)
    BY <1>3, ReachedClosed
  <2>2. n \in Reached(g, a) => Head \in S
    BY <1>2, <1>4, <2>1
  <2>3. S \in SUBSET Places /\ b \in S
    BY <1>6, <2>1, <2>2
  <2>4. ASSUME NEW p \in S \ {Head} PROVE f[p] \in S
    <3>1. p \in Ring(f) /\ f[p] \in Ring(f) /\ f[p] # n
      BY <1>1, <1>6
    <3>2. CASE p = q
      <4>1. n \in Reached(g, a)
        BY <1>3, <2>1, <3>2
      <4> QED BY <2>2, <3>2, <4>1
    <3>3. CASE p # q
      BY <1>4, <2>1, <3>1, <3>3
    <3> QED BY <3>2, <3>3
  <2> HIDE DEF S
  <2>5. Reached(f, b) \subseteq S
    BY <2>3, <2>4, ReachedLeast
  <2> QED BY <2>5 DEF S
<1>7. Ring(g) = Ring(f) \union {n}
  <2>1. g[Head] \in Places /\ g[Head] \in Ring(f) \union {n}
    BY <1>1, <1>2, <1>3
  <2>2. Ring(g) \subseteq Ring(f) \union {n}
    BY <1>1, <1>5, <2>1 DEF Ring
  <2>3. /\ g[Head] \in Ring(g) /\ Ring(g) \subseteq Places
        /\ \A p \in Ring(g) \ {Head} : g[p] \in Ring(g)
    BY <1>3, <2>1, ReachedClosed DEF Ring
  <2>4. Ring(f) \subseteq Ring(g)
    <3>1. f[Head] \in Ring(f)
      BY <1>1
    <3>2. \/ f[Head] \in Ring(g)
          \/ f[Head] = Head /\ n \in Ring(g)
      BY <1>2, <1>3, <2>3
    <3> QED BY <1>6, <2>1, <2>2, <3>1, <3>2 DEF Ring
  <2>5. n \in Ring(g)
    BY <1>2, <1>3, <2>3, <2>4
  <2> QED BY <2>2, <2>4, <2>5
<1>8. IsRing(g)
  <2>1. Head \in Ring(g)
    BY <1>1, <1>7
  <2>2. ASSUME NEW p \in Ring(g), NEW r \in Ring(g), g[p] = g[r] PROVE p = r
    <3>1. \A x \in Ring(f) : g[x] # Head
      BY <1>2, <1>3, <1>4
    <3>2. \A x \in Ring(f) : x # q => g[x] # n
      BY <1>1, <1>4
    <3>3. CASE p = n \/ r = n
      BY <1>4, <1>7, <2>2, <3>1, <3>3
    <3>4. CASE p \in Ring(f) /\ r \in Ring(f)
      BY <1>1, <1>3, <1>4, <2>2, <3>2, <3>4
    <3> QED BY <1>7, <3>3, <3>4
  <2> QED BY <1>3, <2>1, <2>2 DEF IsRing
<1>9. ASSUME NEW c \in Ring(f) \ {Head}
      PROVE  Reached(g, c) = Reached(f, c) \union {n}
  <2>1. c \in Places /\ Reached(f, c) \subseteq Ring(f) /\ Head \in Reached(f, c)
    BY <1>1, HeadReached
  <2>2. /\ c \in Reached(f, c)
        /\ \A p \in Reached(f, c) \ {Head} : f[p] \in Reached(f, c)
    BY <1>1, <2>1, ReachedClosed
  <2>3. q \in Reached(f, c)
    <3> SUFFICES ASSUME q \notin Reached(f, c) PROVE FALSE
      OBVIOUS
    <3> DEFINE U == Reached(f, c) \ {Head}
    <3>1. U \in SUBSET Places /\ c \in U
      BY <1>1, <2>1, <2>2
    <3>2. \A p \in U \ {Head} : f[p] \in U
      BY <1>1, <2>1, <2>2
    <3> HIDE DEF U
    <3>3. Reached(f, c) \subseteq U
      BY <3>1, <3>2, ReachedLeast
    <3> QED BY <2>1, <3>3 DEF U
  <2>4. Reached(g, c) \subseteq Reached(f, c) \union {n}
    BY <1>5, <2>1, <2>2, <2>3
  <2>5. /\ c \in Reached(g, c)
        /\ \A p \in Reached(g, c) \ {Head} : g[p] \in Reached(g, c)
    BY <1>3, <2>1, ReachedClosed
  <2>6. Reached(f, c) \subseteq Reached(g, c)
    BY <1>6, <2>1, <2>4, <2>5
  <2>7. n \in Reached(g, c)
    <3>1. CASE q # Head
      BY <1>3, <2>3, <2>5, <2>6, <3>1
    <3>2. CASE q = Head
      <4>1. Ring(f) \subseteq {Head}
        BY <1>1, <1>2, <3>2, RingLeast, ReachedHead DEF Ring
      <4> QED BY <4>1
    <3> QED BY <3>1, <3>2
  <2> QED BY <2>4, <2>6, <2>7
<1> QED BY <1>7, <1>8, <1>9

\* Taking a place out of a ring.
LEMMA RingRemove ==
  ASSUME NEW f, IsRing(f), NEW n \in Ring(f), n # Head, NEW q \in Ring(f), f[q] = n,
         NEW g, g = [f EXCEPT ![q] = f[n]]
  PROVE  IsRing(g) /\ Ring(g) = Ring(f) \ {n}
<1>1. /\ f \in Links /\ Ring(f) \subseteq Places /\ Head \in Ring(f)
      /\ \A p \in Ring(f) : f[p] \in Ring(f)
      /\ \A p, r \in Ring(f) : f[p] = f[r] => p = r
  BY RingClosed DEF IsRing
<1>2. f[n] # n /\ q # n /\ f[n] \in Ring(f)
  BY <1>1, Predecessor
<1>3. /\ g \in Links
      /\ g[q] = f[n]
      /\ \A p \in Places : p # q => g[p] = f[p]
  BY <1>1 DEF Links
<1>4. Ring(g) \subseteq Ring(f) \ {n}
  <2> DEFINE U == Ring(f) \ {n}
  <2>1. U \in SUBSET Places
    BY <1>1
  <2>2. \A p \in U : g[p] \in U
    BY <1>1, <1>2, <1>3
  <2>3. g[Head] \in U
    BY <1>1, <2>2
  <2> HIDE DEF U
  <2>4. Ring(g) \subseteq U
    BY <2>1, <2>2, <2>3, RingLeast
  <2> QED BY <2>4 DEF U
<1>5. /\ g[Head] \in Ring(g) /\ Ring(g) \subseteq Places
      /\ \A p \in Ring(g) \ {Head} : g[p] \in Ring(g)
  <2>1. g[Head] \in Places
    BY <1>1, <1>3 DEF Links
  <2> QED BY <1>3, <2>1, ReachedClosed DEF Ring
<1>6. Ring(f) \subseteq Ring(g) \union {n}
  <2> DEFINE T == Ring(g) \union {p \in {n} : q \in Ring(g) \/ q = Head}
  <2>1. T \in SUBSET Places
    BY <1>1, <1>5
  <2>2. f[Head] \in T
    BY <1>1, <1>3, <1>5
  <2>3. \A p \in T \ {Head} : f[p] \in T
    BY <1>1, <1>3, <1>5
  <2> HIDE DEF T
  <2>4. Ring(f) \subseteq T
    BY <2>1, <2>2, <2>3, RingLeast
  <2> QED BY <2>4 DEF T
<1>7. Ring(g) = Ring(f) \ {n}
  BY <1>4, <1>6
<1>8. IsRing(g)
  <2>1. Head \in Ring(g)
    BY <1>1, <1>7
  <2>2. ASSUME NEW p \in Ring(f) \ {n, q} PROVE g[p] = f[p] /\ g[p] # g[q]
    BY <1>1, <1>3
  <2>3. ASSUME NEW p \in Ring(g), NEW r \in Ring(g), g[p] = g[r] PROVE p = r
    <3>1. p \in Ring(f) \ {n} /\ r \in Ring(f) \ {n}
      BY <1>7
    <3>2. CASE p = q \/ r = q
      BY <2>2, <2>3, <3>1, <3>2
    <3>3. CASE p # q /\ r # q
      <4>1. f[p] = f[r]
        BY <2>2, <2>3, <3>1, <3>3
      <4> QED BY <1>1, <3>1, <4>1
    <3> QED BY <3>2, <3>3
  <2> QED BY <1>3, <2>1, <2>3 DEF IsRing
<1> QED BY <1>7, <1>8

\* Changing a place that is not on a ring.
LEMMA RingSame ==
  ASSUME NEW f, IsRing(f), NEW g \in Links, \A p \in Ring(f) : g[p] = f[p]
  PROVE  /\ IsRing(g) /\ Ring(g) = Ring(f)
         /\ \A c \in Ring(f) : Reached(g, c) = Reached(f, c)
<1>1. /\ f \in Links /\ Ring(f) \subseteq Places /\ Head \in Ring(f)
      /\ \A p \in Ring(f) : f[p] \in Ring(f)
  BY RingClosed DEF IsRing
<1>2. ASSUME NEW c \in Ring(f) PROVE Reached(g, c) = Reached(f, c)
  <2>1. Reached(f, c) \subseteq Ring(f)
    BY HeadReached
  <2> QED BY <1>1, <2>1, ReachedSame
<1>3. Ring(g) = Ring(f)
  BY <1>1, <1>2 DEF Ring
<1> QED BY <1>2, <1>3 DEF IsRing

-----------------------------------------------------------------------------
(***************************************************************************)
(* Registering and unregistering.                                          *)
(***************************************************************************)
\* The list is a ring at every step of the client, which has its entry off the
\* list and, before it puts it there, linked to the head and of a new event.
ListInv ==
  /\ ListOK
  /\ IsRing(flink)
  /\ listPc = "Insert" => /\ held \in allocated
                      /\ flink[held] = Head
                      /\ event[held] \notin Registered

LEMMA ListedIsRing == Listed = Ring(flink) \ {Head}
BY DEF Listed, Ring

LEMMA ListInvInit == ListInit => ListInv
<1> SUFFICES ASSUME ListInit PROVE ListInv
  OBVIOUS
<1>1. /\ flink = [p \in Places |-> Head] /\ Head \in Places
      /\ flink \in Links /\ flink[Head] = Head
  BY DEF ListInit, Links, Places
<1>2. Ring(flink) = {Head}
  BY <1>1, ReachedHead DEF Ring
<1>3. IsRing(flink)
  BY <1>1, <1>2 DEF IsRing
<1>4. Listed = {}
  BY <1>2, ListedIsRing
<1>5. ListTypeOK
  <2>1. signalled \in [Events -> 0 .. 2]
    BY DEF ListInit
  <2>2. flink \in [Places -> Places]
    BY <1>1 DEF Links
  <2> QED BY <1>1, <2>1, <2>2 DEF ListInit, ListTypeOK
<1> QED BY <1>3, <1>4, <1>5 DEF ListInit, ListInv, ListOK

\* The place before a place of the ring.
LEMMA BeforeIsThere ==
  ASSUME ListInv, NEW p \in Ring(flink)
  PROVE  Before(p) \in Ring(flink) /\ flink[Before(p)] = p
<1>1. Listed \union {Head} = Ring(flink)
  BY ListedIsRing DEF ListInv, IsRing
<1>2. \E q \in Ring(flink) : flink[q] = p
  BY Predecessor DEF ListInv
<1> QED BY <1>1, <1>2 DEF Before

LEMMA ListSame ==
  ASSUME ListInv, ListTypeOK', UNCHANGED <<flink, event, allocated, listPc, held>>
  PROVE  ListInv'
<1>1. Listed' = Listed
  BY DEF Listed
<1>2. Registered' = Registered
  BY <1>1 DEF Registered
<1> QED BY <1>1, <1>2 DEF ListInv, ListOK

LEMMA RegisterList ==
  ASSUME ListInv, NEW e \in Events, Register(e)
  PROVE  ListInv' /\ Listed' = Listed /\ Registered' = Registered
<1>1. PICK n \in Entries \ allocated :
        /\ allocated' = allocated \union {n}
        /\ event' = [event EXCEPT ![n] = e]
        /\ flink' = [flink EXCEPT ![n] = Head]
        /\ held' = n
  BY DEF Register
<1>2. /\ listPc' = "Insert" /\ UNCHANGED walkVars /\ e \notin Registered
  BY DEF Register, MayRegister
<1>3. /\ ListTypeOK /\ IsRing(flink) /\ Listed \subseteq allocated /\ held \notin Listed
      /\ \A m, k \in Listed : event[m] = event[k] => m = k
  BY DEF ListInv, ListOK
<1>4. n \notin Ring(flink) /\ n \in Places /\ Head \in Places
  BY <1>3, ListedIsRing, NotificationAssumption DEF Places
<1>5. /\ flink' \in Links /\ flink'[n] = Head
      /\ \A p \in Ring(flink) : flink'[p] = flink[p]
  BY <1>1, <1>3, <1>4, RingClosed DEF ListTypeOK, Links
<1>6. IsRing(flink') /\ Ring(flink') = Ring(flink)
  BY <1>3, <1>5, RingSame
<1>7. Listed' = Listed
  BY <1>6 DEF Listed, Ring
<1>8. \A m \in Listed : event'[m] = event[m]
  BY <1>1, <1>3 DEF ListTypeOK
<1>9. Registered' = Registered
  BY <1>7, <1>8 DEF Registered
<1>10. ListTypeOK'
  <2>1. event' \in [Entries -> Events]
    BY <1>1, <1>3 DEF ListTypeOK
  <2> QED BY <1>1, <1>2, <1>3, <1>4, <1>5, <2>1 DEF ListTypeOK, Links, walkVars
<1>11. event'[n] = e
  BY <1>1, <1>3 DEF ListTypeOK
<1>12. ListOK'
  <2>1. Listed' \subseteq allocated' /\ held' \notin Listed'
    BY <1>1, <1>3, <1>7
  <2>2. \A m, k \in Listed' : event'[m] = event'[k] => m = k
    BY <1>3, <1>7, <1>8
  <2> QED BY <1>10, <2>1, <2>2 DEF ListOK
<1>13. (listPc = "Insert" => /\ held \in allocated
                         /\ flink[held] = Head
                         /\ event[held] \notin Registered)'
  BY <1>1, <1>2, <1>5, <1>9, <1>11
<1> QED BY <1>6, <1>7, <1>9, <1>12, <1>13 DEF ListInv

\* What linking the new entry does to the ring and to what is ahead of a place.
LEMMA InsertRing ==
  ASSUME ListInv, RegisterInsert
  PROVE  /\ held \in Entries /\ held \notin Ring(flink)
         /\ IsRing(flink') /\ Ring(flink') = Ring(flink) \union {held}
         /\ \A c \in Ring(flink) \ {Head} :
              Reached(flink', c) = Reached(flink, c) \union {held}
<1>1. /\ ListTypeOK /\ IsRing(flink) /\ held \notin Listed
      /\ held \in allocated /\ flink[held] = Head
  BY DEF ListInv, ListOK, RegisterInsert
<1>2. held \in Entries /\ held \notin Ring(flink)
  BY <1>1, ListedIsRing, NotificationAssumption DEF ListTypeOK
<1>3. Head \in Ring(flink)
  BY <1>1 DEF IsRing
<1>4. Before(Head) \in Ring(flink) /\ flink[Before(Head)] = Head
  BY <1>3, BeforeIsThere
<1>5. flink' = [flink EXCEPT ![Before(Head)] = held]
  BY DEF RegisterInsert
<1> DEFINE q == Before(Head)
<1>6. q \in Ring(flink) /\ flink[q] = Head
  BY <1>4
<1>7. /\ flink' \in Links /\ flink'[q] = held
      /\ \A p \in Places : p # q => flink'[p] = flink[p]
  <2>1. flink \in Links /\ held \in Places /\ q \in Places
    BY <1>1, <1>2, <1>6, RingClosed DEF IsRing, Places
  <2> QED BY <1>5, <2>1 DEF Links
<1> HIDE DEF q
<1>8. /\ IsRing(flink') /\ Ring(flink') = Ring(flink) \union {held}
      /\ \A c \in Ring(flink) \ {Head} :
           Reached(flink', c) = Reached(flink, c) \union {held}
  BY <1>1, <1>2, <1>6, <1>7, RingInsert
<1> QED BY <1>2, <1>8

LEMMA InsertList ==
  ASSUME ListInv, RegisterInsert
  PROVE  /\ ListInv'
         /\ Listed' = Listed \union {held}
         /\ Registered' = Registered \union {event[held]}
<1>1. /\ ListTypeOK /\ Listed \subseteq allocated /\ held \notin Listed
      /\ held \in allocated /\ event[held] \notin Registered
      /\ \A m, k \in Listed : event[m] = event[k] => m = k
  BY DEF ListInv, ListOK, RegisterInsert
<1>2. /\ held \in Entries /\ IsRing(flink')
      /\ Ring(flink') = Ring(flink) \union {held}
  BY InsertRing
<1>3. /\ held' = Head /\ listPc' = "Idle"
      /\ UNCHANGED <<event, allocated, walkVars>>
  BY DEF RegisterInsert
<1>4. Listed' = Listed \union {held}
  BY <1>2, ListedIsRing, NotificationAssumption DEF Listed, Ring
<1>5. Registered' = Registered \union {event[held]}
  BY <1>3, <1>4 DEF Registered
<1>6. ListTypeOK'
  <2>1. flink' \in [Places -> Places] /\ Head \in Places
    BY <1>2 DEF IsRing, Links, Places
  <2> QED BY <1>1, <1>3, <2>1 DEF ListTypeOK, walkVars
<1>7. ListOK'
  <2>1. Listed' \subseteq allocated' /\ held' \notin Listed'
    BY <1>1, <1>2, <1>3, <1>4, NotificationAssumption DEF ListTypeOK
  <2>2. \A m, k \in Listed' : event'[m] = event'[k] => m = k
    BY <1>1, <1>3, <1>4 DEF Registered
  <2> QED BY <1>6, <2>1, <2>2 DEF ListOK
<1> QED BY <1>2, <1>3, <1>4, <1>5, <1>7 DEF ListInv

\* What unlinking an entry does to the ring; the entry still leads to it.
LEMMA UnlinkRing ==
  ASSUME ListInv, NEW n \in Listed, flink' = Unlinked(n)
  PROVE  /\ IsRing(flink') /\ Ring(flink') = Ring(flink) \ {n}
         /\ flink'[n] \in Ring(flink')
<1>1. IsRing(flink) /\ n \in Ring(flink) /\ n # Head
  BY ListedIsRing DEF ListInv
<1>2. Before(n) \in Ring(flink) /\ flink[Before(n)] = n
  BY <1>1, BeforeIsThere
<1> DEFINE q == Before(n)
<1>3. q \in Ring(flink) /\ flink[q] = n /\ flink' = [flink EXCEPT ![q] = flink[n]]
  BY <1>2 DEF Unlinked
<1> HIDE DEF q
<1>4. IsRing(flink') /\ Ring(flink') = Ring(flink) \ {n}
  BY <1>1, <1>3, RingRemove
<1>5. flink \in Links /\ n \in Places /\ q \in Places
  BY <1>1, <1>3, RingClosed DEF IsRing
<1>6. q # n
  <2>1. ASSUME q = n PROVE flink' = flink
    BY <1>3, <1>5, <2>1 DEF Links
  <2> QED BY <1>1, <1>4, <2>1
<1>7. flink'[q] \in Ring(flink')
  BY <1>3, <1>4, <1>6, RingClosed
<1> QED BY <1>3, <1>4, <1>5, <1>6, <1>7 DEF Links

LEMMA UnregisterList ==
  ASSUME ListInv, NEW e \in Events, Unregister(e)
  PROVE  ListInv'
<1>1. PICK n \in Listed : flink' = Unlinked(n) /\ held' = n
  BY DEF Unregister
<1>2. /\ listPc' = "Free" /\ overlapped' = (overlapped \/ walking)
      /\ UNCHANGED <<event, allocated, walking, cursor, signalled, due>>
  BY DEF Unregister
<1>3. /\ ListTypeOK /\ IsRing(flink) /\ Listed \subseteq allocated
      /\ \A m, k \in Listed : event[m] = event[k] => m = k
  BY DEF ListInv, ListOK
<1>4. n \in Ring(flink) /\ n # Head
  BY ListedIsRing
<1>6. IsRing(flink') /\ Ring(flink') = Ring(flink) \ {n}
  BY <1>1, UnlinkRing
<1>7. Listed' = Listed \ {n}
  BY <1>6, ListedIsRing DEF Listed, Ring
<1>8. ListTypeOK'
  <2>1. flink' \in [Places -> Places] /\ n \in Places
    BY <1>3, <1>4, <1>6, RingClosed DEF IsRing, Links
  <2> QED BY <1>1, <1>2, <1>3, <2>1 DEF ListTypeOK
<1>9. ListOK'
  <2>1. Listed' \subseteq allocated' /\ held' \notin Listed'
    BY <1>1, <1>2, <1>3, <1>7
  <2>2. \A m, k \in Listed' : event'[m] = event'[k] => m = k
    BY <1>2, <1>3, <1>7
  <2> QED BY <1>8, <2>1, <2>2 DEF ListOK
<1> QED BY <1>2, <1>6, <1>9 DEF ListInv

LEMMA FreeList ==
  ASSUME ListInv, UnregisterFree
  PROVE  ListInv'
<1>1. /\ allocated' = allocated \ {held} /\ held' = Head /\ listPc' = "Idle"
      /\ UNCHANGED <<flink, event, walkVars>>
  BY DEF UnregisterFree
<1>2. /\ ListTypeOK /\ IsRing(flink) /\ Listed \subseteq allocated /\ held \notin Listed
      /\ \A m, k \in Listed : event[m] = event[k] => m = k
  BY DEF ListInv, ListOK
<1>3. Listed' = Listed
  BY <1>1 DEF Listed
<1>4. ListTypeOK'
  BY <1>1, <1>2 DEF ListTypeOK, Places, walkVars
<1>5. ListOK'
  <2>1. Listed' \subseteq allocated' /\ held' \notin Listed'
    BY <1>1, <1>2, <1>3, ListedIsRing
  <2>2. \A m, k \in Listed' : event'[m] = event'[k] => m = k
    BY <1>1, <1>2, <1>3
  <2> QED BY <1>4, <2>1, <2>2 DEF ListOK
<1> QED BY <1>1, <1>2, <1>5 DEF ListInv

\* The loop of the DPC changes neither the list nor the entries.
LEMMA WalkList ==
  ASSUME ListInv, WalkBegin \/ WalkStep \/ WalkEnd
  PROVE  ListInv' /\ Listed' = Listed /\ Registered' = Registered
<1>1. UNCHANGED <<flink, event, allocated, listPc, held>>
  BY DEF WalkBegin, WalkStep, WalkEnd, listClientVars
<1>2. ListTypeOK /\ Head \in Places
  BY DEF ListInv, ListOK, Places
<1>3. CASE WalkBegin
  <2>1. /\ walking' = TRUE /\ cursor' = flink[Head] /\ cursor' \in Places
    BY <1>2, <1>3 DEF WalkBegin, ListTypeOK
  <2>2. signalled' \in [Events -> 0 .. 2]
    BY <1>3 DEF WalkBegin
  <2>3. due' \subseteq Events /\ overlapped' \in BOOLEAN
    BY <1>2, <1>3 DEF WalkBegin, Registered, Listed, Reached, ListTypeOK, Places
  <2>4. ListTypeOK'
    BY <1>1, <1>2, <2>1, <2>2, <2>3 DEF ListTypeOK
  <2> QED BY <1>1, <2>4, ListSame DEF Listed, Registered
<1>4. CASE WalkStep
  <2>1. walking' = walking /\ due' = due /\ overlapped' = overlapped
    BY <1>4 DEF WalkStep
  <2>2. cursor' \in Places /\ signalled' \in [Events -> 0 .. 2]
    <3>1. CASE cursor \in allocated
      <4>1. event[cursor] \in Events /\ cursor \in Places
        BY <1>2, <3>1 DEF ListTypeOK
      <4>2. Twice(signalled[event[cursor]] + 1) \in 0 .. 2
        BY <1>2, <4>1 DEF ListTypeOK, Twice
      <4>3. /\ signalled' = [signalled EXCEPT ![event[cursor]]
                                = Twice(signalled[event[cursor]] + 1)]
            /\ cursor' = flink[cursor]
        BY <1>4, <3>1 DEF WalkStep, NextPlace
      <4> QED BY <1>2, <4>1, <4>2, <4>3 DEF ListTypeOK
    <3>2. CASE cursor \notin allocated
      BY <1>2, <1>4, <3>2 DEF WalkStep, ListTypeOK
    <3> QED BY <3>1, <3>2
  <2>3. ListTypeOK'
    BY <1>1, <1>2, <2>1, <2>2 DEF ListTypeOK
  <2> QED BY <1>1, <2>3, ListSame DEF Listed, Registered
<1>5. CASE WalkEnd
  <2>1. ListTypeOK'
    BY <1>1, <1>2, <1>5 DEF WalkEnd, ListTypeOK
  <2> QED BY <1>1, <2>1, ListSame DEF Listed, Registered
<1> QED BY <1>3, <1>4, <1>5

LEMMA ListInvNext == ListInv /\ [ListNext]_listVars => ListInv'
<1> SUFFICES ASSUME ListInv, [ListNext]_listVars PROVE ListInv'
  OBVIOUS
<1>1. CASE UNCHANGED listVars
  <2>1. ListTypeOK'
    BY <1>1 DEF listVars, listClientVars, walkVars, ListInv, ListOK, ListTypeOK
  <2> QED BY <1>1, <2>1, ListSame DEF listVars, listClientVars
<1>2. ASSUME NEW e \in Events, Register(e) \/ Unregister(e) PROVE ListInv'
  BY <1>2, RegisterList, UnregisterList
<1>3. CASE RegisterInsert \/ UnregisterFree
  BY <1>3, InsertList, FreeList
<1>4. CASE WalkBegin \/ WalkStep \/ WalkEnd
  BY <1>4, WalkList
<1> QED BY <1>1, <1>2, <1>3, <1>4 DEF ListNext

LEMMA ListInvariant == ListSpec => []ListInv
BY ListInvInit, ListInvNext, PTL DEF ListSpec

\* Whatever is registered and unregistered, and whether or not the DPC walks
\* meanwhile, the list holds allocated entries of different events, and an entry
\* the client works on is off it.
THEOREM ListIsKept == ListSpec => []ListOK
<1>1. ListInv => ListOK
  BY DEF ListInv
<1> QED BY <1>1, ListInvariant, PTL

-----------------------------------------------------------------------------
(***************************************************************************)
(* The walk of the DPC.                                                    *)
(***************************************************************************)
\* As long as nothing is unregistered during a walk, what is ahead of the cursor
\* is what has not been signalled, and all that was registered at the start is
\* still on the list.
WalkInv ==
  walking /\ ~overlapped =>
    /\ listPc # "Free"
    /\ cursor \in Ring(flink)
    /\ due \subseteq Registered
    /\ \A n \in Listed :
         /\ n \in Reached(flink, cursor) => signalled[event[n]] = 0
         /\ n \notin Reached(flink, cursor) /\ event[n] \in due
              => signalled[event[n]] = 1
    /\ \A e \in Events : /\ signalled[e] <= 1
                         /\ signalled[e] # 0 => e \in Registered

LEMMA WalkSame ==
  ASSUME WalkInv, ListInv, UNCHANGED <<flink, event, walkVars>>, listPc' # "Free" \/ ~walking \/ overlapped
  PROVE  WalkInv'
<1>1. Listed' = Listed
  BY DEF Listed
<1>2. Registered' = Registered
  BY <1>1 DEF Registered
<1> QED BY <1>1, <1>2 DEF WalkInv, walkVars

LEMMA WalkRegister ==
  ASSUME WalkInv, ListInv, NEW e \in Events, Register(e)
  PROVE  WalkInv'
<1> SUFFICES ASSUME walking', ~overlapped' PROVE WalkInv'
  BY DEF WalkInv
<1>1. Listed' = Listed /\ Registered' = Registered
  BY RegisterList
<1>2. PICK n \in Entries \ allocated :
        /\ event' = [event EXCEPT ![n] = e]
        /\ flink' = [flink EXCEPT ![n] = Head]
  BY DEF Register
<1>3. listPc' = "Insert" /\ UNCHANGED walkVars /\ walking /\ ~overlapped
  BY DEF Register, walkVars
<1>4. ListTypeOK /\ IsRing(flink) /\ Listed \subseteq allocated
  BY DEF ListInv, ListOK
<1>5. n \notin Ring(flink) /\ n \in Places /\ Head \in Places
  BY <1>4, ListedIsRing, NotificationAssumption DEF Places
<1>6. flink' \in Links /\ \A p \in Ring(flink) : flink'[p] = flink[p]
  BY <1>2, <1>4, <1>5, RingClosed DEF ListTypeOK, Links
<1>7. cursor \in Ring(flink)
  BY <1>3 DEF WalkInv
<1>8. Ring(flink') = Ring(flink) /\ Reached(flink', cursor) = Reached(flink, cursor)
  BY <1>4, <1>6, <1>7, RingSame
<1>9. \A m \in Listed : event'[m] = event[m]
  BY <1>2, <1>4 DEF ListTypeOK
<1> QED BY <1>1, <1>3, <1>7, <1>8, <1>9 DEF WalkInv, walkVars

\* The new last entry is ahead of the cursor, unless the walk is over.
LEMMA WalkInsert ==
  ASSUME WalkInv, ListInv, RegisterInsert
  PROVE  WalkInv'
<1> SUFFICES ASSUME walking', ~overlapped' PROVE WalkInv'
  BY DEF WalkInv
<1>1. /\ Listed' = Listed \union {held}
      /\ Registered' = Registered \union {event[held]}
  BY InsertList
<1>2. /\ held \in Entries /\ held \notin Ring(flink) /\ IsRing(flink')
      /\ Ring(flink') = Ring(flink) \union {held}
      /\ \A c \in Ring(flink) \ {Head} :
           Reached(flink', c) = Reached(flink, c) \union {held}
  BY InsertRing
<1>3. /\ listPc' = "Idle" /\ UNCHANGED <<event, allocated, walkVars>>
      /\ walking /\ ~overlapped
  BY DEF RegisterInsert, walkVars
<1>4. /\ ListTypeOK /\ held \in allocated /\ event[held] \notin Registered
      /\ event[held] \in Events /\ IsRing(flink)
  <2>1. ListTypeOK /\ held \in allocated /\ event[held] \notin Registered /\ IsRing(flink)
    BY DEF ListInv, ListOK, RegisterInsert
  <2> QED BY <2>1 DEF ListTypeOK
<1>5. cursor \in Ring(flink) /\ due \subseteq Registered
  BY <1>3 DEF WalkInv
<1>6. signalled[event[held]] = 0
  BY <1>3, <1>4 DEF WalkInv
<1>7. event[held] \notin due
  BY <1>4, <1>5
<1>8. \A n \in Listed : n \in Reached(flink', cursor) <=> n \in Reached(flink, cursor)
  <2>1. CASE cursor = Head
    BY <1>2, <1>4, <2>1, ReachedHead DEF IsRing
  <2>2. CASE cursor # Head
    <3>1. Reached(flink', cursor) = Reached(flink, cursor) \union {held}
      BY <1>2, <1>5, <2>2
    <3> QED BY <1>2, <3>1, ListedIsRing
  <2> QED BY <2>1, <2>2
<1>9. ASSUME NEW n \in Listed'
      PROVE  /\ n \in Reached(flink', cursor) => signalled[event[n]] = 0
             /\ n \notin Reached(flink', cursor) /\ event[n] \in due
                  => signalled[event[n]] = 1
  <2>1. CASE n \in Listed
    BY <1>3, <1>8, <2>1 DEF WalkInv
  <2>2. CASE n = held
    BY <1>6, <1>7, <2>2
  <2> QED BY <1>1, <2>1, <2>2
<1>10. \A e \in Events : /\ signalled[e] <= 1
                         /\ signalled[e] # 0 => e \in Registered'
  BY <1>1, <1>3 DEF WalkInv
<1>11. cursor \in Ring(flink') /\ due \subseteq Registered'
  BY <1>1, <1>2, <1>5
<1> QED BY <1>3, <1>9, <1>10, <1>11 DEF WalkInv, walkVars

LEMMA WalkBegins ==
  ASSUME ListInv, WalkBegin
  PROVE  WalkInv'
<1> SUFFICES ASSUME ~overlapped' PROVE WalkInv'
  BY DEF WalkInv
<1>1. /\ walking' = TRUE /\ cursor' = flink[Head] /\ due' = Registered
      /\ signalled' = [e \in Events |-> 0]
      /\ UNCHANGED <<flink, event, listClientVars>>
      /\ listPc # "Free"
  BY DEF WalkBegin
<1>2. Listed' = Listed /\ Registered' = Registered
  BY WalkList
<1>3. IsRing(flink) /\ ListTypeOK /\ Listed \subseteq allocated
  BY DEF ListInv, ListOK
<1>4. flink[Head] \in Ring(flink) /\ Listed \subseteq Ring(flink)
  BY <1>3, RingClosed, ListedIsRing
<1>5. Reached(flink', cursor') = Ring(flink)
  BY <1>1 DEF Ring
<1>6. \A n \in Listed : event[n] \in Events
  BY <1>3 DEF ListTypeOK
<1>7. \A n \in Listed : signalled'[event[n]] = 0
  BY <1>1, <1>6
<1>8. \A e \in Events : signalled'[e] = 0
  BY <1>1
<1>9. cursor' \in Ring(flink')
  BY <1>1, <1>4
<1>10. listPc' = listPc /\ event' = event
  BY <1>1 DEF listClientVars
<1> QED BY <1>1, <1>2, <1>4, <1>5, <1>7, <1>8, <1>9, <1>10 DEF WalkInv

LEMMA WalkSteps ==
  ASSUME WalkInv, ListInv, WalkStep
  PROVE  WalkInv'
<1> SUFFICES ASSUME ~overlapped' PROVE WalkInv'
  BY DEF WalkInv
<1>1. /\ walking /\ ~overlapped /\ cursor # Head
      /\ UNCHANGED <<flink, event, listClientVars, walking, due, overlapped>>
  BY DEF WalkStep, LoopDone
<1>2. Listed' = Listed /\ Registered' = Registered
  BY WalkList
<1>3. /\ IsRing(flink) /\ ListTypeOK /\ Listed \subseteq allocated
      /\ \A m, n \in Listed : event[m] = event[n] => m = n
  BY DEF ListInv, ListOK
<1>4. cursor \in Listed /\ cursor \in allocated /\ cursor \in Ring(flink)
  BY <1>1, <1>3, ListedIsRing DEF WalkInv
<1>5. /\ event[cursor] \in Events /\ event[cursor] \in Registered
      /\ flink \in Links /\ cursor \in Places
  BY <1>3, <1>4, RingClosed DEF ListTypeOK, IsRing, Registered
<1>6. cursor \in Reached(flink, cursor)
  BY <1>5, ReachedClosed
<1>7. signalled[event[cursor]] = 0
  BY <1>1, <1>4, <1>6 DEF WalkInv
<1>8. /\ cursor' = flink[cursor]
      /\ signalled' = [signalled EXCEPT ![event[cursor]] = 1]
  BY <1>4, <1>7 DEF WalkStep, NextPlace, Twice
<1>9. /\ signalled'[event[cursor]] = 1
      /\ \A e \in Events : e # event[cursor] => signalled'[e] = signalled[e]
  BY <1>3, <1>5, <1>8 DEF ListTypeOK
<1>10. Reached(flink', cursor') = Reached(flink, cursor) \ {cursor}
  BY <1>1, <1>3, <1>4, <1>8, RingGoesOn
<1>11. cursor' \in Ring(flink')
  <2>1. flink[cursor] \in Ring(flink)
    BY <1>3, <1>4, RingClosed
  <2> QED BY <1>1, <1>8, <2>1
<1>12. ASSUME NEW n \in Listed
       PROVE  /\ n \in Reached(flink', cursor') => signalled'[event[n]] = 0
              /\ n \notin Reached(flink', cursor') /\ event[n] \in due
                   => signalled'[event[n]] = 1
  <2>1. event[n] \in Events
    BY <1>3 DEF ListTypeOK
  <2>2. CASE n = cursor
    BY <1>9, <1>10, <2>2
  <2>3. CASE n # cursor
    <3>1. signalled'[event[n]] = signalled[event[n]]
      BY <1>3, <1>4, <1>9, <2>1, <2>3
    <3>2. n \in Reached(flink', cursor') <=> n \in Reached(flink, cursor)
      BY <1>10, <2>3
    <3> QED BY <1>1, <3>1, <3>2 DEF WalkInv
  <2> QED BY <2>2, <2>3
<1>13. ASSUME NEW e \in Events
       PROVE  signalled'[e] <= 1 /\ (signalled'[e] # 0 => e \in Registered)
  <2>1. CASE e = event[cursor]
    BY <1>5, <1>9, <2>1
  <2>2. CASE e # event[cursor]
    BY <1>1, <1>9, <2>2 DEF WalkInv
  <2> QED BY <2>1, <2>2
<1>14. due \subseteq Registered /\ listPc # "Free"
  BY <1>1 DEF WalkInv
<1>15. listPc' = listPc /\ event' = event /\ due' = due
  BY <1>1 DEF listClientVars
<1> QED BY <1>2, <1>11, <1>12, <1>13, <1>14, <1>15 DEF WalkInv

LEMMA WalkInvNext ==
  ASSUME WalkInv, ListInv, [ListNext]_listVars
  PROVE  WalkInv'
<1>1. CASE UNCHANGED listVars
  <2>1. listPc' # "Free" \/ ~walking \/ overlapped
    BY <1>1 DEF listVars, listClientVars, WalkInv
  <2> QED BY <1>1, <2>1, WalkSame DEF listVars
<1>2. ASSUME NEW e \in Events, Register(e) PROVE WalkInv'
  BY <1>2, WalkRegister
<1>3. ASSUME NEW e \in Events, Unregister(e) PROVE WalkInv'
  BY <1>3 DEF Unregister, WalkInv
<1>4. CASE RegisterInsert
  BY <1>4, WalkInsert
<1>5. CASE UnregisterFree
  <2>1. UNCHANGED <<flink, event, walkVars>> /\ listPc' = "Idle"
    BY <1>5 DEF UnregisterFree
  <2> QED BY <2>1, WalkSame
<1>6. CASE WalkBegin
  BY <1>6, WalkBegins
<1>7. CASE WalkStep
  BY <1>7, WalkSteps
<1>8. CASE WalkEnd
  BY <1>8 DEF WalkEnd, WalkInv
<1> QED BY <1>1, <1>2, <1>3, <1>4, <1>5, <1>6, <1>7, <1>8 DEF ListNext

LEMMA WalkInvariant == ListSpec => []WalkInv
<1>1. ListInit => WalkInv
  BY DEF ListInit, WalkInv
<1>2. WalkInv /\ ListInv /\ [ListNext]_listVars => WalkInv'
  BY WalkInvNext
<1> QED BY <1>1, <1>2, ListInvariant, PTL DEF ListSpec

\* Unless an event is unregistered during the walk, a completed packet sets every
\* event that was registered when the walk began, once, and no event twice,
\* whatever is registered behind the DPC's back, whatever happened in earlier
\* walks and however many entries there are.
THEOREM WalksSignalAll == ListSpec => WalkSignalsAll
<1>1. WalkInv /\ ListInv /\ [ListNext]_listVars
        => [walking /\ ~walking' /\ ~overlapped
              => /\ \A e \in due : signalled[e] = 1
                 /\ \A e \in Events : signalled[e] <= 1]_listVars
  <2> SUFFICES ASSUME WalkInv, ListInv, [ListNext]_listVars,
                      walking, ~walking', ~overlapped
               PROVE  /\ \A e \in due : signalled[e] = 1
                      /\ \A e \in Events : signalled[e] <= 1
    OBVIOUS
  <2>1. WalkEnd
    BY DEF ListNext, Register, Unregister, RegisterInsert, UnregisterFree, WalkBegin,
       WalkStep, listVars, walkVars
  <2>2. cursor = Head
    BY <2>1 DEF WalkEnd, LoopDone
  <2>3. Reached(flink, cursor) = {Head}
    BY <2>2, ReachedHead DEF ListInv, IsRing
  <2>4. ASSUME NEW e \in due PROVE signalled[e] = 1
    <3>1. PICK n \in Listed : event[n] = e
      BY DEF WalkInv, Registered
    <3>2. n \notin Reached(flink, cursor)
      BY <2>3, ListedIsRing
    <3> QED BY <3>1, <3>2 DEF WalkInv
  <2> QED BY <2>4 DEF WalkInv
<1> QED BY <1>1, WalkInvariant, ListInvariant, PTL DEF ListSpec, WalkSignalsAll

-----------------------------------------------------------------------------
(***************************************************************************)
(* Unregistering during a walk.                                            *)
(***************************************************************************)
\* Every allocated entry is on the list or in the client's hand, and the one in
\* its hand still leads to the list.
HeldInv ==
  /\ allocated \subseteq Listed \union {held}
  /\ listPc = "Idle" => held = Head
  /\ listPc = "Free" => flink[held] \in Ring(flink)

LEMMA HeldSame ==
  ASSUME HeldInv, UNCHANGED <<flink, allocated, listPc, held>>
  PROVE  HeldInv'
<1>1. Listed' = Listed
  BY DEF Listed
<1> QED BY <1>1 DEF HeldInv

\* Between two calls of the client every allocated entry is on the list.
LEMMA IdleAllocated ==
  ASSUME HeldInv, ListInv, listPc = "Idle"
  PROVE  allocated \subseteq Listed
<1>1. allocated \subseteq Entries /\ Head \notin Entries
  BY NotificationAssumption DEF ListInv, ListOK, ListTypeOK
<1> QED BY <1>1 DEF HeldInv

LEMMA HeldUnregister ==
  ASSUME HeldInv, ListInv, NEW e \in Events, Unregister(e)
  PROVE  HeldInv'
<1>1. PICK n \in Listed : flink' = Unlinked(n) /\ held' = n
  BY DEF Unregister
<1>2. listPc = "Idle" /\ listPc' = "Free" /\ allocated' = allocated
  BY DEF Unregister
<1>3. Listed' = Listed \ {n} /\ ListInv'
  BY <1>1, UnregisterList, UnlinkRing, ListedIsRing DEF Listed, Ring
<1>4. flink'[n] \in Ring(flink')
  BY <1>1, UnlinkRing
<1>5. allocated' \subseteq Listed' \union {n}
  BY <1>2, <1>3, IdleAllocated
<1> QED BY <1>1, <1>2, <1>4, <1>5 DEF HeldInv

LEMMA HeldNext ==
  ASSUME HeldInv, ListInv, [ListNext]_listVars
  PROVE  HeldInv'
<1>1. ASSUME NEW e \in Events, Register(e) PROVE HeldInv'
  <2>1. Listed' = Listed
    BY <1>1, RegisterList
  <2>2. listPc' = "Insert" /\ allocated' \subseteq Listed' \union {held'}
    BY <1>1, <2>1, IdleAllocated DEF Register
  <2> QED BY <2>2 DEF HeldInv
<1>2. CASE RegisterInsert
  <2>1. Listed' = Listed \union {held}
    BY <1>2, InsertList
  <2> QED BY <1>2, <2>1 DEF RegisterInsert, HeldInv
<1>3. ASSUME NEW e \in Events, Unregister(e) PROVE HeldInv'
  BY <1>3, HeldUnregister
<1>4. CASE UnregisterFree
  <2>1. Listed' = Listed
    BY <1>4 DEF UnregisterFree, Listed
  <2> QED BY <1>4, <2>1 DEF UnregisterFree, HeldInv
<1>5. CASE WalkBegin \/ WalkStep \/ WalkEnd
  BY <1>5, HeldSame DEF WalkBegin, WalkStep, WalkEnd, listClientVars
<1>6. CASE UNCHANGED listVars
  BY <1>6, HeldSame DEF listVars, listClientVars
<1> QED BY <1>1, <1>2, <1>3, <1>4, <1>5, <1>6 DEF ListNext

LEMMA HeldInvariant == ListSpec => []HeldInv
<1>1. ListInit => HeldInv
  BY DEF ListInit, HeldInv
<1>2. HeldInv /\ ListInv /\ [ListNext]_listVars => HeldInv'
  BY HeldNext
<1> QED BY <1>1, <1>2, ListInvariant, PTL DEF ListSpec

\* What an entry or the head that the DPC stands on leads to is such a place too.
LEMMA LinkedIsValid ==
  ASSUME HeldInv, ListInv, CursorOnEntry
  PROVE  flink[cursor] \in allocated \union {Head}
<1>1. IsRing(flink) /\ Ring(flink) \subseteq allocated \union {Head}
  BY ListedIsRing DEF ListInv, ListOK
<1>2. CASE cursor \in Ring(flink)
  BY <1>1, <1>2, RingClosed
<1>3. CASE cursor \notin Ring(flink)
  <2>1. cursor = held /\ held # Head
    BY <1>1, <1>3, ListedIsRing DEF HeldInv, CursorOnEntry, IsRing
  <2>2. listPc = "Insert" \/ listPc = "Free"
    BY <2>1 DEF HeldInv, ListInv, ListOK, ListTypeOK
  <2> QED BY <1>1, <2>1, <2>2 DEF HeldInv, ListInv
<1> QED BY <1>2, <1>3

\* However the client registers and unregisters while the DPC walks, the DPC
\* comes to stand in freed memory in one way only: the client frees the entry
\* the DPC stands on.
THEOREM CursorStrandedByFree == ListSpec => OnlyFreeStrandsCursor
<1>1. HeldInv /\ ListInv /\ [ListNext]_listVars
        => [CursorOnEntry /\ ~CursorOnEntry'
              => UnregisterFree /\ held = cursor]_listVars
  <2> SUFFICES ASSUME HeldInv, ListInv, [ListNext]_listVars,
                      CursorOnEntry, ~CursorOnEntry'
               PROVE  UnregisterFree /\ held = cursor
    OBVIOUS
  <2>1. CASE UnregisterFree
    BY <2>1 DEF UnregisterFree, walkVars, CursorOnEntry
  <2>2. ASSUME NEW e \in Events, Register(e) \/ Unregister(e) PROVE FALSE
    BY <2>2 DEF Register, Unregister, walkVars, CursorOnEntry
  <2>3. CASE RegisterInsert \/ UNCHANGED listVars
    BY <2>3 DEF RegisterInsert, listVars, listClientVars, walkVars, CursorOnEntry
  <2>4. CASE WalkBegin
    <3>1. flink[Head] \in allocated \union {Head}
      BY RingClosed, ListedIsRing DEF ListInv, ListOK, IsRing
    <3> QED BY <2>4, <3>1 DEF WalkBegin, listClientVars, CursorOnEntry
  <2>5. CASE WalkStep
    <3>1. cursor \in allocated /\ cursor' = flink[cursor]
      BY <2>5 DEF WalkStep, LoopDone, NextPlace, CursorOnEntry
    <3> QED BY <2>5, <3>1, LinkedIsValid DEF WalkStep, listClientVars, CursorOnEntry
  <2>6. CASE WalkEnd
    BY <2>6 DEF WalkEnd, CursorOnEntry
  <2> QED BY <2>1, <2>2, <2>3, <2>4, <2>5, <2>6 DEF ListNext
<1> QED BY <1>1, HeldInvariant, ListInvariant, PTL DEF ListSpec, OnlyFreeStrandsCursor
=============================================================================
