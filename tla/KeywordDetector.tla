-------------------------- MODULE KeywordDetector --------------------------
(***************************************************************************)
(* CKeywordDetector (src/audio/sysvad/EndpointsCommon/minwavert.cpp): two  *)
(* keyword detectors that share one simulated burst stream.  From the time *)
(* a detector is armed, or the stream runs, 10 ms packets are moved from a *)
(* pool to a fifo by the timer DPC, and from the fifo back to the pool by  *)
(* the client's GetReadPacket.                                             *)
(*                                                                         *)
(* Actors: one client (arming, SetState of the keyword pin, reading), the  *)
(* DPC of the keyword pin's own timer or of a sibling stream of the same   *)
(* filter, and time, counted in packets.  Taking an entry off a list and   *)
(* putting it on one are interlocked, so each is a step; ResetFifo takes   *)
(* no lock, and whether it may run while DpcRoutine does is a parameter.   *)
(***************************************************************************)
EXTENDS Integers, Sequences, SequencesExt

CONSTANTS
  Keywords,          \* CONTOSO_KEYWORD1 and CONTOSO_KEYWORD2
  Keyword1,          \* CONTOSO_KEYWORD1, the one of Set_SoundDetectorArmed
  PoolSize,          \* ARRAYSIZE(PacketPool): the packets of one second
  SiblingRuns,       \* another stream of the filter drives DpcRoutine too
  ResetsOverlap,     \* ResetFifo may run while DpcRoutine does
  MaxPackets         \* bound: packets that time may complete after a start

ASSUME KeywordAssumption ==
  /\ Keyword1 \in Keywords
  /\ PoolSize \in Nat \ {0, 1}
  /\ SiblingRuns \in BOOLEAN
  /\ ResetsOverlap \in BOOLEAN
  /\ MaxPackets \in Nat

VARIABLES
  pool,           \* PacketPoolHead: the entries on it
  fifo,           \* PacketFifoHead: the entries on it
  number,         \* PacketNumber of each entry
  started,        \* m_qpcStartCapture > 0
  currentPacket,  \* packets completed since m_qpcStartCapture
  lastQueued,     \* m_nLastQueuedPacket
  streamRunning,  \* m_streamRunning
  armed,          \* m_SoundDetectorArmed1 and m_SoundDetectorArmed2
  timer,          \* the notification timer of the keyword pin is set
  pc,             \* where the client is in its call
  readEntry,      \* the entry GetReadPacket holds, 0 for none
  dpcPc,          \* where the DPC is in DpcRoutine
  toQueue,        \* packetsToQueue
  dpcEntry,       \* the entry DpcRoutine holds, 0 for none
  lastRead        \* history: the last packet number read since a reset

listVars   == <<pool, fifo, number>>
startVars  == <<started, currentPacket, lastQueued>>
clientVars == <<streamRunning, armed, timer, pc, readEntry, lastRead>>
dpcVars    == <<dpcPc, toQueue, dpcEntry>>
vars == <<listVars, startVars, clientVars, dpcVars>>

Entries == 1 .. PoolSize
NoEntry == 0

Init ==
  /\ pool = [i \in Entries |-> i]
  /\ fifo = <<>>
  /\ number = [e \in Entries |-> 0]
  /\ started = FALSE
  /\ currentPacket = 0
  /\ lastQueued = -1
  /\ streamRunning = FALSE
  /\ armed = [k \in Keywords |-> FALSE]
  /\ timer = FALSE
  /\ pc = "Idle"
  /\ readEntry = NoEntry
  /\ dpcPc = "Idle"
  /\ toQueue = 0
  /\ dpcEntry = NoEntry
  /\ lastRead = -1

-----------------------------------------------------------------------------
(***************************************************************************)
(* The client.                                                             *)
(***************************************************************************)

\* A bug to be caught: the packet numbers go on after a reset.
Bug_NumbersKept == lastQueued

NumberAfterReset == -1

ResetFifo ==
  /\ ResetsOverlap \/ dpcPc = "Idle"
  /\ started' = FALSE
  /\ currentPacket' = 0
  /\ lastQueued' = NumberAfterReset
  /\ fifo' = <<>>
  /\ pool' = [i \in Entries |-> i]
  /\ lastRead' = -1
  /\ UNCHANGED number

\* The capture starts now, or goes on as it is.
StartBufferingStream ==
  /\ started' = TRUE
  /\ currentPacket' = 0
  /\ UNCHANGED <<listVars, lastQueued, lastRead>>

NoRestart == UNCHANGED <<listVars, startVars, lastRead>>

AnyArmed == \E k \in Keywords : armed[k]

\* SetArmed(TRUE), as the first half of Set_SoundDetectorArmed(2).
Arm(k, next) ==
  /\ pc = "Idle"
  /\ armed' = [armed EXCEPT ![k] = TRUE]
  /\ IF ~AnyArmed /\ ~started THEN StartBufferingStream ELSE NoRestart
  /\ pc' = next
  /\ UNCHANGED <<streamRunning, timer, readEntry, dpcVars>>

\* SetArmed(FALSE), a call of its own or the second half of
\* Set_SoundDetectorArmed.
Disarm(k, from) ==
  /\ pc = from
  /\ armed' = [armed EXCEPT ![k] = FALSE]
  /\ IF AnyArmed /\ ~streamRunning THEN ResetFifo ELSE NoRestart
  /\ pc' = "Idle"
  /\ UNCHANGED <<streamRunning, timer, readEntry, dpcVars>>

\* Set_SoundDetectorArmed2 notifies a detection as soon as it has armed.
\* While nobody streams the start of the capture moves to one second ago.
NotifyDetection ==
  /\ pc = "Notify"
  /\ IF streamRunning
     THEN NoRestart
     ELSE /\ started' = TRUE
          /\ currentPacket' = PoolSize
          /\ UNCHANGED <<listVars, lastQueued, lastRead>>
  /\ pc' = "Idle"
  /\ UNCHANGED <<streamRunning, armed, timer, readEntry, dpcVars>>

\* ResetDetector of one detector or, for GUID_NULL, of both; the fifo stays.
\* DownloadDetectorData does the same before it stores its data.
ResetDetector(reset) ==
  /\ pc = "Idle"
  /\ armed' = [k \in Keywords |-> armed[k] /\ k \notin reset]
  /\ UNCHANGED <<listVars, startVars, streamRunning, timer, pc, readEntry,
                 lastRead, dpcVars>>

\* SetState(KSSTATE_RUN) of the keyword pin: Run, then the timer is set.
Run ==
  /\ pc = "Idle"
  /\ ~streamRunning
  /\ IF ~started THEN StartBufferingStream ELSE NoRestart
  /\ streamRunning' = TRUE
  /\ timer' = TRUE
  /\ UNCHANGED <<armed, pc, readEntry, dpcVars>>

\* SetState(KSSTATE_PAUSE): Stop comes first ...
Stop ==
  /\ pc = "Idle"
  /\ streamRunning
  /\ ResetFifo
  /\ streamRunning' = FALSE
  /\ pc' = "CancelTimer"
  /\ UNCHANGED <<armed, timer, readEntry, dpcVars>>

\* ... and then the timer is cancelled and its DPC waited for.
CancelTimer ==
  /\ pc = "CancelTimer"
  /\ dpcPc = "Idle"
  /\ timer' = FALSE
  /\ pc' = "Idle"
  /\ UNCHANGED <<listVars, startVars, streamRunning, armed, readEntry,
                 lastRead, dpcVars>>

\* GetReadPacket takes the oldest entry off the fifo ...
ReadPacket ==
  /\ pc = "Idle"
  /\ fifo # <<>>
  /\ readEntry' = Head(fifo)
  /\ fifo' = Tail(fifo)
  /\ lastRead' = number[Head(fifo)]
  /\ pc' = "Reading"
  /\ UNCHANGED <<pool, number, startVars, streamRunning, armed, timer, dpcVars>>

\* A bug to be caught: the entry is not put back.
Bug_EntryKept == pool

PoolAfterRead == Append(pool, readEntry)

\* ... and puts it on the pool when it has copied the samples.
ReadReturn ==
  /\ pc = "Reading"
  /\ pool' = PoolAfterRead
  /\ readEntry' = NoEntry
  /\ pc' = "Idle"
  /\ UNCHANGED <<fifo, number, startVars, streamRunning, armed, timer,
                 lastRead, dpcVars>>

-----------------------------------------------------------------------------
(***************************************************************************)
(* Time and the DPC.                                                       *)
(***************************************************************************)

\* Another 10 ms of the capture.
Sample ==
  /\ started
  /\ currentPacket < MaxPackets
  /\ currentPacket' = currentPacket + 1
  /\ UNCHANGED <<listVars, started, lastQueued, clientVars, dpcVars>>

\* A bug to be caught: a capture that was not started is queued as well.
Bug_StartUnchecked == currentPacket > lastQueued

\* There are packets to queue.
QueueDue == started /\ currentPacket > lastQueued

\* DpcRoutine, which has to have a timer that calls it.
DpcStart ==
  /\ dpcPc = "Idle"
  /\ timer \/ SiblingRuns
  /\ QueueDue
  /\ toQueue' = currentPacket - lastQueued
  /\ dpcPc' = "TryPool"
  /\ UNCHANGED <<listVars, startVars, clientVars, dpcEntry>>

\* An entry of the pool is taken; if there is none the fifo is tried.
DpcTryPool ==
  /\ dpcPc = "TryPool"
  /\ IF pool # <<>>
     THEN /\ dpcEntry' = Head(pool)
          /\ pool' = Tail(pool)
          /\ dpcPc' = "Queue"
     ELSE /\ UNCHANGED <<dpcEntry, pool>>
          /\ dpcPc' = "TryFifo"
  /\ UNCHANGED <<fifo, number, startVars, clientVars, toQueue>>

\* A bug to be caught: the newest packet is dropped.
Bug_DropNewest == Len(fifo)

\* The place in the fifo of the packet an overrun drops: the oldest.
Dropped == 1

\* The fifo is tried; if it is empty too the reader has put an entry back, or
\* is about to.
DpcTryFifo ==
  /\ dpcPc = "TryFifo"
  /\ IF fifo # <<>>
     THEN /\ dpcEntry' = fifo[Dropped]
          /\ fifo' = RemoveAt(fifo, Dropped)
          /\ dpcPc' = "Queue"
     ELSE /\ UNCHANGED <<dpcEntry, fifo>>
          /\ dpcPc' = "TryPool"
  /\ UNCHANGED <<pool, number, startVars, clientVars, toQueue>>

\* A bug to be caught: the packet number does not advance.
Bug_NumberRepeated == IF lastQueued < 0 THEN 0 ELSE lastQueued

NextNumber == lastQueued + 1

\* The entry is filled and put at the end of the fifo.
DpcQueue ==
  /\ dpcPc = "Queue"
  /\ lastQueued' = NextNumber
  /\ number' = [number EXCEPT ![dpcEntry] = NextNumber]
  /\ fifo' = Append(fifo, dpcEntry)
  /\ dpcEntry' = NoEntry
  /\ toQueue' = toQueue - 1
  /\ dpcPc' = IF toQueue > 1 THEN "TryPool" ELSE "Idle"
  /\ UNCHANGED <<pool, started, currentPacket, clientVars>>

-----------------------------------------------------------------------------
\* Set_SoundDetectorArmed arms and disarms at once, or disarms.
Set_SoundDetectorArmed ==
  \/ Arm(Keyword1, "Disarm")
  \/ Disarm(Keyword1, "Disarm")
  \/ Disarm(Keyword1, "Idle")

\* Set_SoundDetectorArmed2 arms and notifies, or disarms.
Set_SoundDetectorArmed2 ==
  \/ \E k \in Keywords : Arm(k, "Notify") \/ Disarm(k, "Idle")
  \/ NotifyDetection

Client ==
  \/ Set_SoundDetectorArmed
  \/ Set_SoundDetectorArmed2
  \/ \E reset \in SUBSET Keywords : ResetDetector(reset)
  \/ Run \/ Stop \/ CancelTimer
  \/ ReadPacket \/ ReadReturn

Dpc == DpcStart \/ DpcTryPool \/ DpcTryFifo \/ DpcQueue

Next == Client \/ Sample \/ Dpc

Spec == Init /\ [][Next]_vars

\* A DPC that runs goes on, and so does GetReadPacket.
FairSpec == Spec /\ WF_vars(DpcTryPool \/ DpcTryFifo \/ DpcQueue)
                 /\ WF_vars(ReadReturn)

-----------------------------------------------------------------------------
(***************************************************************************)
(* Properties.                                                             *)
(***************************************************************************)

\* Every variable has its type.
TypeOK ==
  /\ pool \in Seq(Entries)
  /\ fifo \in Seq(Entries)
  /\ number \in [Entries -> Nat]
  /\ started \in BOOLEAN
  /\ currentPacket \in Nat
  /\ lastQueued \in Nat \union {-1}
  /\ streamRunning \in BOOLEAN
  /\ armed \in [Keywords -> BOOLEAN]
  /\ timer \in BOOLEAN
  /\ pc \in {"Idle", "Notify", "Disarm", "CancelTimer", "Reading"}
  /\ readEntry \in Entries \union {NoEntry}
  /\ dpcPc \in {"Idle", "TryPool", "TryFifo", "Queue"}
  /\ toQueue \in Nat
  /\ dpcEntry \in Entries \union {NoEntry}
  /\ lastRead \in Nat \union {-1}

\* Where an entry is: once on the pool, once on the fifo, or with one holder.
OnPool(e) == \E i \in 1 .. Len(pool) : pool[i] = e
OnFifo(e) == \E i \in 1 .. Len(fifo) : fifo[i] = e

\* No entry is lost, on both lists, on one of them twice, or on a list while
\* the DPC or the reader holds it: the links of a list entry serve one list.
EntryInOnePlace ==
  /\ \A i, j \in 1 .. Len(pool) : pool[i] = pool[j] => i = j
  /\ \A i, j \in 1 .. Len(fifo) : fifo[i] = fifo[j] => i = j
  /\ \A e \in Entries :
       {p \in {"pool", "fifo", "dpc", "reader"} :
          \/ p = "pool" /\ OnPool(e)
          \/ p = "fifo" /\ OnFifo(e)
          \/ p = "dpc" /\ dpcEntry = e
          \/ p = "reader" /\ readEntry = e} \in
       {{"pool"}, {"fifo"}, {"dpc"}, {"reader"}}

\* The fifo holds consecutive packets up to the newest one: an overrun drops
\* the oldest packets and nothing from the middle of the stream.
FifoConsecutive ==
  \A i \in 1 .. Len(fifo) : number[fifo[i]] = lastQueued - (Len(fifo) - i)

\* The queue is never ahead of the capture, so that every packet time
\* completes is queued by the next DPC.
QueueNotAhead == started => lastQueued <= currentPacket

\* NT_ASSERT(IsListEmpty(&PacketFifoHead)) of StartBufferingStream, as called
\* by Run and SetArmed.
StartsEmpty == ~started => fifo = <<>>

\* The client reads the packets of one capture in order and none twice.
ReadsInOrder ==
  [][readEntry = NoEntry /\ readEntry' # NoEntry => lastRead < lastRead']_vars

\* The loops of DpcRoutine, which runs at DISPATCH_LEVEL, end.
DpcEnds == dpcPc # "Idle" ~> dpcPc = "Idle"

\* NT_ASSERT(m_qpcStartCapture == 0) of StartBufferingStream, as called by
\* NotifyDetection.
DetectionStartsCapture == pc = "Notify" /\ ~streamRunning => ~started

\* "if it's not actively streaming and everything has been disarmed, then stop
\* buffering": to disarm one of two armed detectors leaves the capture alone.
DisarmKeepsOther ==
  [][\A k \in Keywords :
       armed[k] /\ ~armed'[k] /\ (\E j \in Keywords : armed'[j])
         => started' = started]_vars
=============================================================================
