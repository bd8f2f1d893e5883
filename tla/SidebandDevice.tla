--------------------------- MODULE SidebandDevice ---------------------------
(***************************************************************************)
(* One Bluetooth hands-free device (src/audio/sysvad/BthhfpDevice.cpp):    *)
(* the status notification requests it keeps pending at the driver below,  *)
(* their completion routine and work item, the SCO channel that its        *)
(* speaker and microphone streams share, and Stop.                         *)
(*                                                                         *)
(* The actors are the thread that starts and stops the device, the driver  *)
(* below, the threads of the work item, and the two streams, whose         *)
(* transitions run at the same time because they belong to different       *)
(* filters.  A synchronous request, which may fail or time out, is one     *)
(* step, and so is what the code does under m_Lock.                        *)
(***************************************************************************)
EXTENDS Integers, Sequences, FiniteSets

CONSTANTS
  Requests,   \* m_(SpeakerVolume|MicVolume|Connection|NRECDisableStatus)Req
  Streams,    \* streams of the speaker and the microphone filter
  Workers,    \* threads that may run the work item, which is not serialized
  NoRequest,  \* a thread has no request in hand
  MaxErrors   \* BTH_HFP_NOTIFICATION_MAX_ERROR_COUNT

ASSUME DeviceAssumption ==
  /\ IsFiniteSet(Streams)
  /\ NoRequest \notin Requests
  /\ MaxErrors \in Nat

VARIABLES
  device,       \* how far Start and Stop have come
  target,       \* m_WdfIoTarget takes requests, or is being or is purged
  request,      \* where each notification request is
  errors,       \* Errors of the context of each request
  collection,   \* m_ReqCollection
  queued,       \* m_WorkItem is enqueued
  worker,       \* what each thread is about to do, and with which request
  faulty,       \* the driver below fails every notification from now on
  stream,       \* where each stream is in StreamStart or StreamSuspend
  nStreams,     \* m_nStreams
  sco,          \* the SCO channel is open
  stray,        \* history: and it is so after a request of ours that failed
  streamReq,    \* where m_StreamReq is
  streamEvent,  \* m_StreamStatusEvent is set
  streamStatus  \* m_StreamStatus says that the stream is open

deviceVars == <<device, target>>
noticeVars == <<request, errors, collection, queued, worker, faulty>>
channelVars == <<sco, stray, streamReq, streamEvent, streamStatus>>
streamVars == <<stream, nStreams, channelVars>>
vars == <<deviceVars, noticeVars, streamVars>>

Idle == [at |-> "Idle", request |-> NoRequest]

\* After Init of the device, with all requests allocated.
Init ==
  /\ device = "Starting"
  /\ target = "Open"
  /\ request = [r \in Requests |-> "Unsent"]
  /\ errors = [r \in Requests |-> 0]
  /\ collection = <<>>
  /\ queued = FALSE
  /\ worker = [w \in Workers |-> Idle]
  /\ faulty = FALSE
  /\ stream = [s \in Streams |-> "Idle"]
  /\ nStreams = 0
  /\ sco = FALSE
  /\ stray = FALSE
  /\ streamReq = "Ready"
  /\ streamEvent = TRUE
  /\ streamStatus = FALSE

-----------------------------------------------------------------------------
\* Start, whose filters are installed, pends the notifications.
EnableNotification(r) ==
  /\ device = "Starting"
  /\ request[r] = "Unsent"
  /\ request' = [request EXCEPT ![r] = "Pending"]
  /\ UNCHANGED <<deviceVars, errors, collection, queued, worker, faulty,
                 streamVars>>

\* Start ends: all are pending, or one could not be sent.
StartEnds ==
  /\ device = "Starting"
  /\ device' = "Started"
  /\ UNCHANGED <<target, noticeVars, streamVars>>

\* Something is wrong with the interface below, for good.
Fault ==
  /\ faulty' = TRUE
  /\ UNCHANGED <<deviceVars, request, errors, collection, queued, worker,
                 streamVars>>

\* EvtBthHfpDeviceNotificationStatusCompletion of a cancelled request: it is
\* not sent again.
CompleteCancelled(r) ==
  /\ request[r] = "Pending"
  /\ target = "Purging"
  /\ request' = [request EXCEPT ![r] = "Dropped"]
  /\ UNCHANGED <<deviceVars, errors, collection, queued, worker, faulty,
                 streamVars>>

\* A bug to be caught: the errors of a request are forgotten.
Bug_ErrorsAfter(r, success) == 0

ErrorsAfter(r, success) == IF success THEN 0 ELSE errors[r] + 1

\* The same of one that succeeded or failed; after too many failures in a row,
\* or without memory for the collection, it is not sent again either.
CompleteNotification(r) ==
  /\ request[r] = "Pending"
  /\ \E success \in BOOLEAN :
       /\ faulty => ~success
       /\ errors' = [errors EXCEPT ![r] = ErrorsAfter(r, success)]
       /\ \/ /\ errors'[r] <= MaxErrors
             /\ collection' = Append(collection, r)
             /\ queued' = TRUE
             /\ request' = [request EXCEPT ![r] = "Collected"]
          \/ /\ request' = [request EXCEPT ![r] = "Dropped"]
             /\ UNCHANGED <<collection, queued>>
  /\ UNCHANGED <<deviceVars, worker, faulty, streamVars>>

-----------------------------------------------------------------------------
\* EvtBthHfpDeviceNotificationStatusWorkItem begins on a thread, which another
\* may be running already, ...
WorkerBegin(w) ==
  /\ queued
  /\ worker[w] = Idle
  /\ queued' = FALSE
  /\ worker' = [worker EXCEPT ![w] = [at |-> "Fetch", request |-> NoRequest]]
  /\ UNCHANGED <<deviceVars, request, errors, collection, faulty, streamVars>>

\* A bug to be caught: the request is looked at but not taken.
Bug_CollectionAfterFetch == collection

CollectionAfterFetch == Tail(collection)

\* ... takes the first request and handles it, or leaves the loop, ...
WorkerFetch(w) ==
  /\ worker[w].at = "Fetch"
  /\ \/ /\ collection = <<>>
        /\ worker' = [worker EXCEPT ![w] = Idle]
        /\ UNCHANGED <<request, collection>>
     \/ /\ collection # <<>>
        /\ worker' = [worker EXCEPT ![w] =
                        [at |-> "Resend", request |-> Head(collection)]]
        /\ collection' = CollectionAfterFetch
        /\ request' = [request EXCEPT ![Head(collection)] = "InHand"]
  /\ UNCHANGED <<deviceVars, errors, queued, faulty, streamVars>>

\* ... and sends the request again; if it cannot, it leaves the loop whatever
\* the collection holds.
WorkerResend(w) ==
  LET r == worker[w].request
  IN  /\ worker[w].at = "Resend"
      /\ \/ /\ target = "Open"
            /\ request' = [request EXCEPT ![r] = "Pending"]
            /\ worker' = [worker EXCEPT ![w] =
                            [at |-> "Fetch", request |-> NoRequest]]
         \/ /\ request' = [request EXCEPT ![r] = "Dropped"]
            /\ worker' = [worker EXCEPT ![w] = Idle]
      /\ UNCHANGED <<deviceVars, errors, collection, queued, faulty, streamVars>>

Worker(w) == WorkerBegin(w) \/ WorkerFetch(w) \/ WorkerResend(w)

-----------------------------------------------------------------------------
\* StreamStart counts the stream; the first opens the channel.
StreamStart(s) ==
  /\ stream[s] = "Idle"
  /\ nStreams' = nStreams + 1
  /\ stream' = [stream EXCEPT ![s] = IF nStreams' = 1 THEN "Open" ELSE "Started"]
  /\ UNCHANGED <<deviceVars, noticeVars, channelVars>>

\* SetBthHfpStreamOpen; a channel that is open already is no error.  A request
\* that times out may have opened it all the same.
StartOpen(s) ==
  /\ stream[s] = "Open"
  /\ \/ /\ target = "Open"
        /\ sco' = TRUE
        /\ stray' = FALSE
        /\ stream' = [stream EXCEPT ![s] = "SetStatus"]
     \/ /\ \/ UNCHANGED <<sco, stray>>
           \/ target = "Open" /\ sco' = TRUE /\ stray' = TRUE
        /\ stream' = [stream EXCEPT ![s] = "Undo"]
  /\ UNCHANGED <<deviceVars, noticeVars, nStreams, streamReq, streamEvent,
                 streamStatus>>

\* The status says that the channel is open.
StartSetStatus(s) ==
  /\ stream[s] = "SetStatus"
  /\ streamStatus' = TRUE
  /\ stream' = [stream EXCEPT ![s] = "ClearEvent"]
  /\ UNCHANGED <<deviceVars, noticeVars, nStreams, sco, stray, streamReq,
                 streamEvent>>

\* EnableBthHfpStreamStatusNotification clears the event ...
StartClearEvent(s) ==
  /\ stream[s] = "ClearEvent"
  /\ streamEvent' = FALSE
  /\ stream' = [stream EXCEPT ![s] = "Enable"]
  /\ UNCHANGED <<deviceVars, noticeVars, nStreams, sco, stray, streamReq,
                 streamStatus>>

\* ... and sends the request, which must be new or re-initialised.
StartEnable(s) ==
  /\ stream[s] = "Enable"
  /\ \/ /\ target = "Open"
        /\ streamReq = "Ready"
        /\ streamReq' = "Pending"
        /\ stream' = [stream EXCEPT ![s] = "Started"]
        /\ UNCHANGED streamEvent
     \/ /\ streamEvent' = TRUE
        /\ stream' = [stream EXCEPT ![s] = "UndoOpen"]
        /\ UNCHANGED streamReq
  /\ UNCHANGED <<deviceVars, noticeVars, nStreams, sco, stray, streamStatus>>

\* A bug to be caught: a start that fails stays counted.
Bug_CountAfterUndo == nStreams

CountAfterUndo == nStreams - 1

\* StreamStart failed: the stream is not counted, ...
StartUndo(s) ==
  /\ stream[s] \in {"Undo", "UndoOpen"}
  /\ nStreams' = CountAfterUndo
  /\ stream' = [stream EXCEPT ![s] =
                  IF @ = "Undo" THEN "ResetStatus" ELSE "UndoClose"]
  /\ UNCHANGED <<deviceVars, noticeVars, channelVars>>

\* SetBthHfpStreamClose, a synchronous request with a timeout, of which nobody
\* notices that it failed.
SetBthHfpStreamClose ==
  \/ /\ target = "Open"
     /\ sco' = FALSE
     /\ stray' = FALSE
  \/ /\ stray' = sco
     /\ UNCHANGED sco

\* ... a channel it has opened is closed, ...
StartUndoClose(s) ==
  /\ stream[s] = "UndoClose"
  /\ SetBthHfpStreamClose
  /\ stream' = [stream EXCEPT ![s] = "ResetStatus"]
  /\ UNCHANGED <<deviceVars, noticeVars, nStreams, streamReq, streamEvent,
                 streamStatus>>

\* ... and the status, here and at the end of StreamSuspend, says closed.
ResetStatus(s) ==
  /\ stream[s] = "ResetStatus"
  /\ streamStatus' = FALSE
  /\ stream' = [stream EXCEPT ![s] = "Idle"]
  /\ UNCHANGED <<deviceVars, noticeVars, nStreams, sco, stray, streamReq,
                 streamEvent>>

\* A bug to be caught: the channel is closed with the first stream that goes.
Bug_LastStream(count) == count = 1

LastStream(count) == count = 0

\* StreamSuspend; the last stream closes the channel, ...
StreamSuspend(s) ==
  /\ stream[s] = "Started"
  /\ nStreams' = nStreams - 1
  /\ stream' = [stream EXCEPT ![s] = IF LastStream(nStreams') THEN "Close" ELSE "Idle"]
  /\ UNCHANGED <<deviceVars, noticeVars, channelVars>>

SuspendClose(s) ==
  /\ stream[s] = "Close"
  /\ SetBthHfpStreamClose
  /\ stream' = [stream EXCEPT ![s] = "Cancel"]
  /\ UNCHANGED <<deviceVars, noticeVars, nStreams, streamReq, streamEvent,
                 streamStatus>>

\* ... cancels the stream status request ...
SuspendCancel(s) ==
  /\ stream[s] = "Cancel"
  /\ streamReq' = IF streamReq = "Pending" THEN "Cancelled" ELSE streamReq
  /\ stream' = [stream EXCEPT ![s] = "Wait"]
  /\ UNCHANGED <<deviceVars, noticeVars, nStreams, sco, stray, streamEvent,
                 streamStatus>>

\* ... and waits for it to be done, before it is re-initialised; one that is
\* still at the driver below cannot be.
SuspendWait(s) ==
  /\ stream[s] = "Wait"
  /\ streamEvent
  /\ streamReq' = IF streamReq = "Done" THEN "Ready" ELSE streamReq
  /\ stream' = [stream EXCEPT ![s] = "ResetStatus"]
  /\ UNCHANGED <<deviceVars, noticeVars, nStreams, sco, stray, streamEvent,
                 streamStatus>>

\* EvtBthHfpDeviceStreamStatusCompletion: the request was cancelled, by a
\* suspend or the purge, or failed, or the other side has closed the channel,
\* or it succeeded with any status of the stream.
CompleteStreamStatus ==
  /\ streamReq \in {"Pending", "Cancelled"}
  /\ streamReq' = "Done"
  /\ sco' \in {sco, FALSE}
  /\ stray' = (stray /\ sco')
  /\ streamStatus' \in BOOLEAN
  /\ streamEvent' = TRUE
  /\ UNCHANGED <<deviceVars, noticeVars, stream, nStreams>>

Stream(s) ==
  \/ StreamStart(s) \/ StartOpen(s) \/ StartSetStatus(s) \/ StartClearEvent(s)
  \/ StartEnable(s) \/ StartUndo(s) \/ StartUndoClose(s) \/ ResetStatus(s)
  \/ StreamSuspend(s) \/ SuspendClose(s) \/ SuspendCancel(s) \/ SuspendWait(s)

-----------------------------------------------------------------------------
\* Stop purges the target, ...
StopPurge ==
  /\ device = "Started"
  /\ device' = "Stopping"
  /\ target' = "Purging"
  /\ UNCHANGED <<noticeVars, streamVars>>

\* A bug to be caught: WdfIoTargetPurgeIo, which does not wait.
Bug_PurgeDone == TRUE

PurgeDone ==
  /\ \A r \in Requests : request[r] # "Pending"
  /\ streamReq \notin {"Pending", "Cancelled"}

\* ... which waits until every request it was sent is completed, ...
StopPurged ==
  /\ target = "Purging"
  /\ PurgeDone
  /\ target' = "Purged"
  /\ UNCHANGED <<device, noticeVars, streamVars>>

\* The work item is not queued and no thread runs it.
WorkersIdle == ~queued /\ \A w \in Workers : worker[w] = Idle

\* ... and flushes the work item, before the filters are removed.
StopFlush ==
  /\ device = "Stopping"
  /\ target = "Purged"
  /\ WorkersIdle
  /\ device' = "Stopped"
  /\ UNCHANGED <<target, noticeVars, streamVars>>

Next ==
  \/ \E r \in Requests :
       EnableNotification(r) \/ CompleteCancelled(r) \/ CompleteNotification(r)
  \/ StartEnds \/ Fault
  \/ \E w \in Workers : Worker(w)
  \/ \E s \in Streams : Stream(s)
  \/ CompleteStreamStatus
  \/ StopPurge \/ StopPurged \/ StopFlush

Spec == Init /\ [][Next]_vars

\* System worker threads run the work item, and each runs on.
FairSpec == Spec /\ \A w \in Workers : WF_vars(Worker(w))

-----------------------------------------------------------------------------
\* "After returning from this function, there are no more async notifications
\* pending": after Stop no request is at the driver below, no completion is to
\* come and the work item, which calls into the filters, is done.
QuietAfterStop ==
  device = "Stopped" =>
    /\ \A r \in Requests : request[r] # "Pending"
    /\ streamReq \notin {"Pending", "Cancelled"}
    /\ WorkersIdle

\* A request is in one place: sent, in the collection once, or in the hand of
\* one thread of the work item; it is never sent while a list still holds it.
RequestInOnePlace ==
  \A r \in Requests :
    /\ Cardinality({i \in DOMAIN collection : collection[i] = r})
         = (IF request[r] = "Collected" THEN 1 ELSE 0)
    /\ \A v, w \in Workers :
         worker[v].request = r /\ worker[w].request = r => v = w
    /\ (\E w \in Workers : worker[w].request = r) <=> request[r] = "InHand"

\* "If something is wrong with the HFP interface, do not loop forever": the
\* work item comes to rest when every notification fails.
NoEndlessRetry == <>[]faulty => <>[]WorkersIdle

\* Streams that count: started, or on the way to it and not taken back.
Counting == {s \in Streams : stream[s] \in {"Open", "SetStatus", "ClearEvent",
                                 "Enable", "Undo", "UndoOpen", "Started"}}

\* m_nStreams counts the streams that run or start, whichever of them overlap
\* or fail, so that the last one to go is known ("ASSERT(m_nStreams >= 0)").
StreamsCounted == nStreams = Cardinality(Counting)

\* No stream runs, starts or stops.
NoStream == \A s \in Streams : stream[s] = "Idle"

\* However streams overlap and fail, the last one takes back what they did: on
\* an idle device the SCO channel is open only after the very request to close
\* or open it failed, the status says so only because the stream status
\* request completed late, and no such request is left pending.
SilentWhenIdle ==
  NoStream /\ target = "Open" =>
    /\ sco => stray
    /\ streamStatus => streamReq = "Done"
    /\ streamReq # "Pending"

\* An idle device has no channel and no status that says it has.
ClosedWhenIdle == NoStream /\ target = "Open" => ~sco /\ ~streamStatus

\* "The function waits for the request to be done before returning": the next
\* stream finds the request ready to be sent.
RequestReadyWhenIdle ==
  NoStream /\ target = "Open" => streamReq = "Ready"

\* "ASSERT(nStreams == 0)" of StreamStart: a start that fails was the only one.
UndoneWasOnly ==
  [][\A s \in Streams :
       stream[s] \in {"Undo", "UndoOpen"} /\ stream'[s] # stream[s]
         => nStreams' = 0]_vars

\* A stream that has started has the channel, unless the other side or a stop
\* has closed it.
StartedHasChannel ==
  \A s \in Streams :
    stream[s] = "Started" /\ target = "Open" => sco \/ streamReq = "Done"
=============================================================================
