------------------------ MODULE SidebandDeviceProofs ------------------------
(***************************************************************************)
(* Proofs about SidebandDevice, for any set of notification requests, any  *)
(* threads of the work item, any finite set of streams and any limit of    *)
(* errors.                                                                 *)
(***************************************************************************)
EXTENDS SidebandDevice, FiniteSetTheorems, TLAPS

Openers == {"Open", "SetStatus", "ClearEvent", "Enable", "Undo", "UndoOpen"}
Closers == {"Close", "Cancel", "Wait", "UndoClose", "ResetStatus"}

\* What a thread of the work item does.
Errands == [at : {"Idle", "Fetch", "Resend"}, request : Requests \union {NoRequest}]

TypeInv ==
  /\ device \in {"Starting", "Started", "Stopping", "Stopped"}
  /\ target \in {"Open", "Purging", "Purged"}
  /\ request \in [Requests -> {"Unsent", "Pending", "Collected", "InHand",
                               "Dropped"}]
  /\ collection \in Seq(Requests)
  /\ queued \in BOOLEAN
  /\ worker \in [Workers -> Errands]
  /\ stream \in [Streams -> {"Idle", "Started"} \union Openers \union Closers]
  /\ nStreams \in Int
  /\ sco \in BOOLEAN
  /\ stray \in BOOLEAN
  /\ streamReq \in {"Ready", "Pending", "Cancelled", "Done"}
  /\ streamStatus \in BOOLEAN

-----------------------------------------------------------------------------
(***************************************************************************)
(* Types.                                                                  *)
(***************************************************************************)
LEMMA TypeInit == Init => TypeInv
<1> SUFFICES ASSUME Init PROVE TypeInv
  OBVIOUS
<1>1. worker \in [Workers -> Errands]
  BY DEF Init, Idle, Errands
<1>2. /\ request \in [Requests -> {"Unsent", "Pending", "Collected", "InHand",
                                   "Dropped"}]
      /\ stream \in [Streams -> {"Idle", "Started"} \union Openers \union Closers]
      /\ collection \in Seq(Requests)
      /\ nStreams \in Int
  BY DEF Init
<1> QED BY <1>1, <1>2 DEF Init, TypeInv

\* The steps of the notifications.
LEMMA TypeNotice ==
  ASSUME TypeInv, NEW r \in Requests,
         \/ EnableNotification(r) \/ CompleteCancelled(r)
         \/ CompleteNotification(r)
  PROVE  TypeInv'
<1>1. CASE EnableNotification(r)
  BY <1>1 DEF TypeInv, EnableNotification, deviceVars, streamVars, channelVars
<1>2. CASE CompleteCancelled(r)
  BY <1>2 DEF TypeInv, CompleteCancelled, deviceVars, streamVars, channelVars
<1>3. CASE CompleteNotification(r)
  <2>1. collection' \in Seq(Requests) /\ queued' \in BOOLEAN
    <3>1. CASE collection' = Append(collection, r) /\ queued' = TRUE
      BY <3>1 DEF TypeInv
    <3>2. CASE UNCHANGED <<collection, queued>>
      BY <3>2 DEF TypeInv
    <3> QED BY <1>3, <3>1, <3>2 DEF CompleteNotification
  <2>2. request' \in [Requests -> {"Unsent", "Pending", "Collected", "InHand",
                                   "Dropped"}]
    BY <1>3 DEF TypeInv, CompleteNotification
  <2>3. /\ UNCHANGED <<device, target, worker, stream, nStreams>>
        /\ UNCHANGED <<sco, stray, streamReq, streamStatus>>
    BY <1>3 DEF CompleteNotification, deviceVars, streamVars, channelVars
  <2> QED BY <2>1, <2>2, <2>3 DEF TypeInv
<1> QED BY <1>1, <1>2, <1>3

\* The steps of the work item.
LEMMA TypeWorker ==
  ASSUME TypeInv, NEW w \in Workers, Worker(w)
  PROVE  TypeInv'
<1> USE DEF Errands
<1>1. CASE WorkerBegin(w)
  BY <1>1 DEF TypeInv, WorkerBegin, deviceVars, streamVars, channelVars
<1>2. CASE WorkerFetch(w)
  <2>1. CASE collection = <<>>
    BY <1>2, <2>1 DEF TypeInv, WorkerFetch, Idle, deviceVars, streamVars,
                      channelVars
  <2>2. CASE collection # <<>>
    <3>1. Head(collection) \in Requests /\ Tail(collection) \in Seq(Requests)
      BY <2>2 DEF TypeInv
    <3>2. worker' \in [Workers -> Errands]
      BY <1>2, <2>2, <3>1 DEF WorkerFetch, TypeInv
    <3>3. /\ collection' \in Seq(Requests)
          /\ request' \in [Requests -> {"Unsent", "Pending", "Collected",
                                        "InHand", "Dropped"}]
      BY <1>2, <2>2, <3>1 DEF TypeInv, WorkerFetch, CollectionAfterFetch
    <3>4. UNCHANGED <<deviceVars, queued, streamVars>>
      BY <1>2 DEF WorkerFetch
    <3> QED BY <3>2, <3>3, <3>4 DEF TypeInv, deviceVars, streamVars, channelVars
  <2> QED BY <2>1, <2>2
<1>3. CASE WorkerResend(w)
  BY <1>3 DEF TypeInv, WorkerResend, Idle, deviceVars, streamVars, channelVars
<1> QED BY <1>1, <1>2, <1>3 DEF Worker

\* The steps of a stream.
LEMMA TypeStream ==
  ASSUME TypeInv, NEW s \in Streams, Stream(s)
  PROVE  TypeInv'
<1>0. stream' \in [Streams -> {"Idle", "Started"} \union Openers \union Closers]
  BY DEF TypeInv, Stream, StreamStart, StartOpen, StartSetStatus, StartClearEvent,
         StartEnable, StartUndo, StartUndoClose, ResetStatus, StreamSuspend,
         SuspendClose, SuspendCancel, SuspendWait, Openers, Closers
<1>1. nStreams' \in Int
  BY DEF TypeInv, Stream, StreamStart, StartOpen, StartSetStatus, StartClearEvent,
         StartEnable, StartUndo, StartUndoClose, ResetStatus, StreamSuspend,
         SuspendClose, SuspendCancel, SuspendWait, CountAfterUndo
<1>2. /\ sco' \in BOOLEAN /\ stray' \in BOOLEAN
      /\ streamStatus' \in BOOLEAN
  <2>1. sco' \in {sco, TRUE, FALSE} /\ stray' \in {stray, sco, TRUE, FALSE}
    BY DEF Stream, StreamStart, StartOpen, StartSetStatus, StartClearEvent,
           StartEnable, StartUndo, StartUndoClose, ResetStatus, StreamSuspend,
           SuspendClose, SuspendCancel, SuspendWait, SetBthHfpStreamClose,
           channelVars
  <2>2. streamStatus' \in {streamStatus, TRUE, FALSE}
    BY DEF Stream, StreamStart, StartOpen, StartSetStatus, StartClearEvent,
           StartEnable, StartUndo, StartUndoClose, ResetStatus, StreamSuspend,
           SuspendClose, SuspendCancel, SuspendWait, channelVars
  <2> QED BY <2>1, <2>2 DEF TypeInv
<1>3. streamReq' \in {"Ready", "Pending", "Cancelled", "Done"}
  BY DEF TypeInv, Stream, StreamStart, StartOpen, StartSetStatus, StartClearEvent,
         StartEnable, StartUndo, StartUndoClose, ResetStatus, StreamSuspend,
         SuspendClose, SuspendCancel, SuspendWait, channelVars
<1>4. UNCHANGED <<deviceVars, noticeVars>>
  BY DEF Stream, StreamStart, StartOpen, StartSetStatus, StartClearEvent,
         StartEnable, StartUndo, StartUndoClose, ResetStatus, StreamSuspend,
         SuspendClose, SuspendCancel, SuspendWait
<1> QED BY <1>0, <1>1, <1>2, <1>3, <1>4 DEF TypeInv, deviceVars, noticeVars

LEMMA TypeNext ==
  ASSUME TypeInv, [Next]_vars
  PROVE  TypeInv'
<1>1. ASSUME NEW r \in Requests, \/ EnableNotification(r) \/ CompleteCancelled(r)
                                 \/ CompleteNotification(r)
      PROVE  TypeInv'
  BY <1>1, TypeNotice
<1>2. CASE StartEnds
  BY <1>2 DEF TypeInv, StartEnds, noticeVars, streamVars, channelVars
<1>3. CASE Fault
  BY <1>3 DEF TypeInv, Fault, deviceVars, streamVars, channelVars
<1>4. ASSUME NEW w \in Workers, Worker(w) PROVE TypeInv'
  BY <1>4, TypeWorker
<1>5. ASSUME NEW s \in Streams, Stream(s) PROVE TypeInv'
  BY <1>5, TypeStream
<1>6. CASE CompleteStreamStatus
  <2>1. sco' \in BOOLEAN /\ stray' \in BOOLEAN
    BY <1>6 DEF TypeInv, CompleteStreamStatus
  <2> QED BY <1>6, <2>1 DEF TypeInv, CompleteStreamStatus, deviceVars, noticeVars
<1>7. CASE StopPurge
  BY <1>7 DEF TypeInv, StopPurge, noticeVars, streamVars, channelVars
<1>8. CASE StopPurged
  BY <1>8 DEF TypeInv, StopPurged, noticeVars, streamVars, channelVars
<1>9. CASE StopFlush
  BY <1>9 DEF TypeInv, StopFlush, noticeVars, streamVars, channelVars
<1>10. CASE UNCHANGED vars
  BY <1>10 DEF TypeInv, vars, deviceVars, noticeVars, streamVars, channelVars
<1> QED BY <1>1, <1>2, <1>3, <1>4, <1>5, <1>6, <1>7, <1>8, <1>9, <1>10 DEF Next

-----------------------------------------------------------------------------
(***************************************************************************)
(* After Stop everything is quiet.                                         *)
(***************************************************************************)

\* The target is open until Stop purges it, and once it is purged nothing is
\* sent through it any more.
QuietInv ==
  /\ device \in {"Starting", "Started"} => target = "Open"
  /\ device = "Stopped" => target = "Purged"
  /\ target = "Purged" => /\ \A r \in Requests : request[r] # "Pending"
                          /\ streamReq \notin {"Pending", "Cancelled"}
  /\ device = "Stopped" => WorkersIdle

LEMMA QuietInit == Init => QuietInv
BY DEF Init, QuietInv

LEMMA QuietNext ==
  ASSUME TypeInv, QuietInv, [Next]_vars
  PROVE  QuietInv'
<1> USE DEF WorkersIdle
<1>1. ASSUME NEW r \in Requests, EnableNotification(r) PROVE QuietInv'
  BY <1>1 DEF EnableNotification, QuietInv, TypeInv, deviceVars, streamVars,
              channelVars
<1>2. ASSUME NEW r \in Requests, CompleteCancelled(r) PROVE QuietInv'
  <2>1. target # "Purged" /\ device # "Stopped"
    BY <1>2 DEF CompleteCancelled, QuietInv
  <2> QED BY <1>2, <2>1 DEF CompleteCancelled, QuietInv, deviceVars
<1>3. ASSUME NEW r \in Requests, CompleteNotification(r) PROVE QuietInv'
  <2>1. target # "Purged" /\ device # "Stopped"
    BY <1>3 DEF CompleteNotification, QuietInv
  <2> QED BY <1>3, <2>1 DEF CompleteNotification, QuietInv, deviceVars
<1>4. CASE StartEnds
  BY <1>4 DEF StartEnds, QuietInv, noticeVars, streamVars, channelVars
<1>5. CASE Fault
  BY <1>5 DEF Fault, QuietInv, deviceVars, streamVars, channelVars
<1>6. ASSUME NEW w \in Workers, Worker(w) PROVE QuietInv'
  <2>1. device # "Stopped"
    BY <1>6 DEF Worker, WorkerBegin, WorkerFetch, WorkerResend, QuietInv, Idle
  <2>2. UNCHANGED <<device, target, streamReq>>
    BY <1>6 DEF Worker, WorkerBegin, WorkerFetch, WorkerResend, deviceVars,
                streamVars, channelVars
  <2>3. target = "Purged" => \A r \in Requests : request'[r] # "Pending"
    BY <1>6 DEF Worker, WorkerBegin, WorkerFetch, WorkerResend, QuietInv, TypeInv
  <2> QED BY <2>1, <2>2, <2>3 DEF QuietInv
<1>7. ASSUME NEW s \in Streams, Stream(s) PROVE QuietInv'
  <2>1. UNCHANGED <<deviceVars, noticeVars>>
    BY <1>7 DEF Stream, StreamStart, StartOpen, StartSetStatus, StartClearEvent,
                StartEnable, StartUndo, StartUndoClose, ResetStatus, StreamSuspend,
                SuspendClose, SuspendCancel, SuspendWait
  <2>2. streamReq' \in {"Pending", "Cancelled"} =>
          streamReq \in {"Pending", "Cancelled"} \/ target = "Open"
    BY <1>7 DEF Stream, StreamStart, StartOpen, StartSetStatus, StartClearEvent,
                StartEnable, StartUndo, StartUndoClose, ResetStatus, StreamSuspend,
                SuspendClose, SuspendCancel, SuspendWait, channelVars
  <2> QED BY <2>1, <2>2 DEF QuietInv, deviceVars, noticeVars
<1>8. CASE CompleteStreamStatus
  BY <1>8 DEF CompleteStreamStatus, QuietInv, deviceVars, noticeVars
<1>9. CASE StopPurge
  BY <1>9 DEF StopPurge, QuietInv, noticeVars, streamVars, channelVars
<1>10. CASE StopPurged
  BY <1>10 DEF StopPurged, PurgeDone, QuietInv, noticeVars, streamVars,
               channelVars
<1>11. CASE StopFlush
  BY <1>11 DEF StopFlush, QuietInv, noticeVars, streamVars, channelVars
<1>12. CASE UNCHANGED vars
  BY <1>12 DEF vars, QuietInv, deviceVars, noticeVars, streamVars, channelVars
<1> QED BY <1>1, <1>2, <1>3, <1>4, <1>5, <1>6, <1>7, <1>8, <1>9, <1>10, <1>11,
           <1>12 DEF Next

-----------------------------------------------------------------------------
(***************************************************************************)
(* A notification request is in one place.                                 *)
(***************************************************************************)

\* The collection holds no request twice and exactly those marked collected,
Collects ==
  /\ \A i, j \in 1 .. Len(collection) : collection[i] = collection[j] => i = j
  /\ \A i \in 1 .. Len(collection) : request[collection[i]] = "Collected"
  /\ \A r \in Requests : request[r] = "Collected" =>
       \E i \in 1 .. Len(collection) : collection[i] = r

\* and the threads of the work item hold exactly those in hand, one each.
Holds ==
  /\ \A w \in Workers : worker[w].at = "Resend" <=> worker[w].request # NoRequest
  /\ \A w \in Workers :
       worker[w].request # NoRequest => request[worker[w].request] = "InHand"
  /\ \A r \in Requests : request[r] = "InHand" =>
       \E w \in Workers : worker[w].request = r
  /\ \A v, w \in Workers :
       worker[v].request = worker[w].request /\ worker[v].request # NoRequest
         => v = w

PlaceInv == Collects /\ Holds

LEMMA PlaceInit == Init => PlaceInv
BY DeviceAssumption DEF Init, PlaceInv, Collects, Holds, Idle

\* What moves a request that is in no thread's hand, to no thread's hand.
LEMMA HoldsOther ==
  ASSUME TypeInv, Holds, NEW r \in Requests, request[r] # "InHand",
         NEW at \in {"Pending", "Dropped", "Collected"},
         request' = [request EXCEPT ![r] = at],
         UNCHANGED worker
  PROVE  Holds'
<1>1. \A w \in Workers : worker[w].request # r
  BY DeviceAssumption DEF Holds
<1>2. \A q \in Requests : request'[q] = "InHand" <=> request[q] = "InHand"
  BY DEF TypeInv
<1>3. \A w \in Workers :
        worker[w].request # NoRequest => worker[w].request \in Requests
  BY DEF TypeInv, Errands
<1> QED BY <1>1, <1>2, <1>3 DEF Holds

\* A request that is neither in the collection nor in hand moves.
LEMMA PlaceOther ==
  ASSUME TypeInv, PlaceInv, NEW r \in Requests,
         request[r] \notin {"Collected", "InHand"},
         NEW at \in {"Pending", "Dropped"},
         request' = [request EXCEPT ![r] = at],
         UNCHANGED <<collection, worker>>
  PROVE  PlaceInv'
<1>1. \A i \in 1 .. Len(collection) :
        collection[i] \in Requests /\ collection[i] # r
  BY DEF TypeInv, PlaceInv, Collects
<1>2. Collects'
  BY <1>1 DEF TypeInv, PlaceInv, Collects
<1> QED BY <1>2, HoldsOther DEF PlaceInv

\* A completed request is appended to the collection.
LEMMA PlaceCollect ==
  ASSUME TypeInv, PlaceInv, NEW r \in Requests, request[r] = "Pending",
         request' = [request EXCEPT ![r] = "Collected"],
         collection' = Append(collection, r),
         UNCHANGED worker
  PROVE  PlaceInv'
<1> DEFINE n == Len(collection)
<1>1. /\ Len(collection') = n + 1 /\ collection'[n + 1] = r
      /\ \A i \in 1 .. n : collection'[i] = collection[i]
      /\ n \in Nat
  BY DEF TypeInv
<1>2. \A i \in 1 .. n : collection[i] \in Requests /\ collection[i] # r
  BY DEF TypeInv, PlaceInv, Collects
<1>3. \A i, j \in 1 .. n + 1 : collection'[i] = collection'[j] => i = j
  BY <1>1, <1>2 DEF PlaceInv, Collects
<1>4. \A i \in 1 .. n + 1 : request'[collection'[i]] = "Collected"
  BY <1>1, <1>2 DEF PlaceInv, Collects, TypeInv
<1>5. ASSUME NEW q \in Requests, request'[q] = "Collected"
      PROVE  \E i \in 1 .. n + 1 : collection'[i] = q
  <2>1. CASE q = r
    BY <1>1, <2>1
  <2>2. CASE q # r
    <3>1. request[q] = "Collected"
      BY <1>5, <2>2 DEF TypeInv
    <3>2. PICK i \in 1 .. n : collection[i] = q
      BY <3>1 DEF PlaceInv, Collects
    <3> QED BY <1>1, <3>2
  <2> QED BY <2>1, <2>2
<1>6. Collects'
  BY <1>1, <1>3, <1>4, <1>5 DEF Collects
<1> QED BY <1>6, HoldsOther DEF PlaceInv

\* A thread takes the first of the collection.
LEMMA PlaceFetch ==
  ASSUME TypeInv, PlaceInv, NEW w \in Workers, worker[w].at = "Fetch",
         collection # <<>>,
         worker' = [worker EXCEPT ![w] =
                     [at |-> "Resend", request |-> Head(collection)]],
         collection' = Tail(collection),
         request' = [request EXCEPT ![Head(collection)] = "InHand"]
  PROVE  PlaceInv'
<1> DEFINE n == Len(collection)
           r == Head(collection)
<1>1. /\ Len(collection') = n - 1 /\ r = collection[1]
      /\ \A i \in 1 .. n - 1 : collection'[i] = collection[i + 1]
      /\ n \in Nat \ {0} /\ r \in Requests
      /\ \A i \in 1 .. n : collection[i] \in Requests
  BY DEF TypeInv
<1>2. request[r] = "Collected"
  BY <1>1 DEF PlaceInv, Collects
<1>3. \A i, j \in 1 .. n - 1 : collection'[i] = collection'[j] => i = j
  <2> SUFFICES ASSUME NEW i \in 1 .. n - 1, NEW j \in 1 .. n - 1,
                      collection'[i] = collection'[j]
               PROVE  i = j
    OBVIOUS
  <2>1. i + 1 = j + 1
    BY <1>1 DEF PlaceInv, Collects
  <2> QED BY <1>1, <2>1
<1>4. ASSUME NEW i \in 1 .. n - 1 PROVE request'[collection'[i]] = "Collected"
  <2>1. collection'[i] = collection[i + 1] /\ i + 1 \in 1 .. n
    BY <1>1
  <2>2. collection[i + 1] # r
    BY <1>1, <2>1 DEF PlaceInv, Collects
  <2> QED BY <1>1, <2>1, <2>2 DEF PlaceInv, Collects, TypeInv
<1>5. ASSUME NEW q \in Requests, request'[q] = "Collected"
      PROVE  \E i \in 1 .. n - 1 : collection'[i] = q
  <2>1. q # r /\ request[q] = "Collected"
    BY <1>1, <1>5 DEF TypeInv
  <2>2. PICK i \in 1 .. n : collection[i] = q
    BY <2>1 DEF PlaceInv, Collects
  <2>3. i - 1 \in 1 .. n - 1 /\ collection'[i - 1] = q
    BY <1>1, <2>1, <2>2
  <2> QED BY <2>3
<1>6. Collects'
  BY <1>1, <1>3, <1>4, <1>5 DEF Collects
<1>7. /\ \A v \in Workers \ {w} : worker'[v] = worker[v] /\ worker[v].request # r
      /\ worker'[w] = [at |-> "Resend", request |-> r]
      /\ worker[w].request = NoRequest /\ r # NoRequest
  BY <1>1, <1>2, DeviceAssumption DEF PlaceInv, Holds, TypeInv
<1>8. \A q \in Requests : request'[q] = "InHand" <=> request[q] = "InHand" \/ q = r
  BY <1>1 DEF TypeInv
<1>9. \A v \in Workers :
        worker[v].request # NoRequest => worker[v].request \in Requests
  BY DEF TypeInv, Errands
<1>10. Holds'
  <2>1. \A v \in Workers :
          worker'[v].at = "Resend" <=> worker'[v].request # NoRequest
    BY <1>7 DEF PlaceInv, Holds
  <2>2. \A v \in Workers : worker'[v].request # NoRequest =>
          request'[worker'[v].request] = "InHand"
    BY <1>1, <1>7, <1>8, <1>9 DEF PlaceInv, Holds
  <2>3. ASSUME NEW q \in Requests, request'[q] = "InHand"
        PROVE  \E v \in Workers : worker'[v].request = q
    <3>1. CASE q = r
      BY <1>7, <3>1
    <3>2. CASE q # r
      <4>1. PICK v \in Workers : worker[v].request = q
        BY <1>8, <2>3, <3>2 DEF PlaceInv, Holds
      <4>2. v # w
        BY <1>7, <4>1, DeviceAssumption
      <4> QED BY <1>7, <4>1, <4>2
    <3> QED BY <3>1, <3>2
  <2>4. \A u, v \in Workers :
          worker'[u].request = worker'[v].request /\ worker'[u].request # NoRequest
            => u = v
    BY <1>7 DEF PlaceInv, Holds
  <2> QED BY <2>1, <2>2, <2>3, <2>4 DEF Holds
<1> QED BY <1>6, <1>10 DEF PlaceInv

\* A thread sends the request in its hand, or gives it up.
LEMMA PlaceResend ==
  ASSUME TypeInv, PlaceInv, NEW w \in Workers, worker[w].at = "Resend",
         NEW at \in {"Pending", "Dropped"},
         request' = [request EXCEPT ![worker[w].request] = at],
         NEW next \in {"Idle", "Fetch"},
         worker' = [worker EXCEPT ![w] = [at |-> next, request |-> NoRequest]],
         UNCHANGED collection
  PROVE  PlaceInv'
<1> DEFINE r == worker[w].request
<1>1. r \in Requests /\ request[r] = "InHand"
  BY DEF PlaceInv, Holds, TypeInv, Errands
<1>2. \A i \in 1 .. Len(collection) :
        collection[i] \in Requests /\ collection[i] # r
  BY <1>1 DEF TypeInv, PlaceInv, Collects
<1>3. Collects'
  BY <1>1, <1>2 DEF PlaceInv, Collects, TypeInv
<1>4. /\ \A v \in Workers \ {w} : worker'[v] = worker[v] /\ worker[v].request # r
      /\ worker'[w] = [at |-> next, request |-> NoRequest]
  BY <1>1, DeviceAssumption DEF PlaceInv, Holds, TypeInv
<1>5. \A q \in Requests : request'[q] = "InHand" <=> request[q] = "InHand" /\ q # r
  BY <1>1 DEF TypeInv
<1>6. \A v \in Workers :
        worker[v].request # NoRequest => worker[v].request \in Requests
  BY DEF TypeInv, Errands
<1>7. Holds'
  <2>1. \A v \in Workers :
          worker'[v].at = "Resend" <=> worker'[v].request # NoRequest
    BY <1>4 DEF PlaceInv, Holds
  <2>2. \A v \in Workers : worker'[v].request # NoRequest =>
          request'[worker'[v].request] = "InHand"
    BY <1>4, <1>5, <1>6 DEF PlaceInv, Holds
  <2>3. \A q \in Requests : request'[q] = "InHand" =>
          \E v \in Workers : worker'[v].request = q
    BY <1>4, <1>5 DEF PlaceInv, Holds
  <2>4. \A u, v \in Workers :
          worker'[u].request = worker'[v].request /\ worker'[u].request # NoRequest
            => u = v
    BY <1>4 DEF PlaceInv, Holds
  <2> QED BY <2>1, <2>2, <2>3, <2>4 DEF Holds
<1> QED BY <1>3, <1>7 DEF PlaceInv

\* A thread that has no request begins or ends.
LEMMA PlaceEmptyHand ==
  ASSUME TypeInv, PlaceInv, NEW w \in Workers, worker[w].at # "Resend",
         NEW next \in {"Idle", "Fetch"},
         worker' = [worker EXCEPT ![w] = [at |-> next, request |-> NoRequest]],
         UNCHANGED <<request, collection>>
  PROVE  PlaceInv'
<1>1. Collects'
  BY DEF PlaceInv, Collects
<1>2. /\ \A v \in Workers \ {w} : worker'[v] = worker[v]
      /\ worker'[w] = [at |-> next, request |-> NoRequest]
      /\ worker[w].request = NoRequest
  BY DEF PlaceInv, Holds, TypeInv
<1>3. \A v \in Workers : worker'[v].request = worker[v].request
  BY <1>2
<1>4. \A v \in Workers : worker'[v].at = "Resend" <=> worker[v].at = "Resend"
  BY <1>2
<1>5. Holds'
  BY <1>3, <1>4 DEF PlaceInv, Holds
<1> QED BY <1>1, <1>5 DEF PlaceInv

LEMMA PlaceWorker ==
  ASSUME TypeInv, PlaceInv, NEW w \in Workers, Worker(w)
  PROVE  PlaceInv'
<1>1. CASE WorkerBegin(w)
  <2>1. worker[w].at # "Resend"
    BY <1>1 DEF WorkerBegin, Idle
  <2> QED BY <1>1, <2>1, PlaceEmptyHand DEF WorkerBegin
<1>2. CASE WorkerFetch(w)
  <2>1. CASE collection = <<>>
    BY <1>2, <2>1, PlaceEmptyHand DEF WorkerFetch, Idle
  <2>2. CASE collection # <<>>
    BY <1>2, <2>2, PlaceFetch DEF WorkerFetch, CollectionAfterFetch
  <2> QED BY <2>1, <2>2
<1>3. CASE WorkerResend(w)
  <2>1. PICK at \in {"Pending", "Dropped"}, next \in {"Idle", "Fetch"} :
          /\ request' = [request EXCEPT ![worker[w].request] = at]
          /\ worker' = [worker EXCEPT ![w] = [at |-> next, request |-> NoRequest]]
    BY <1>3 DEF WorkerResend, Idle
  <2>2. worker[w].at = "Resend" /\ UNCHANGED collection
    BY <1>3 DEF WorkerResend
  <2> QED BY <2>1, <2>2, PlaceResend
<1> QED BY <1>1, <1>2, <1>3 DEF Worker

LEMMA PlaceNext ==
  ASSUME TypeInv, PlaceInv, [Next]_vars
  PROVE  PlaceInv'
<1>1. ASSUME NEW r \in Requests, EnableNotification(r) PROVE PlaceInv'
  BY <1>1, PlaceOther DEF EnableNotification
<1>2. ASSUME NEW r \in Requests, CompleteCancelled(r) PROVE PlaceInv'
  BY <1>2, PlaceOther DEF CompleteCancelled
<1>3. ASSUME NEW r \in Requests, CompleteNotification(r) PROVE PlaceInv'
  <2>1. CASE /\ request' = [request EXCEPT ![r] = "Collected"]
             /\ collection' = Append(collection, r)
    BY <1>3, <2>1, PlaceCollect DEF CompleteNotification
  <2>2. CASE /\ request' = [request EXCEPT ![r] = "Dropped"]
             /\ UNCHANGED collection
    BY <1>3, <2>2, PlaceOther DEF CompleteNotification
  <2> QED BY <1>3, <2>1, <2>2 DEF CompleteNotification
<1>4. ASSUME NEW w \in Workers, Worker(w) PROVE PlaceInv'
  BY <1>4, PlaceWorker
<1>5. ASSUME NEW s \in Streams, Stream(s) PROVE PlaceInv'
  <2>1. UNCHANGED noticeVars
    BY <1>5 DEF Stream, StreamStart, StartOpen, StartSetStatus, StartClearEvent,
                StartEnable, StartUndo, StartUndoClose, ResetStatus,
                StreamSuspend, SuspendClose, SuspendCancel, SuspendWait
  <2> QED BY <2>1 DEF PlaceInv, Collects, Holds, noticeVars
<1>6. CASE StartEnds \/ Fault \/ CompleteStreamStatus \/ StopPurge
           \/ StopPurged \/ StopFlush \/ UNCHANGED vars
  <2>1. UNCHANGED <<request, collection, worker>>
    BY <1>6 DEF StartEnds, Fault, CompleteStreamStatus, StopPurge, StopPurged,
                StopFlush, vars, noticeVars
  <2> QED BY <2>1 DEF PlaceInv, Collects, Holds
<1> QED BY <1>1, <1>2, <1>3, <1>4, <1>5, <1>6 DEF Next

\* The invariant says how often the collection holds a request.
LEMMA PlaceImplies ==
  ASSUME TypeInv, PlaceInv
  PROVE  RequestInOnePlace
<1> SUFFICES ASSUME NEW r \in Requests
             PROVE  /\ Cardinality({i \in DOMAIN collection : collection[i] = r})
                         = (IF request[r] = "Collected" THEN 1 ELSE 0)
                    /\ \A v, w \in Workers :
                         worker[v].request = r /\ worker[w].request = r => v = w
                    /\ (\E w \in Workers : worker[w].request = r)
                         <=> request[r] = "InHand"
  BY DEF RequestInOnePlace
<1> DEFINE at == {i \in DOMAIN collection : collection[i] = r}
<1>1. DOMAIN collection = 1 .. Len(collection)
  BY DEF TypeInv
<1>2. ASSUME request[r] = "Collected" PROVE Cardinality(at) = 1
  <2>1. PICK i \in 1 .. Len(collection) : collection[i] = r
    BY <1>2 DEF PlaceInv, Collects
  <2>2. at = {i}
    BY <1>1, <2>1 DEF PlaceInv, Collects
  <2> QED BY <2>2, FS_Singleton
<1>3. ASSUME request[r] # "Collected" PROVE Cardinality(at) = 0
  <2>1. at = {}
    BY <1>1, <1>3 DEF PlaceInv, Collects
  <2> QED BY <2>1, FS_EmptySet
<1>4. /\ \A v, w \in Workers :
           worker[v].request = r /\ worker[w].request = r => v = w
      /\ (\E w \in Workers : worker[w].request = r) <=> request[r] = "InHand"
  BY DeviceAssumption DEF PlaceInv, Holds
<1> QED BY <1>2, <1>3, <1>4

-----------------------------------------------------------------------------
(***************************************************************************)
(* m_nStreams counts the streams.                                          *)
(***************************************************************************)
CountingStates == Openers \union {"Started"}

\* The streams that count are finitely many.
LEMMA CountingFinite ==
  IsFiniteSet(Counting) /\ Cardinality(Counting) \in Nat
<1>1. Counting \subseteq Streams
  BY DEF Counting
<1> QED BY <1>1, DeviceAssumption, FS_Subset, FS_CardinalityType

\* A stream begins to count, ...
LEMMA CountEnters ==
  ASSUME TypeInv, StreamsCounted, NEW s \in Streams,
         stream[s] \notin CountingStates,
         NEW x \in CountingStates,
         stream' = [stream EXCEPT ![s] = x],
         nStreams' = nStreams + 1
  PROVE  StreamsCounted'
<1>1. s \notin Counting /\ Counting' = Counting \union {s}
  BY DEF Counting, CountingStates, Openers, TypeInv
<1>2. Cardinality(Counting') = Cardinality(Counting) + 1
  BY <1>1, CountingFinite, FS_AddElement
<1> QED BY <1>2 DEF StreamsCounted

\* ... no longer counts, ...
LEMMA CountLeaves ==
  ASSUME TypeInv, StreamsCounted, NEW s \in Streams,
         stream[s] \in CountingStates,
         NEW x, x \notin CountingStates,
         stream' = [stream EXCEPT ![s] = x],
         nStreams' = nStreams - 1
  PROVE  StreamsCounted'
<1>1. s \in Counting /\ Counting' = Counting \ {s}
  BY DEF Counting, CountingStates, Openers, TypeInv
<1>2. Cardinality(Counting') = Cardinality(Counting) - 1
  BY <1>1, CountingFinite, FS_RemoveElement
<1> QED BY <1>2 DEF StreamsCounted

\* ... or goes on as before.
LEMMA CountSame ==
  ASSUME TypeInv, StreamsCounted, NEW s \in Streams, NEW x,
         stream[s] \in CountingStates <=> x \in CountingStates,
         stream' = [stream EXCEPT ![s] = x],
         nStreams' = nStreams
  PROVE  StreamsCounted'
<1>1. Counting' = Counting
  BY DEF Counting, CountingStates, Openers, TypeInv
<1> QED BY <1>1 DEF StreamsCounted

LEMMA CountInit == Init => StreamsCounted
<1> SUFFICES ASSUME Init PROVE StreamsCounted
  OBVIOUS
<1>1. Counting = {}
  BY DEF Init, Counting
<1> QED BY <1>1, FS_EmptySet DEF Init, StreamsCounted

LEMMA CountStream ==
  ASSUME TypeInv, StreamsCounted, NEW s \in Streams, Stream(s)
  PROVE  StreamsCounted'
<1> USE DEF CountingStates, Openers
<1>1. CASE StreamStart(s)
  <2>1. PICK x \in CountingStates :
          stream' = [stream EXCEPT ![s] = x]
    BY <1>1 DEF StreamStart
  <2> QED BY <1>1, <2>1, CountEnters DEF StreamStart
<1>2. CASE StartOpen(s)
  <2>1. PICK x \in {"SetStatus", "Undo"} : stream' = [stream EXCEPT ![s] = x]
    BY <1>2 DEF StartOpen
  <2> QED BY <1>2, <2>1, CountSame DEF StartOpen
<1>3. CASE StartSetStatus(s)
  BY <1>3, CountSame DEF StartSetStatus
<1>4. CASE StartClearEvent(s)
  BY <1>4, CountSame DEF StartClearEvent
<1>5. CASE StartEnable(s)
  BY <1>5, CountSame DEF StartEnable
<1>6. CASE StartUndo(s)
  <2>1. PICK x \in {"ResetStatus", "UndoClose"} : stream' = [stream EXCEPT ![s] = x]
    BY <1>6 DEF StartUndo
  <2> QED BY <1>6, <2>1, CountLeaves DEF StartUndo, CountAfterUndo
<1>7. CASE StartUndoClose(s)
  BY <1>7, CountSame DEF StartUndoClose
<1>8. CASE ResetStatus(s)
  BY <1>8, CountSame DEF ResetStatus
<1>9. CASE StreamSuspend(s)
  <2>1. PICK x \in {"Close", "Idle"} : stream' = [stream EXCEPT ![s] = x]
    BY <1>9 DEF StreamSuspend
  <2> QED BY <1>9, <2>1, CountLeaves DEF StreamSuspend
<1>10. CASE SuspendClose(s)
  BY <1>10, CountSame DEF SuspendClose
<1>11. CASE SuspendCancel(s)
  BY <1>11, CountSame DEF SuspendCancel
<1>12. CASE SuspendWait(s)
  BY <1>12, CountSame DEF SuspendWait
<1> QED BY <1>1, <1>2, <1>3, <1>4, <1>5, <1>6, <1>7, <1>8, <1>9, <1>10, <1>11,
           <1>12 DEF Stream

\* Everybody else leaves the streams alone.
LEMMA OthersLeaveStreams ==
  ASSUME [Next]_vars, ~\E s \in Streams : Stream(s)
  PROVE  /\ UNCHANGED <<stream, nStreams>>
         /\ CompleteStreamStatus \/ UNCHANGED channelVars
         /\ target' = "Open" => target = "Open"
BY DEF Next, EnableNotification, CompleteCancelled, CompleteNotification,
       StartEnds, Fault, Worker, WorkerBegin, WorkerFetch, WorkerResend,
       CompleteStreamStatus, StopPurge, StopPurged, StopFlush, vars, streamVars,
       deviceVars, noticeVars

LEMMA CountNext ==
  ASSUME TypeInv, StreamsCounted, [Next]_vars
  PROVE  StreamsCounted'
<1>1. CASE \E s \in Streams : Stream(s)
  BY <1>1, CountStream
<1>2. CASE ~\E s \in Streams : Stream(s)
  <2>1. UNCHANGED <<stream, nStreams>>
    BY <1>2, OthersLeaveStreams
  <2> QED BY <2>1 DEF StreamsCounted, Counting
<1> QED BY <1>1, <1>2

-----------------------------------------------------------------------------
(***************************************************************************)
(* The channel is closed when no stream needs it.                          *)
(***************************************************************************)

\* Some stream is in one of the states.
Some(states) == \E s \in Streams : stream[s] \in states

\* Only the first stream opens the channel, so there is one opener at most.
OneOpener ==
  \A s, t \in Streams : stream[s] \in Openers /\ stream[t] \in Openers => s = t

\* As long as the target is open, an open channel, a status that says so and a
\* pending status request each have a stream that will undo them: one that is
\* about to, or one that runs, or the opener that has made them; the last two
\* only as long as there is no opener that has not.  What is left over else is
\* left by a request that failed, or by a late completion.
ChannelInv ==
  target = "Open" =>
    /\ sco => \/ stray
              \/ Some({"Close", "UndoClose"})
              \/ /\ Some({"SetStatus", "ClearEvent", "Enable", "UndoOpen",
                         "Started"})
                 /\ ~Some({"Open", "Undo"})
    /\ streamStatus => \/ streamReq = "Done"
                       \/ Some(Closers)
                       \/ /\ Some({"ClearEvent", "Enable", "UndoOpen", "Started"})
                          /\ ~Some({"Open", "SetStatus", "Undo"})
    /\ streamReq = "Pending" => \/ Some({"Close", "Cancel"})
                                \/ Some({"Started"}) /\ ~Some(Openers)

LEMMA ChannelInit == Init => OneOpener /\ ChannelInv
BY DEF Init, OneOpener, ChannelInv, Openers

\* The stream that starts while none counts becomes the only opener.
LEMMA FirstOpens ==
  ASSUME TypeInv, StreamsCounted, nStreams + 1 = 1
  PROVE  ~Some(CountingStates)
<1>1. Cardinality(Counting) = 0
  BY DEF StreamsCounted, TypeInv
<1>2. Counting = {}
  BY <1>1, CountingFinite, FS_EmptySet
<1> QED BY <1>2 DEF Counting, Some, CountingStates, Openers

\* A stream that goes and is not the last leaves another one that counts.
LEMMA AnotherCounts ==
  ASSUME TypeInv', StreamsCounted', nStreams' # 0
  PROVE  Some(CountingStates)'
<1>1. Cardinality(Counting') # 0
  BY DEF StreamsCounted
<1>2. Counting' # {}
  BY <1>1, FS_EmptySet
<1> QED BY <1>2 DEF Counting, Some, CountingStates, Openers

LEMMA OpenerStream ==
  ASSUME TypeInv, StreamsCounted, OneOpener, NEW s \in Streams, Stream(s)
  PROVE  OneOpener'
<1>1. CASE StreamStart(s)
  <2>1. CASE nStreams + 1 = 1
    <3>1. \A t \in Streams : stream[t] \notin Openers
      BY <2>1, FirstOpens DEF Some, CountingStates
    <3> QED BY <1>1, <3>1 DEF StreamStart, OneOpener, TypeInv
  <2>2. CASE nStreams + 1 # 1
    <3>1. \A t \in Streams : stream'[t] \in Openers => stream[t] \in Openers
      BY <1>1, <2>2 DEF StreamStart, TypeInv, Openers
    <3> QED BY <3>1 DEF OneOpener
  <2> QED BY <2>1, <2>2
<1>2. CASE ~StreamStart(s)
  <2>1. \A t \in Streams : stream'[t] \in Openers => stream[t] \in Openers
    BY <1>2 DEF Stream, StartOpen, StartSetStatus, StartClearEvent, StartEnable,
               StartUndo, StartUndoClose, ResetStatus, StreamSuspend,
               SuspendClose, SuspendCancel, SuspendWait, TypeInv, Openers
  <2> QED BY <2>1 DEF OneOpener
<1> QED BY <1>1, <1>2

\* A stream starts: if it opens the channel nobody else counts, so what is
\* still open has somebody who closes it.
LEMMA ChannelStart ==
  ASSUME TypeInv, StreamsCounted, ChannelInv, NEW s \in Streams, StreamStart(s)
  PROVE  ChannelInv'
<1> USE DEF Openers, Closers
<1>1. CASE nStreams + 1 = 1
  <2>1. \A t \in Streams : stream[t] \notin CountingStates
    BY <1>1, FirstOpens DEF Some
  <2>2. \A t \in Streams : stream[t] \in Closers => stream'[t] = stream[t]
    BY DEF StreamStart, TypeInv
  <2> QED BY <2>1, <2>2 DEF StreamStart, ChannelInv, Some, CountingStates,
             deviceVars, channelVars
<1>2. CASE nStreams + 1 # 1
  <2>1. stream' = [stream EXCEPT ![s] = "Started"]
    BY <1>2 DEF StreamStart
  <2>2. \A t \in Streams : stream[t] # "Idle" => stream'[t] = stream[t]
    BY <2>1 DEF StreamStart, TypeInv
  <2>3. \A t \in Streams : stream'[t] # "Started" => stream'[t] = stream[t]
    BY <2>1 DEF TypeInv
  <2>4. UNCHANGED <<target, channelVars>>
    BY DEF StreamStart, deviceVars
  <2> QED BY <2>2, <2>3, <2>4 DEF ChannelInv, Some, channelVars
<1> QED BY <1>1, <1>2

\* The opener opens the channel, or fails to.
LEMMA ChannelOpener ==
  ASSUME TypeInv, OneOpener, ChannelInv, NEW s \in Streams,
         \/ StartOpen(s) \/ StartSetStatus(s) \/ StartClearEvent(s)
         \/ StartEnable(s) \/ StartUndo(s)
  PROVE  ChannelInv'
<1> USE DEF Openers, Closers
<1>1. \A t \in Streams : t # s => stream'[t] = stream[t]
  BY DEF StartOpen, StartSetStatus, StartClearEvent, StartEnable, StartUndo,
         TypeInv
<1>2. stream[s] \in Openers => \A t \in Streams \ {s} : stream[t] \notin Openers
  BY DEF OneOpener
<1>3. CASE StartOpen(s)
  BY <1>1, <1>2, <1>3 DEF StartOpen, ChannelInv, Some, TypeInv, deviceVars
<1>4. CASE StartSetStatus(s)
  BY <1>1, <1>2, <1>4 DEF StartSetStatus, ChannelInv, Some, TypeInv, deviceVars
<1>5. CASE StartClearEvent(s)
  BY <1>1, <1>2, <1>5 DEF StartClearEvent, ChannelInv, Some, TypeInv, deviceVars
<1>6. CASE StartEnable(s)
  BY <1>1, <1>2, <1>6 DEF StartEnable, ChannelInv, Some, TypeInv, deviceVars
<1>7. CASE StartUndo(s)
  BY <1>1, <1>2, <1>7 DEF StartUndo, ChannelInv, Some, TypeInv, deviceVars,
                          channelVars
<1> QED BY <1>3, <1>4, <1>5, <1>6, <1>7

\* A stream goes: the last one closes the channel, and another one's going
\* leaves one that counts.
LEMMA ChannelSuspend ==
  ASSUME TypeInv, TypeInv', StreamsCounted', OneOpener', ChannelInv,
         NEW s \in Streams, StreamSuspend(s)
  PROVE  ChannelInv'
<1> USE DEF Openers, Closers
<1>1. \A t \in Streams : t # s => stream'[t] = stream[t]
  BY DEF StreamSuspend, TypeInv
<1>2. CASE nStreams' = 0
  <2>1. stream'[s] = "Close"
    BY <1>2 DEF StreamSuspend, LastStream, TypeInv
  <2> QED BY <2>1 DEF ChannelInv, Some
<1>3. CASE nStreams' # 0
  <2>1. stream[s] = "Started" /\ stream'[s] = "Idle"
    BY <1>3 DEF StreamSuspend, LastStream, TypeInv
  <2>2. PICK t \in Streams : stream'[t] \in CountingStates
    BY <1>3, AnotherCounts DEF Some
  <2>3. t # s /\ stream[t] = stream'[t]
    BY <1>1, <2>1, <2>2 DEF CountingStates
  <2>4. UNCHANGED <<target, channelVars>>
    BY DEF StreamSuspend, deviceVars
  <2> QED BY <1>1, <2>1, <2>2, <2>3, <2>4
          DEF ChannelInv, Some, CountingStates, channelVars
<1> QED BY <1>2, <1>3

\* A close request leaves no channel open but a stray one.
LEMMA CloseLeavesStray ==
  ASSUME SetBthHfpStreamClose
  PROVE  sco' => stray'
<1>1. CASE sco' = FALSE
  BY <1>1
<1>2. CASE stray' = sco /\ UNCHANGED sco
  BY <1>2
<1> QED BY <1>1, <1>2 DEF SetBthHfpStreamClose

\* The last stream closes the channel and takes the request back, and one that
\* fails to start closes the channel it has opened.
LEMMA ChannelClose ==
  ASSUME TypeInv, ChannelInv, NEW s \in Streams,
         \/ StartUndoClose(s) \/ ResetStatus(s)
         \/ SuspendClose(s) \/ SuspendCancel(s) \/ SuspendWait(s)
  PROVE  ChannelInv'
<1> USE DEF Openers, Closers
<1>1. \A t \in Streams : t # s => stream'[t] = stream[t]
  BY DEF StartUndoClose, ResetStatus, SuspendClose, SuspendCancel, SuspendWait,
         TypeInv
<1>2. CASE StartUndoClose(s)
  BY <1>1, <1>2, CloseLeavesStray DEF StartUndoClose, ChannelInv, Some, TypeInv,
                                      deviceVars
<1>3. CASE ResetStatus(s)
  BY <1>1, <1>3 DEF ResetStatus, ChannelInv, Some, TypeInv, deviceVars
<1>4. CASE SuspendClose(s)
  BY <1>1, <1>4, CloseLeavesStray DEF SuspendClose, ChannelInv, Some, TypeInv,
                                      deviceVars
<1>5. CASE SuspendCancel(s)
  BY <1>1, <1>5 DEF SuspendCancel, ChannelInv, Some, TypeInv, deviceVars
<1>6. CASE SuspendWait(s)
  BY <1>1, <1>6 DEF SuspendWait, ChannelInv, Some, TypeInv, deviceVars
<1> QED BY <1>2, <1>3, <1>4, <1>5, <1>6

LEMMA ChannelNext ==
  ASSUME TypeInv, StreamsCounted, OneOpener, ChannelInv, [Next]_vars
  PROVE  OneOpener' /\ ChannelInv'
<1>1. CASE \E s \in Streams : Stream(s)
  <2>1. PICK s \in Streams : Stream(s)
    BY <1>1
  <2>2. TypeInv' /\ StreamsCounted' /\ OneOpener'
    BY <2>1, TypeNext, CountNext, OpenerStream
  <2> QED BY <2>1, <2>2, ChannelStart, ChannelOpener, ChannelSuspend,
             ChannelClose DEF Stream
<1>2. CASE ~\E s \in Streams : Stream(s)
  <2>1. /\ UNCHANGED stream
        /\ CompleteStreamStatus \/ UNCHANGED channelVars
        /\ target' = "Open" => target = "Open"
    BY <1>2, OthersLeaveStreams
  <2>2. OneOpener'
    BY <2>1 DEF OneOpener
  <2>3. CASE CompleteStreamStatus
    <3>1. streamReq' = "Done" /\ streamReq' # "Pending"
      BY <2>3 DEF CompleteStreamStatus
    <3>2. sco' => sco
      <4>1. sco' = sco \/ sco' = FALSE
        BY <2>3 DEF CompleteStreamStatus
      <4> QED BY <4>1
    <3>3. sco' /\ stray => stray'
      BY <2>3 DEF CompleteStreamStatus
    <3>4. stream' = stream
      BY <2>1
    <3>5. CASE target' = "Open" /\ sco'
      <4>1. \/ stray'
            \/ Some({"Close", "UndoClose"})
            \/ /\ Some({"SetStatus", "ClearEvent", "Enable", "UndoOpen",
                       "Started"})
               /\ ~Some({"Open", "Undo"})
        BY <2>1, <3>2, <3>3, <3>5 DEF ChannelInv
      <4> QED BY <2>2, <3>1, <3>4, <4>1 DEF ChannelInv, Some
    <3>6. CASE ~(target' = "Open" /\ sco')
      BY <2>2, <3>1, <3>6 DEF ChannelInv
    <3> QED BY <3>5, <3>6
  <2>4. CASE UNCHANGED channelVars
    BY <2>1, <2>2, <2>4 DEF channelVars, ChannelInv, Some, Openers, Closers
  <2> QED BY <2>1, <2>2, <2>3, <2>4
<1> QED BY <1>1, <1>2

LEMMA ChannelImplies == ChannelInv => SilentWhenIdle
BY DEF ChannelInv, SilentWhenIdle, NoStream, Some, Openers, Closers

-----------------------------------------------------------------------------
DeviceInv ==
  TypeInv /\ QuietInv /\ PlaceInv /\ StreamsCounted /\ OneOpener /\ ChannelInv

LEMMA DeviceInvariant == Spec => []DeviceInv
<1>1. Init => DeviceInv
  BY TypeInit, QuietInit, PlaceInit, CountInit, ChannelInit DEF DeviceInv
<1>2. DeviceInv /\ [Next]_vars => DeviceInv'
  BY TypeNext, QuietNext, PlaceNext, CountNext, ChannelNext DEF DeviceInv
<1> QED BY <1>1, <1>2, PTL DEF Spec

\* When Stop has returned, no request is at the driver below and the work item
\* is done, whatever was completed, cancelled or failed meanwhile.
THEOREM StopIsQuiet == Spec => []QuietAfterStop
<1>1. DeviceInv => QuietAfterStop
  BY DEF DeviceInv, QuietInv, QuietAfterStop
<1> QED BY <1>1, DeviceInvariant, PTL

\* A notification request is never sent while the collection or the work item
\* still has it, and the collection never has it twice.
THEOREM RequestsInOnePlace == Spec => []RequestInOnePlace
<1>1. DeviceInv => RequestInOnePlace
  BY PlaceImplies DEF DeviceInv
<1> QED BY <1>1, DeviceInvariant, PTL

\* m_nStreams counts the streams that run or start, for any number of them.
THEOREM StreamsAreCounted == Spec => []StreamsCounted
<1>1. DeviceInv => StreamsCounted
  BY DEF DeviceInv
<1> QED BY <1>1, DeviceInvariant, PTL

\* When no stream runs, starts or stops, nothing is left of the streams but what
\* a failed request or a late completion leaves, for any number of streams that
\* overlap or fail.
THEOREM IdleIsSilent == Spec => []SilentWhenIdle
<1>1. DeviceInv => SilentWhenIdle
  BY ChannelImplies DEF DeviceInv
<1> QED BY <1>1, DeviceInvariant, PTL
=============================================================================
