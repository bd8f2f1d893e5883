------------------------ MODULE SidebandAdapterProofs -----------------------
(***************************************************************************)
(* Proofs about SidebandAdapter, for any sets of interfaces, objects and   *)
(* files.                                                                  *)
(*                                                                         *)
(* For any number of threads: a task that is in the queue will be served,  *)
(* and the cleanup finds nothing queued or in hand.  Each rests on the     *)
(* other: the work item that Cleanup flushes and deletes leaves no task    *)
(* behind, and what a removed adapter leaves, the next StartDevice with    *)
(* its new work item finds.                                                *)
(*                                                                         *)
(* For one thread of each kind and links with names of their own           *)
(* (OneThreadEach, NamesDistinct): the references of a device are those of *)
(* its holders, its filters go when it goes, the cache is current, and the *)
(* cleanup leaves nothing.  Their invariant is DeviceInv.                  *)
(***************************************************************************)
EXTENDS SidebandAdapter, SequenceTheorems, FiniteSetTheorems, WellFoundedInduction,
        TLAPS

Tasks == [action : {"Start", "Stop"}, object : Objects]

\* What a notification thread, and a thread of the work item, may be about to
\* do: with an object in hand or without.
Notifying == {Idle} \union [at : {"Insert", "Remove"}, object : Objects]

Carrying == {"Start", "StartMic", "StartNotify", "Stop", "Release"}
Running == [at : Carrying, object : Objects]
Working == {Idle, At("Fetch", NoObject), At("Return", NoObject)} \union Running

TypeInv ==
  /\ phase \in {"Down", "Started", "Flush", "Drain", "Empty"}
  /\ workItem \in [exists : BOOLEAN, queued : BOOLEAN]
  /\ devices \in Seq(Objects)
  /\ tasks \in Seq(Tasks)
  /\ notifier \in [Notifiers -> Notifying]
  /\ worker \in [WorkerThreads -> Working]

\* No task waits, nobody runs the callback, and nobody is asked to.
Quiet ==
  /\ tasks = <<>>
  /\ \A w \in WorkerThreads : worker[w] = Idle
  /\ ~workItem.queued

\* Notifications come only with the handle, the handle only with the cleanup
\* enabled; without that, and once the work item is flushed, all is quiet.
OrderInv ==
  /\ handle => phase = "Started" /\ enabled
  /\ phase \in {"Down", "Empty"} => ~enabled
  /\ handle \/ \A n \in Notifiers : notifier[n] = Idle
  /\ ~enabled \/ phase = "Drain" => Quiet

AdapterInv == TypeInv /\ OrderInv /\ TaskWillBeServed

-----------------------------------------------------------------------------
(***************************************************************************)
(* Types.                                                                  *)
(***************************************************************************)
LEMMA TypeInit == Init => TypeInv
<1> SUFFICES ASSUME Init PROVE TypeInv
  OBVIOUS
<1>1. devices \in Seq(Objects) /\ tasks \in Seq(Tasks)
  BY EmptySeq DEF Init
<1>2. workItem \in [exists : BOOLEAN, queued : BOOLEAN]
  BY DEF Init, NoWorkItem
<1>3. /\ notifier \in [Notifiers -> Notifying]
      /\ worker \in [WorkerThreads -> Working]
  BY DEF Init, Notifying, Working
<1> QED BY <1>1, <1>2, <1>3 DEF Init, TypeInv

\* Who has a task in hand has its object, and so has a thread that delivers a
\* notification.
LEMMA InHand ==
  ASSUME TypeInv
  PROVE  /\ \A n \in Notifiers :
               notifier[n].at \in {"Insert", "Remove"} => notifier[n].object \in Objects
         /\ \A w \in WorkerThreads :
               worker[w].at \in Carrying =>
                 worker[w] \in Running /\ worker[w].object \in Objects
<1>1. ASSUME NEW n \in Notifiers, notifier[n].at \in {"Insert", "Remove"}
      PROVE  notifier[n].object \in Objects
  <2>1. notifier[n] \in Notifying
    BY DEF TypeInv
  <2> QED BY <1>1, <2>1 DEF Notifying, Idle
<1>2. ASSUME NEW w \in WorkerThreads, worker[w].at \in Carrying
      PROVE  worker[w] \in Running /\ worker[w].object \in Objects
  <2>1. worker[w] \in Working
    BY DEF TypeInv
  <2> QED BY <1>2, <2>1 DEF Working, Running, Carrying, Idle, At
<1> QED BY <1>1, <1>2

\* A task is queued.
LEMMA QueueTyped ==
  ASSUME TypeInv, NEW action \in {"Start", "Stop"}, NEW o \in Objects,
         QueueTask(action, o)
  PROVE  tasks' \in Seq(Tasks) /\ workItem' \in [exists : BOOLEAN, queued : BOOLEAN]
<1>1. [action |-> action, object |-> o] \in Tasks
  BY DEF Tasks
<1>2. tasks' \in Seq(Tasks)
  BY <1>1, AppendProperties DEF TypeInv, QueueTask
<1>3. workItem' \in [exists : BOOLEAN, queued : BOOLEAN]
  BY DEF TypeInv, QueueTask, QueuedAfterEnqueue
<1> QED BY <1>2, <1>3

\* A sequence without one of its entries.
LEMMA EntryRemoved ==
  ASSUME NEW S, NEW s \in Seq(S), NEW i \in 1 .. Len(s)
  PROVE  /\ RemoveAt(s, i) \in Seq(S)
         /\ Len(RemoveAt(s, i)) = Len(s) - 1
         /\ \A j \in 1 .. Len(s) - 1 :
              RemoveAt(s, i)[j] = IF j < i THEN s[j] ELSE s[j + 1]
<1> DEFINE before == SubSeq(s, 1, i - 1)
           after == SubSeq(s, i + 1, Len(s))
<1>0. Len(s) \in Nat /\ \A j \in 1 .. Len(s) : s[j] \in S
  BY LenProperties, ElementOfSeq
<1>1. /\ before \in Seq(S) /\ Len(before) = i - 1
      /\ \A j \in 1 .. i - 1 : before[j] = s[j]
  BY <1>0, SubSeqProperties
<1>2. /\ after \in Seq(S) /\ Len(after) = Len(s) - i
      /\ \A j \in 1 .. Len(s) - i : after[j] = s[j + i]
  BY <1>0, SubSeqProperties
<1> HIDE DEF before, after
<1>3. /\ before \o after \in Seq(S)
      /\ Len(before \o after) = Len(before) + Len(after)
      /\ \A j \in 1 .. Len(before) + Len(after) :
           (before \o after)[j] =
             IF j <= Len(before) THEN before[j] ELSE after[j - Len(before)]
  BY <1>1, <1>2, ConcatProperties
<1>4. RemoveAt(s, i) = before \o after
  BY DEF RemoveAt, before, after
<1>5. ASSUME NEW j \in 1 .. Len(s) - 1
      PROVE  RemoveAt(s, i)[j] = IF j < i THEN s[j] ELSE s[j + 1]
  <2>1. CASE j < i
    BY <1>0, <1>1, <1>2, <1>3, <1>4, <2>1
  <2>2. CASE ~(j < i)
    <3>1. (before \o after)[j] = after[j - (i - 1)]
      BY <1>0, <1>1, <1>2, <1>3, <2>2
    <3>2. j - (i - 1) \in 1 .. Len(s) - i /\ (j - (i - 1)) + i = j + 1
      BY <1>0, <2>2
    <3> QED BY <1>2, <1>4, <2>2, <3>1, <3>2
  <2> QED BY <2>1, <2>2
<1>6. RemoveAt(s, i) \in Seq(S) /\ Len(RemoveAt(s, i)) = (i - 1) + (Len(s) - i)
  BY <1>1, <1>2, <1>3, <1>4
<1> QED BY <1>0, <1>5, <1>6

\* The list after the removal of an entry.
LEMMA UnlinkTyped ==
  ASSUME TypeInv, NEW o, Unlink(o)
  PROVE  devices' \in Seq(Objects)
<1>1. CASE UNCHANGED devices
  BY <1>1 DEF TypeInv
<1>2. ASSUME NEW i \in DOMAIN devices, devices' = RemoveAt(devices, i)
      PROVE  devices' \in Seq(Objects)
  BY <1>2, EntryRemoved, LenProperties DEF TypeInv
<1> QED BY <1>1, <1>2 DEF Unlink

\* What a thread of the work item does to the queue and to itself while it runs
\* a task.
RunsTask(w) ==
  /\ worker[w].at \in Carrying
  /\ UNCHANGED <<tasks, workItem>>
  /\ \/ \E at \in Carrying : worker' = [worker EXCEPT ![w].at = at]
     \/ worker' = [worker EXCEPT ![w] = At("Fetch", NoObject)]

LEMMA InstallStep ==
  ASSUME NEW w \in WorkerThreads, NEW pair, NEW at \in Carrying,
         NEW next \in Carrying, StartInstall(w, pair, at, next)
  PROVE  RunsTask(w)
<1>1. worker[w].at = at /\ UNCHANGED <<tasks, workItem>>
  BY DEF StartInstall
<1>2. \/ worker' = [worker EXCEPT ![w].at = next]
      \/ worker' = [worker EXCEPT ![w].at = "Release"]
  BY DEF StartInstall
<1>3. "Release" \in Carrying
  BY DEF Carrying
<1> QED BY <1>1, <1>2, <1>3 DEF RunsTask

LEMMA WorkerStep ==
  ASSUME NEW w \in WorkerThreads, Worker(w)
  PROVE  /\ UNCHANGED <<phase, enabled, handle, notifier, devices>>
         /\ \/ WorkerBegin(w) \/ WorkerFetch(w) \/ WorkerReturn(w)
            \/ RunsTask(w)
<1> USE DEF Carrying
<1>1. UNCHANGED <<phase, enabled, handle, notifier, devices>>
  BY DEF Worker, WorkerBegin, WorkerFetch, WorkerReturn, StartFails,
         StartSpeaker, StartMic, StartInstall, StartDone, Stop, TaskRelease,
         adapterVars
<1>2. ASSUME StartFails(w) PROVE RunsTask(w)
  BY <1>2 DEF StartFails, RunsTask
<1>3. ASSUME StartSpeaker(w) PROVE RunsTask(w)
  BY <1>3, InstallStep DEF StartSpeaker
<1>4. ASSUME StartMic(w) PROVE RunsTask(w)
  BY <1>4, InstallStep DEF StartMic
<1>5. ASSUME StartDone(w) PROVE RunsTask(w)
  BY <1>5 DEF StartDone, RunsTask
<1>6. ASSUME Stop(w) PROVE RunsTask(w)
  BY <1>6 DEF Stop, RunsTask
<1>7. ASSUME TaskRelease(w) PROVE RunsTask(w)
  BY <1>7 DEF TaskRelease, RunsTask
<1> QED BY <1>1, <1>2, <1>3, <1>4, <1>5, <1>6, <1>7 DEF Worker

\* A thread of the work item goes on.
LEMMA TypeWorker ==
  ASSUME TypeInv, NEW w \in WorkerThreads, Worker(w)
  PROVE  TypeInv'
<1>1. UNCHANGED <<phase, notifier, devices>>
  BY WorkerStep
<1>2. /\ workItem' \in [exists : BOOLEAN, queued : BOOLEAN]
      /\ tasks' \in Seq(Tasks)
      /\ \/ worker' = worker
         \/ \E h \in Working : worker' = [worker EXCEPT ![w] = h]
  <2>1. CASE WorkerBegin(w) \/ WorkerReturn(w)
    BY <2>1 DEF TypeInv, WorkerBegin, WorkerReturn, Working
  <2>2. CASE WorkerFetch(w)
    <3>1. CASE tasks = <<>>
      BY <2>2, <3>1 DEF TypeInv, WorkerFetch, Working
    <3>2. CASE tasks # <<>>
      <4>1. Head(tasks) \in Tasks /\ Tail(tasks) \in Seq(Tasks)
        BY <3>2, HeadTailProperties DEF TypeInv
      <4>2. At(Head(tasks).action, Head(tasks).object) \in Working
        BY <4>1 DEF Tasks, At, Working, Running, Carrying
      <4> QED BY <2>2, <3>2, <4>1, <4>2 DEF TypeInv, WorkerFetch
    <3> QED BY <3>1, <3>2
  <2>3. CASE RunsTask(w)
    <3>1. worker[w] \in Running
      BY <2>3, InHand DEF RunsTask
    <3>2. ASSUME NEW at \in Carrying, worker' = [worker EXCEPT ![w].at = at]
          PROVE  \E h \in Working : worker' = [worker EXCEPT ![w] = h]
      <4>1. [worker[w] EXCEPT !.at = at] \in Working
        BY <3>1 DEF Working, Running
      <4>2. worker' = [worker EXCEPT ![w] = [worker[w] EXCEPT !.at = at]]
        BY <3>2
      <4> QED BY <4>1, <4>2
    <3> QED BY <2>3, <3>2 DEF TypeInv, RunsTask, Working
  <2> QED BY <2>1, <2>2, <2>3, WorkerStep
<1>3. worker' \in [WorkerThreads -> Working]
  BY <1>2 DEF TypeInv
<1> QED BY <1>1, <1>2, <1>3 DEF TypeInv

\* The adapter starts or cleans up.
LEMMA TypePhase ==
  ASSUME TypeInv,
         \/ StartDevice \/ CleanupUnregister \/ CleanupFlush \/ CleanupDevice
         \/ CleanupEmpty
  PROVE  TypeInv'
<1>1. UNCHANGED <<tasks, notifier, worker>>
  BY DEF StartDevice, CleanupUnregister, CleanupFlush, CleanupDevice, CleanupEmpty
<1>2. phase' \in {"Down", "Started", "Flush", "Drain", "Empty"}
  BY DEF TypeInv, StartDevice, CleanupUnregister, CleanupFlush, CleanupDevice,
         CleanupEmpty, adapterVars
<1>3. workItem' \in [exists : BOOLEAN, queued : BOOLEAN]
  <2>1. \/ UNCHANGED workItem
        \/ \E created \in BOOLEAN : workItem' = [exists |-> created, queued |-> FALSE]
    BY DEF StartDevice, CleanupUnregister, CleanupFlush, CleanupDevice,
           CleanupEmpty, NoWorkItem
  <2>2. CASE UNCHANGED workItem
    BY <2>2 DEF TypeInv
  <2>3. ASSUME NEW created \in BOOLEAN,
               workItem' = [exists |-> created, queued |-> FALSE]
        PROVE  workItem' \in [exists : BOOLEAN, queued : BOOLEAN]
    BY <2>3
  <2> QED BY <2>1, <2>2, <2>3
<1>4. devices' \in Seq(Objects)
  <2>1. CASE UNCHANGED devices
    BY <2>1 DEF TypeInv
  <2>2. CASE devices # <<>> /\ devices' = Tail(devices)
    BY <2>2, HeadTailProperties DEF TypeInv
  <2> QED BY <2>1, <2>2 DEF StartDevice, CleanupUnregister, CleanupFlush,
                            CleanupDevice, CleanupEmpty
<1> QED BY <1>1, <1>2, <1>3, <1>4 DEF TypeInv

LEMMA TypeNext ==
  ASSUME TypeInv, [Next]_vars
  PROVE  TypeInv'
<1>1. ASSUME NEW n \in Notifiers, NEW l \in Links, Arrival(n, l)
      PROVE  TypeInv'
  <2>1. PICK o \in Objects : notifier' = [notifier EXCEPT ![n] = At("Insert", o)]
    BY <1>1 DEF Arrival
  <2>2. At("Insert", o) \in Notifying
    BY DEF At, Notifying
  <2> QED BY <1>1, <2>1, <2>2 DEF Arrival, adapterVars, TypeInv
<1>2. ASSUME NEW n \in Notifiers, NEW l \in Links, Removal(n, l)
      PROVE  TypeInv'
  <2>1. PICK i \in Found(l) :
          notifier' = [notifier EXCEPT ![n] = At("Remove", devices[i])]
    BY <1>2 DEF Removal
  <2>2. devices[i] \in Objects
    BY ElementOfSeq, LenProperties DEF Found, TypeInv
  <2>3. At("Remove", devices[i]) \in Notifying
    BY <2>2 DEF At, Notifying
  <2> QED BY <1>2, <2>1, <2>3 DEF Removal, adapterVars, TypeInv
<1>3. ASSUME NEW n \in Notifiers,
             ArrivalInsert(n) \/ RemovalQueue(n) \/ NoTask(n)
      PROVE  TypeInv'
  <2>1. notifier[n].object \in Objects
    BY <1>3, InHand DEF ArrivalInsert, RemovalQueue, NoTask
  <2>2. notifier' \in [Notifiers -> Notifying]
    BY <1>3 DEF ArrivalInsert, RemovalQueue, NoTask, TypeInv, Notifying
  <2>3. tasks' \in Seq(Tasks) /\ workItem' \in [exists : BOOLEAN, queued : BOOLEAN]
    BY <1>3, <2>1, QueueTyped DEF ArrivalInsert, RemovalQueue, NoTask, TypeInv
  <2>4. devices' \in Seq(Objects)
    <3>1. ASSUME ArrivalInsert(n) PROVE devices' \in Seq(Objects)
      BY <2>1, <3>1, AppendProperties DEF ArrivalInsert, TypeInv
    <3>2. ASSUME RemovalQueue(n) PROVE devices' \in Seq(Objects)
      BY <3>2, UnlinkTyped DEF RemovalQueue
    <3>3. ASSUME NoTask(n) PROVE devices' \in Seq(Objects)
      BY <3>3 DEF NoTask, TypeInv
    <3> QED BY <1>3, <3>1, <3>2, <3>3
  <2> QED BY <1>3, <2>2, <2>3, <2>4
          DEF ArrivalInsert, RemovalQueue, NoTask, adapterVars, TypeInv
<1>4. ASSUME NEW w \in WorkerThreads, Worker(w) PROVE TypeInv'
  BY <1>4, TypeWorker
<1>5. CASE (\E p \in fs.registered : OpenFile(p))
           \/ (\E p \in opened : CloseFile(p)) \/ UNCHANGED vars
  BY <1>5 DEF OpenFile, CloseFile, vars, adapterVars, TypeInv
<1>6. CASE StartDevice \/ CleanupUnregister \/ CleanupFlush \/ CleanupDevice
           \/ CleanupEmpty
  BY <1>6, TypePhase
<1> QED BY <1>1, <1>2, <1>3, <1>4, <1>5, <1>6 DEF Next

-----------------------------------------------------------------------------
(***************************************************************************)
(* The queue is served and the cleanup finds it empty.                     *)
(***************************************************************************)

\* Where all is quiet no thread of the work item has anything to do.
LEMMA QuietStays ==
  ASSUME Quiet, NEW w \in WorkerThreads, Worker(w)
  PROVE  FALSE
<1>1. worker[w].at = "Idle" /\ ~workItem.queued
  BY DEF Quiet, Idle
<1>2. CASE WorkerBegin(w)
  BY <1>1, <1>2 DEF WorkerBegin
<1>3. CASE WorkerFetch(w) \/ WorkerReturn(w) \/ RunsTask(w)
  BY <1>1, <1>3 DEF WorkerFetch, WorkerReturn, RunsTask, Carrying
<1> QED BY <1>2, <1>3, WorkerStep

\* A thread that delivers a notification has the handle.
LEMMA HandInOrder ==
  ASSUME OrderInv, NEW n \in Notifiers, notifier[n].at \in {"Insert", "Remove"}
  PROVE  handle /\ enabled /\ phase = "Started"
<1>1. notifier[n] # Idle
  BY DEF Idle
<1> QED BY <1>1 DEF OrderInv

\* A step while the handle is there, and stays, keeps the order.
LEMMA OrderWithHandle ==
  ASSUME OrderInv, handle, UNCHANGED <<phase, enabled, handle>>
  PROVE  OrderInv'
BY DEF OrderInv

\* So does one that leaves alone what the order is about.
LEMMA OrderUntouched ==
  ASSUME OrderInv,
         UNCHANGED <<phase, enabled, handle, workItem, tasks, notifier, worker>>
  PROVE  OrderInv'
BY DEF OrderInv, Quiet

\* When the work item has been flushed, no task is left.
LEMMA FlushedIsQuiet ==
  ASSUME TaskWillBeServed, WorkItemFlushed
  PROVE  Quiet
BY DEF TaskWillBeServed, WorkItemFlushed, Quiet, Idle

LEMMA OrderInit == Init => OrderInv
BY DEF Init, OrderInv, Quiet, NoWorkItem

LEMMA OrderNext ==
  ASSUME OrderInv, TaskWillBeServed, [Next]_vars
  PROVE  OrderInv'
<1>1. CASE StartDevice
  <2>1. phase' = "Started" /\ UNCHANGED <<tasks, notifier, worker>>
    BY <1>1 DEF StartDevice
  <2>2. ~enabled /\ ~handle /\ Quiet /\ \A n \in Notifiers : notifier[n] = Idle
    BY <1>1 DEF StartDevice, OrderInv
  <2>3. CASE UNCHANGED <<enabled, workItem, handle>>
    BY <2>1, <2>2, <2>3 DEF OrderInv, Quiet
  <2>4. CASE enabled'
    BY <2>1, <2>2, <2>4 DEF OrderInv
  <2> QED BY <1>1, <2>3, <2>4 DEF StartDevice
<1>2. ASSUME NEW n \in Notifiers, NEW l \in Links, Arrival(n, l) \/ Removal(n, l)
      PROVE  OrderInv'
  BY <1>2, OrderWithHandle DEF Arrival, Removal, adapterVars
<1>3. ASSUME NEW n \in Notifiers,
             ArrivalInsert(n) \/ RemovalQueue(n) \/ NoTask(n)
      PROVE  OrderInv'
  <2>1. notifier[n].at \in {"Insert", "Remove"}
    BY <1>3 DEF ArrivalInsert, RemovalQueue, NoTask
  <2>2. UNCHANGED <<phase, enabled, handle>>
    BY <1>3 DEF ArrivalInsert, RemovalQueue, NoTask, adapterVars
  <2> QED BY <2>1, <2>2, HandInOrder, OrderWithHandle
<1>4. ASSUME NEW w \in WorkerThreads, Worker(w) PROVE OrderInv'
  <2>1. ~Quiet
    BY <1>4, QuietStays
  <2>2. UNCHANGED <<phase, enabled, handle, notifier>>
    BY <1>4, WorkerStep
  <2> QED BY <2>1, <2>2 DEF OrderInv
<1>5. CASE CleanupUnregister
  BY <1>5 DEF CleanupUnregister, OrderInv, Quiet
<1>6. CASE CleanupFlush
  <2>1. Quiet
    BY <1>6, FlushedIsQuiet DEF CleanupFlush
  <2>2. Quiet'
    BY <1>6, <2>1 DEF CleanupFlush, Quiet, NoWorkItem
  <2> QED BY <1>6, <2>2 DEF CleanupFlush, OrderInv
<1>7. CASE CleanupEmpty
  <2>1. Quiet /\ ~handle /\ \A n \in Notifiers : notifier[n] = Idle
    BY <1>7 DEF CleanupEmpty, OrderInv
  <2>2. Quiet'
    BY <1>7, <2>1 DEF CleanupEmpty, Quiet
  <2> QED BY <1>7, <2>1, <2>2 DEF CleanupEmpty, OrderInv
<1>8. CASE CleanupDevice \/ (\E p \in fs.registered : OpenFile(p))
           \/ (\E p \in opened : CloseFile(p)) \/ UNCHANGED vars
  BY <1>8, OrderUntouched DEF CleanupDevice, OpenFile, CloseFile, vars, adapterVars
<1> QED BY <1>1, <1>2, <1>3, <1>4, <1>5, <1>6, <1>7, <1>8 DEF Next

LEMMA ServedWorker ==
  ASSUME TypeInv, TaskWillBeServed, NEW w \in WorkerThreads, Worker(w)
  PROVE  TaskWillBeServed'
<1>1. CASE WorkerBegin(w)
  BY <1>1 DEF WorkerBegin, TaskWillBeServed, TypeInv, At
<1>2. CASE WorkerFetch(w)
  <2>1. CASE tasks = <<>>
    BY <1>2, <2>1 DEF WorkerFetch, TaskWillBeServed
  <2>2. CASE tasks # <<>>
    <3>1. Head(tasks).action \in {"Start", "Stop"}
      <4>1. Head(tasks) \in Tasks
        BY <2>2, HeadTailProperties DEF TypeInv
      <4> QED BY <4>1 DEF Tasks
    <3>2. worker'[w].at \in {"Start", "Stop"}
      BY <1>2, <2>2, <3>1 DEF WorkerFetch, TypeInv, At
    <3> QED BY <3>2 DEF TaskWillBeServed
  <2> QED BY <2>1, <2>2
<1>3. CASE WorkerReturn(w)
  <2>1. worker[w].at = "Return" /\ UNCHANGED <<tasks, workItem>>
    BY <1>3 DEF WorkerReturn
  <2>2. \A v \in WorkerThreads : v # w => worker'[v] = worker[v]
    BY <1>3 DEF WorkerReturn, TypeInv
  <2> QED BY <2>1, <2>2 DEF TaskWillBeServed
<1>4. CASE RunsTask(w)
  <2>1. worker[w] \in Running
    BY <1>4, InHand DEF RunsTask
  <2>2. worker'[w].at \in Carrying \union {"Fetch"}
    BY <1>4, <2>1 DEF RunsTask, TypeInv, At, Running
  <2> QED BY <2>2 DEF TaskWillBeServed, Carrying
<1> QED BY <1>1, <1>2, <1>3, <1>4, WorkerStep

LEMMA ServedNext ==
  ASSUME AdapterInv, [Next]_vars
  PROVE  TaskWillBeServed'
<1>1. ASSUME NEW w \in WorkerThreads, Worker(w) PROVE TaskWillBeServed'
  BY <1>1, ServedWorker DEF AdapterInv
<1>2. ASSUME NEW n \in Notifiers, ArrivalInsert(n) \/ RemovalQueue(n)
      PROVE  TaskWillBeServed'
  <2>1. workItem' = [workItem EXCEPT !.queued = @ \/ QueuedAfterEnqueue]
    BY <1>2 DEF ArrivalInsert, RemovalQueue, QueueTask
  <2>2. workItem'.queued
    BY <2>1 DEF AdapterInv, TypeInv, QueuedAfterEnqueue
  <2> QED BY <2>2 DEF TaskWillBeServed
<1>3. CASE StartDevice
  <2>1. tasks' = <<>>
    BY <1>3 DEF StartDevice, AdapterInv, OrderInv, Quiet
  <2> QED BY <2>1 DEF TaskWillBeServed
<1>4. CASE CleanupFlush
  <2>1. tasks' = <<>>
    BY <1>4, FlushedIsQuiet DEF CleanupFlush, AdapterInv, Quiet
  <2> QED BY <2>1 DEF TaskWillBeServed
<1>5. CASE \/ \E n \in Notifiers :
                \/ \E l \in Links : Arrival(n, l) \/ Removal(n, l)
                \/ NoTask(n)
           \/ \E p \in fs.registered : OpenFile(p)
           \/ \E p \in opened : CloseFile(p)
           \/ CleanupUnregister \/ CleanupDevice \/ CleanupEmpty
           \/ UNCHANGED vars
  <2>1. UNCHANGED <<tasks, workItem, worker>>
    BY <1>5 DEF Arrival, Removal, NoTask, OpenFile, CloseFile,
                CleanupUnregister, CleanupDevice, CleanupEmpty, vars, adapterVars
  <2> QED BY <2>1 DEF TaskWillBeServed, AdapterInv
<1> QED BY <1>1, <1>2, <1>3, <1>4, <1>5 DEF Next

LEMMA AdapterInvariant == Spec => []AdapterInv
<1>1. Init => AdapterInv
  BY TypeInit, OrderInit DEF AdapterInv, TaskWillBeServed, Init
<1>2. AdapterInv /\ [Next]_vars => AdapterInv'
  BY TypeNext, OrderNext, ServedNext DEF AdapterInv
<1> QED BY <1>1, <1>2, PTL DEF Spec

\* No task waits for a thread that will not come, however many threads deliver
\* notifications and run the work item, and whenever the adapter goes.
THEOREM TasksAreServed == Spec => []TaskWillBeServed
<1>1. AdapterInv => TaskWillBeServed
  BY DEF AdapterInv
<1> QED BY <1>1, AdapterInvariant, PTL

\* "We are the only thread accessing this list": when Cleanup walks the list of
\* the remaining devices, and once the adapter is gone, no task is queued and
\* no thread has a device in hand.
CleanupAlone ==
  phase \in {"Drain", "Down"} =>
    /\ tasks = <<>>
    /\ \A n \in Notifiers : notifier[n] = Idle
    /\ \A w \in WorkerThreads : worker[w] = Idle

THEOREM CleanupIsAlone == Spec => []CleanupAlone
<1>1. AdapterInv => CleanupAlone
  BY DEF AdapterInv, OrderInv, CleanupAlone, Quiet
<1> QED BY <1>1, AdapterInvariant, PTL
-----------------------------------------------------------------------------
(***************************************************************************)
(* Sequences without duplicates.                                           *)
(***************************************************************************)
Occurs(s, x) == \E i \in DOMAIN s : s[i] = x

Precedes(s, x, y) == \E i, j \in DOMAIN s : i < j /\ s[i] = x /\ s[j] = y

LEMMA AppendEntry ==
  ASSUME NEW S, NEW s \in Seq(S), NEW e \in S, IsInjective(s), ~Occurs(s, e)
  PROVE  /\ IsInjective(Append(s, e))
         /\ \A x : Occurs(Append(s, e), x) <=> Occurs(s, x) \/ x = e
         /\ \A x, y : Precedes(Append(s, e), x, y) <=>
                        Precedes(s, x, y) \/ (Occurs(s, x) /\ y = e)
<1> DEFINE t == Append(s, e)
<1>1. Len(s) \in Nat /\ DOMAIN s = 1 .. Len(s)
  BY LenProperties
<1>2. /\ t \in Seq(S) /\ Len(t) = Len(s) + 1
      /\ \A i \in 1 .. Len(s) : t[i] = s[i]
      /\ t[Len(s) + 1] = e
  BY AppendProperties
<1>3. DOMAIN t = 1 .. Len(s) + 1
  BY <1>2, LenProperties
<1> HIDE DEF t
<1>4. IsInjective(t)
  BY <1>1, <1>2, <1>3 DEF IsInjective, Occurs
<1>5. ASSUME NEW x PROVE Occurs(t, x) <=> Occurs(s, x) \/ x = e
  BY <1>1, <1>2, <1>3 DEF Occurs
<1>6. ASSUME NEW x, NEW y
      PROVE  Precedes(t, x, y) <=> Precedes(s, x, y) \/ (Occurs(s, x) /\ y = e)
  <2>1. ASSUME Precedes(t, x, y)
        PROVE  Precedes(s, x, y) \/ (Occurs(s, x) /\ y = e)
    <3>1. PICK i \in DOMAIN t, j \in DOMAIN t : i < j /\ t[i] = x /\ t[j] = y
      BY <2>1 DEF Precedes
    <3>2. i \in 1 .. Len(s) /\ s[i] = x
      BY <1>1, <1>2, <1>3, <3>1
    <3>3. CASE j = Len(s) + 1
      BY <1>1, <1>2, <3>1, <3>2, <3>3 DEF Occurs
    <3>4. CASE j \in 1 .. Len(s)
      BY <1>1, <1>2, <3>1, <3>2, <3>4 DEF Precedes
    <3> QED BY <1>1, <1>3, <3>3, <3>4
  <2>2. ASSUME Precedes(s, x, y) PROVE Precedes(t, x, y)
    <3>1. PICK i \in DOMAIN s, j \in DOMAIN s : i < j /\ s[i] = x /\ s[j] = y
      BY <2>2 DEF Precedes
    <3>2. i \in DOMAIN t /\ j \in DOMAIN t /\ t[i] = x /\ t[j] = y
      BY <1>1, <1>2, <1>3, <3>1
    <3> QED BY <3>1, <3>2 DEF Precedes
  <2>3. ASSUME Occurs(s, x), y = e PROVE Precedes(t, x, y)
    <3>1. PICK i \in DOMAIN s : s[i] = x
      BY <2>3 DEF Occurs
    <3>2. /\ i \in DOMAIN t /\ t[i] = x
          /\ Len(s) + 1 \in DOMAIN t /\ t[Len(s) + 1] = y /\ i < Len(s) + 1
      BY <1>1, <1>2, <1>3, <2>3, <3>1
    <3> QED BY <3>2 DEF Precedes
  <2> QED BY <2>1, <2>2, <2>3
<1> QED BY <1>4, <1>5, <1>6 DEF t

LEMMA TailEntry ==
  ASSUME NEW S, NEW s \in Seq(S), s # <<>>, IsInjective(s)
  PROVE  /\ IsInjective(Tail(s))
         /\ Occurs(s, Head(s))
         /\ \A x : Occurs(Tail(s), x) <=> Occurs(s, x) /\ x # Head(s)
         /\ \A x, y : Precedes(Tail(s), x, y) <=> Precedes(s, x, y) /\ x # Head(s)
         /\ \A x : ~Precedes(s, x, Head(s))
<1> DEFINE t == Tail(s)
<1>1. /\ Len(s) \in Nat \ {0} /\ DOMAIN s = 1 .. Len(s)
  BY LenProperties, EmptySeq
<1>2. /\ t \in Seq(S) /\ Len(t) = Len(s) - 1
      /\ \A i \in 1 .. Len(t) : t[i] = s[i + 1]
  BY HeadTailProperties
<1>3. DOMAIN t = 1 .. Len(s) - 1
  BY <1>2, LenProperties
<1>4. Head(s) = s[1] /\ 1 \in DOMAIN s
  BY <1>1
<1> HIDE DEF t
<1>5. IsInjective(t)
  <2> SUFFICES ASSUME NEW i \in DOMAIN t, NEW j \in DOMAIN t, t[i] = t[j]
               PROVE  i = j
    BY DEF IsInjective
  <2>1. i + 1 \in DOMAIN s /\ j + 1 \in DOMAIN s /\ s[i + 1] = s[j + 1]
    BY <1>1, <1>2, <1>3
  <2>2. i + 1 = j + 1
    BY <2>1 DEF IsInjective
  <2> QED BY <1>1, <1>3, <2>2
<1>6. ASSUME NEW i \in DOMAIN t
      PROVE  i + 1 \in DOMAIN s /\ s[i + 1] = t[i] /\ t[i] # Head(s)
  <2>1. i + 1 \in DOMAIN s /\ s[i + 1] = t[i] /\ i + 1 # 1
    BY <1>1, <1>2, <1>3
  <2> QED BY <1>4, <2>1 DEF IsInjective
<1>7. ASSUME NEW i \in DOMAIN s, s[i] # Head(s)
      PROVE  i - 1 \in DOMAIN t /\ t[i - 1] = s[i]
  <2>1. i # 1
    BY <1>4, <1>7
  <2>2. i - 1 \in DOMAIN t /\ (i - 1) + 1 = i
    BY <1>1, <1>3, <2>1
  <2> QED BY <1>6, <2>2
<1>8. Occurs(s, Head(s))
  BY <1>4 DEF Occurs
<1>9. ASSUME NEW x PROVE Occurs(t, x) <=> Occurs(s, x) /\ x # Head(s)
  BY <1>6, <1>7 DEF Occurs
<1>10. ASSUME NEW x PROVE ~Precedes(s, x, Head(s))
  BY <1>1, <1>4 DEF Precedes, IsInjective
<1>11. ASSUME NEW x, NEW y
       PROVE  Precedes(t, x, y) <=> Precedes(s, x, y) /\ x # Head(s)
  <2>1. ASSUME Precedes(t, x, y) PROVE Precedes(s, x, y) /\ x # Head(s)
    <3>1. PICK i \in DOMAIN t, j \in DOMAIN t : i < j /\ t[i] = x /\ t[j] = y
      BY <2>1 DEF Precedes
    <3>2. i + 1 < j + 1
      BY <1>1, <1>3, <3>1
    <3> QED BY <1>6, <3>1, <3>2 DEF Precedes
  <2>2. ASSUME Precedes(s, x, y), x # Head(s) PROVE Precedes(t, x, y)
    <3>1. PICK i \in DOMAIN s, j \in DOMAIN s : i < j /\ s[i] = x /\ s[j] = y
      BY <2>2 DEF Precedes
    <3>2. y # Head(s)
      BY <1>10, <2>2
    <3>3. i - 1 < j - 1
      BY <1>1, <3>1
    <3> QED BY <1>7, <2>2, <3>1, <3>2, <3>3 DEF Precedes
  <2> QED BY <2>1, <2>2
<1> QED BY <1>5, <1>8, <1>9, <1>10, <1>11 DEF t

LEMMA RemoveEntry ==
  ASSUME NEW S, NEW s \in Seq(S), NEW i \in DOMAIN s, IsInjective(s)
  PROVE  /\ IsInjective(RemoveAt(s, i))
         /\ \A x : Occurs(RemoveAt(s, i), x) <=> Occurs(s, x) /\ x # s[i]
<1> DEFINE t == RemoveAt(s, i)
           From(j) == IF j < i THEN j ELSE j + 1
<1>1. Len(s) \in Nat /\ DOMAIN s = 1 .. Len(s)
  BY LenProperties
<1>2. /\ t \in Seq(S) /\ Len(t) = Len(s) - 1
      /\ \A j \in 1 .. Len(s) - 1 : t[j] = IF j < i THEN s[j] ELSE s[j + 1]
  BY <1>1, EntryRemoved
<1>3. DOMAIN t = 1 .. Len(s) - 1
  BY <1>2, LenProperties
<1> HIDE DEF t
<1>4. ASSUME NEW j \in DOMAIN t
      PROVE  From(j) \in DOMAIN s /\ From(j) # i /\ t[j] = s[From(j)]
  BY <1>1, <1>2, <1>3
<1>5. ASSUME NEW j \in DOMAIN s, j # i
      PROVE  \E k \in DOMAIN t : From(k) = j
  <2>1. CASE j < i
    BY <1>1, <1>3, <2>1
  <2>2. CASE j > i
    <3>1. j - 1 \in DOMAIN t /\ ~(j - 1 < i) /\ (j - 1) + 1 = j
      BY <1>1, <1>3, <2>2
    <3> QED BY <3>1
  <2> QED BY <1>1, <1>5, <2>1, <2>2
<1>6. IsInjective(t)
  <2> SUFFICES ASSUME NEW j \in DOMAIN t, NEW k \in DOMAIN t, t[j] = t[k]
               PROVE  j = k
    BY DEF IsInjective
  <2>1. From(j) = From(k)
    BY <1>4 DEF IsInjective
  <2> QED BY <1>1, <1>3, <2>1
<1>7. ASSUME NEW x PROVE Occurs(t, x) <=> Occurs(s, x) /\ x # s[i]
  <2>1. ASSUME Occurs(t, x) PROVE Occurs(s, x) /\ x # s[i]
    <3>1. PICK j \in DOMAIN t : t[j] = x
      BY <2>1 DEF Occurs
    <3> QED BY <1>4, <3>1 DEF Occurs, IsInjective
  <2>2. ASSUME Occurs(s, x), x # s[i] PROVE Occurs(t, x)
    <3>1. PICK j \in DOMAIN s : s[j] = x
      BY <2>2 DEF Occurs
    <3>2. PICK k \in DOMAIN t : From(k) = j
      BY <1>5, <2>2, <3>1
    <3> QED BY <1>4, <3>1, <3>2 DEF Occurs
  <2> QED BY <2>1, <2>2
<1> QED BY <1>6, <1>7 DEF t

-----------------------------------------------------------------------------
(***************************************************************************)
(* Devices, their references and their filters, when one thread delivers   *)
(* notifications, one runs the callback, and links have names of their     *)
(* own.                                                                    *)
(***************************************************************************)
OneThreadEach ==
  /\ \A m, n \in Notifiers : m = n
  /\ \A v, w \in WorkerThreads : v = w

NamesDistinct == \A l, m \in Links : NameOf(l) = NameOf(m) => l = m

\* Where an object may be: in the list, in a task that waits, with the thread
\* that delivers its notification, with the one that runs its task.
Listed(o) == Occurs(devices, o)
Task(action, o) == [action |-> action, object |-> o]
Waits(action, o) == Occurs(tasks, Task(action, o))
Notified(at, o) == \E n \in Notifiers : notifier[n] = At(at, o)
Works(at, o) == \E w \in WorkerThreads : worker[w] = At(at, o)

Entering(o) == Notified("Insert", o)
Starting(o) == Works("Start", o) \/ Works("StartMic", o) \/ Works("StartNotify", o)
InWork(o) == Starting(o) \/ Works("Stop", o) \/ Works("Release", o)
Unstarted(o) == Entering(o) \/ Waits("Start", o)
Leaving(o) == Waits("Stop", o) \/ Works("Stop", o)
Live(o) == state[o] \in {"Running", "Failed"}

ObjectTypes ==
  /\ state \in [Objects -> {"Free", "Running", "Failed", "Stopped"}]
  /\ link \in [Objects -> Links \union {NoLink}]
  /\ refs \in [Objects -> Int]
  /\ ports = [o \in Objects |-> [pair \in Pairs |->
                [topology |-> ports[o][pair].topology, wave |-> ports[o][pair].wave]]]
  /\ fs = [registered |-> fs.registered, cache |-> fs.cache,
           connected |-> fs.connected]
  /\ \A o \in Objects : Live(o) => link[o] \in Links

\* An object has one entry in the list and one task of a kind, its start comes
\* before its stop, and the places exclude each other.
PlaceInv ==
  /\ IsInjective(devices) /\ IsInjective(tasks)
  /\ \A o \in Objects :
       /\ Waits("Start", o) /\ Waits("Stop", o) =>
            Precedes(tasks, Task("Start", o), Task("Stop", o))
       /\ Listed(o) => ~Leaving(o)
       /\ Entering(o) =>
            ~Listed(o) /\ ~Waits("Start", o) /\ ~Leaving(o) /\ ~InWork(o)
       /\ Notified("Remove", o) => Listed(o)
       /\ InWork(o) => ~Waits("Start", o)
       /\ Works("Stop", o) => ~Waits("Stop", o)
       /\ Waits("Start", o) \/ Starting(o) => Listed(o) \/ Waits("Stop", o)

\* The devices that are there are those that come, are listed or go.
LiveInv ==
  \A o \in Objects : Live(o) <=> Entering(o) \/ Listed(o) \/ Leaving(o)

One(condition) == IF condition THEN 1 ELSE 0
Count(o) ==
  One(Listed(o)) + One(Waits("Start", o)) + One(Waits("Stop", o))
    + One(Entering(o) \/ Notified("Remove", o)) + One(InWork(o))

RefsInv == \A o \in Objects : refs[o] = Count(o)

\* The ports of an object that exist.
Owns(o) == \E p \in Alive(fs, opened, ports) : p.owner = o

OwnInv ==
  \A o \in Objects :
    /\ state[o] = "Free" <=> refs[o] = 0 /\ ~Owns(o)
    /\ Unstarted(o) => ~Owns(o)

\* Two devices of one link: the stop of one comes before the start of the
\* other.
Before(a, b) ==
  \/ Works("Stop", a) /\ Unstarted(b)
  \/ Waits("Stop", a) /\ Entering(b)
  \/ Precedes(tasks, Task("Stop", a), Task("Start", b))

LinkInv ==
  \A a, b \in Objects :
    a # b /\ Live(a) /\ Live(b) /\ link[a] = link[b] => Before(a, b) \/ Before(b, a)

\* What is registered is what devices point to, whose start is under way or
\* done; what is cached is registered.
FilterInv ==
  /\ fs.cache \subseteq fs.registered
  /\ \A p \in fs.registered : p # NoPort /\ \E o \in Objects, pair \in Pairs :
       p \in {ports[o][pair].topology, ports[o][pair].wave}
  /\ \A c \in fs.connected :
       /\ c[1] # NoPort /\ c[2] # NoPort
       /\ \E o \in Objects, pair \in Pairs :
            c = <<ports[o][pair].topology, ports[o][pair].wave>>
  /\ \A o \in Objects :
       /\ \A pair \in Pairs :
            /\ ports[o][pair].topology \in
                 {NoPort, Port(o, FilterName(o, pair), "Topology")}
            /\ ports[o][pair].wave \in
                 {NoPort, Port(o, FilterName(o, pair), "Wave")}
       /\ ports[o] # NoPorts => Live(o) /\ ~Unstarted(o)
       /\ Works("Start", o) => ports[o] = NoPorts
       /\ Works("StartMic", o) => ports[o]["Mic"] = NoPorts["Mic"]

\* Without the cleanup there is nothing to clean up.
ListInv == ~enabled => devices = <<>>

DeviceInv == /\ ObjectTypes /\ PlaceInv /\ LiveInv /\ RefsInv /\ OwnInv
             /\ LinkInv /\ FilterInv /\ ListInv

-----------------------------------------------------------------------------
(***************************************************************************)
(* What the steps do to the places.                                        *)
(***************************************************************************)
LEMMA AtInjective ==
  \A at, bt, o, p : At(at, o) = At(bt, p) <=> at = bt /\ o = p
BY DEF At

LEMMA OneNotifier ==
  ASSUME OneThreadEach, NEW n \in Notifiers
  PROVE  \A at, o : /\ Notified(at, o) <=> notifier[n] = At(at, o)
                    /\ Notified(at, o)' <=> notifier'[n] = At(at, o)
BY DEF OneThreadEach, Notified

LEMMA OneWorker ==
  ASSUME OneThreadEach, NEW w \in WorkerThreads
  PROVE  \A at, o : /\ Works(at, o) <=> worker[w] = At(at, o)
                    /\ Works(at, o)' <=> worker'[w] = At(at, o)
BY DEF OneThreadEach, Works

LEMMA SameNotifier ==
  ASSUME UNCHANGED notifier
  PROVE  \A at, o : Notified(at, o)' <=> Notified(at, o)
BY DEF Notified

LEMMA SameWorker ==
  ASSUME UNCHANGED worker
  PROVE  \A at, o : Works(at, o)' <=> Works(at, o)
BY DEF Works

LEMMA SameDevices ==
  ASSUME UNCHANGED devices
  PROVE  (IsInjective(devices)' <=> IsInjective(devices))
         /\ \A o : Listed(o)' <=> Listed(o)
BY DEF Listed

LEMMA SameTasks ==
  ASSUME UNCHANGED tasks
  PROVE  /\ IsInjective(tasks)' <=> IsInjective(tasks)
         /\ \A a, o : Waits(a, o)' <=> Waits(a, o)
         /\ \A s, t : Precedes(tasks, s, t)' <=> Precedes(tasks, s, t)
BY DEF Waits

LEMMA TaskQueued ==
  ASSUME TypeInv, NEW action \in {"Start", "Stop"}, NEW o \in Objects,
         QueueTask(action, o), IsInjective(tasks), ~Waits(action, o)
  PROVE  /\ IsInjective(tasks)'
         /\ \A a, p : Waits(a, p)' <=> Waits(a, p) \/ (a = action /\ p = o)
         /\ \A s, t : Precedes(tasks, s, t)' <=>
                        Precedes(tasks, s, t)
                          \/ (Occurs(tasks, s) /\ t = Task(action, o))
<1> DEFINE e == Task(action, o)
<1>1. e \in Tasks
  BY DEF Task, Tasks
<1>2. tasks' = Append(tasks, e)
  BY DEF QueueTask, Task
<1>3. tasks \in Seq(Tasks) /\ ~Occurs(tasks, e)
  BY DEF TypeInv, Waits
<1> HIDE DEF e
<1>4. /\ IsInjective(tasks')
      /\ \A x : Occurs(tasks', x) <=> Occurs(tasks, x) \/ x = e
      /\ \A x, y : Precedes(tasks', x, y) <=>
                     Precedes(tasks, x, y) \/ (Occurs(tasks, x) /\ y = e)
  BY <1>1, <1>2, <1>3, AppendEntry
<1>5. \A a, p : Task(a, p) = e <=> a = action /\ p = o
  BY DEF Task, e
<1>6. \A a, p : Waits(a, p)' <=> Occurs(tasks', Task(a, p))
  BY DEF Waits
<1> QED BY <1>4, <1>5, <1>6 DEF Waits, e

LEMMA TaskTaken ==
  ASSUME TypeInv, IsInjective(tasks), tasks # <<>>, tasks' = Tail(tasks)
  PROVE  /\ IsInjective(tasks)'
         /\ \E action \in {"Start", "Stop"}, o \in Objects :
              /\ Head(tasks) = Task(action, o)
              /\ Waits(action, o)
              /\ \A a, p : Waits(a, p)' <=> Waits(a, p) /\ ~(a = action /\ p = o)
              /\ \A s, t : Precedes(tasks, s, t)' <=>
                             Precedes(tasks, s, t) /\ s # Task(action, o)
              /\ \A s : ~Precedes(tasks, s, Task(action, o))
<1>1. tasks \in Seq(Tasks)
  BY DEF TypeInv
<1>2. Head(tasks) \in Tasks
  BY <1>1, HeadTailProperties
<1>3. PICK action \in {"Start", "Stop"}, o \in Objects : Head(tasks) = Task(action, o)
  BY <1>2 DEF Tasks, Task
<1>4. /\ IsInjective(tasks')
      /\ Occurs(tasks, Task(action, o))
      /\ \A x : Occurs(tasks', x) <=> Occurs(tasks, x) /\ x # Task(action, o)
      /\ \A x, y : Precedes(tasks', x, y) <=>
                     Precedes(tasks, x, y) /\ x # Task(action, o)
      /\ \A x : ~Precedes(tasks, x, Task(action, o))
  <2>1. /\ IsInjective(Tail(tasks))
        /\ Occurs(tasks, Head(tasks))
        /\ \A x : Occurs(Tail(tasks), x) <=> Occurs(tasks, x) /\ x # Head(tasks)
        /\ \A x, y : Precedes(Tail(tasks), x, y) <=>
                       Precedes(tasks, x, y) /\ x # Head(tasks)
        /\ \A x : ~Precedes(tasks, x, Head(tasks))
    BY <1>1, TailEntry
  <2> QED BY <1>3, <2>1
<1>5. \A a, p : Task(a, p) = Task(action, o) <=> a = action /\ p = o
  BY DEF Task
<1>6. \A a, p : Waits(a, p)' <=> Occurs(tasks', Task(a, p))
  BY DEF Waits
<1>7. \A a, p : Waits(a, p)' <=> Waits(a, p) /\ ~(a = action /\ p = o)
  BY <1>4, <1>5, <1>6 DEF Waits
<1> QED BY <1>3, <1>4, <1>7 DEF Waits

-----------------------------------------------------------------------------
(***************************************************************************)
(* What the operators of EndpointFilters and the steps do to filters.      *)
(***************************************************************************)
Filters(f) == f = [registered |-> f.registered, cache |-> f.cache,
                   connected |-> f.connected]

\* A port that InstallEndpointFilters would install.
LEMMA NullIsNoPort ==
  ASSUME NEW o \in Objects, link[o] \in Links, NEW pair \in Pairs,
         NEW kind \in {"Topology", "Wave"}
  PROVE  Port(o, FilterName(o, pair), kind) # NoPort
BY NullAssumption DEF FilterName

\* One filter of a pair whose name nobody has registered: it is missing, or
\* new.
LEMMA ObtainNew ==
  ASSUME NEW f, Filters(f), f.cache \subseteq f.registered,
         NEW owner, NEW name, NEW kind,
         ~ \E q \in f.registered : SameName(q, Port(owner, name, kind)),
         NEW got \in Obtain(f, Port(owner, name, kind))
  PROVE  LET port == Port(owner, name, kind)
         IN  /\ got.created /\ got.ok \in BOOLEAN /\ Filters(got.fs)
             /\ got.fs.connected = f.connected
             /\ got.fs.cache \subseteq got.fs.registered
             /\ f.cache \subseteq got.fs.cache
             /\ \/ got.port = NoPort /\ ~got.ok /\ got.fs = f
                \/ /\ got.port = port
                   /\ got.fs.registered = f.registered \union {port}
                   /\ got.fs.cache \subseteq f.cache \union {port}
<1> DEFINE port == Port(owner, name, kind)
           installed == InstallSubdevice(f, port)
           cached == CacheSubdevice(installed, port)
           Got(q, created, ok, after) ==
             [port |-> q, created |-> created, ok |-> ok, fs |-> after]
<1>1. GetCachedSubdevice(f, port) = {}
  BY DEF GetCachedSubdevice
<1>2. got \in {Got(NoPort, TRUE, FALSE, f), Got(port, TRUE, TRUE, cached),
               Got(port, TRUE, FALSE, installed)}
  BY <1>1 DEF Obtain
<1>3. /\ installed = [registered |-> f.registered \union {port},
                      cache |-> f.cache, connected |-> f.connected]
      /\ cached = [registered |-> f.registered \union {port},
                   cache |-> f.cache \union {port}, connected |-> f.connected]
  <2>1. installed = [registered |-> f.registered \union {port},
                     cache |-> f.cache, connected |-> f.connected]
    BY DEF Filters, InstallSubdevice
  <2>2. ASSUME NEW g, g = [registered |-> f.registered \union {port},
                           cache |-> f.cache, connected |-> f.connected]
        PROVE  CacheSubdevice(g, port) =
                 [registered |-> f.registered \union {port},
                  cache |-> f.cache \union {port}, connected |-> f.connected]
    BY <2>2 DEF CacheSubdevice
  <2> QED BY <2>1, <2>2
<1> HIDE DEF installed, cached, port
<1>4. CASE got = Got(NoPort, TRUE, FALSE, f)
  BY <1>4 DEF port
<1>5. CASE got = Got(port, TRUE, TRUE, cached)
  BY <1>3, <1>5 DEF Filters, port
<1>6. CASE got = Got(port, TRUE, FALSE, installed)
  BY <1>3, <1>6 DEF Filters, port
<1> QED BY <1>2, <1>4, <1>5, <1>6

\* What it created is undone.
LEMMA CreatedUndone ==
  ASSUME NEW f, Filters(f), NEW got, got.created
  PROVE  LET g == UndoCreated(f, got)
         IN  /\ Filters(g) /\ g.connected = f.connected
             /\ got.port = NoPort => g = f
             /\ got.port # NoPort =>
                  /\ g.registered = f.registered \ {got.port}
                  /\ g.cache = f.cache \ {q \in f.cache : SameName(q, got.port)}
<1>1. CASE got.port = NoPort
  BY <1>1 DEF UndoCreated
<1>2. CASE got.port # NoPort
  BY <1>2 DEF UndoCreated, UnregisterSubdevice, RemoveCachedSubdevice,
              GetCachedSubdevice, Filters
<1> QED BY <1>1, <1>2

\* The installation of a pair whose names nobody has registered installs both,
\* one or none of them, and no other filter changes.
LEMMA PairInstalled ==
  ASSUME NEW f, Filters(f), f.cache \subseteq f.registered, NoPort \notin f.registered,
         NEW owner, NEW name,
         \A kind \in {"Topology", "Wave"} :
           /\ Port(owner, name, kind) # NoPort
           /\ ~ \E q \in f.registered : SameName(q, Port(owner, name, kind)),
         NEW r \in InstallEndpointFilters(f, owner, name)
  PROVE  /\ r.ok \in BOOLEAN /\ Filters(r.fs)
         /\ r.topology \in {NoPort, Port(owner, name, "Topology")}
         /\ r.wave \in {NoPort, Port(owner, name, "Wave")}
         /\ r.fs.registered = f.registered \union ({r.topology, r.wave} \ {NoPort})
         /\ r.fs.cache \subseteq r.fs.registered
         /\ \/ r.fs.connected = f.connected
            \/ /\ r.fs.connected = f.connected \union {<<r.topology, r.wave>>}
               /\ r.topology # NoPort /\ r.wave # NoPort
<1> DEFINE T == Port(owner, name, "Topology")
           W == Port(owner, name, "Wave")
           Succeeded(t, w, after) ==
             [ok |-> TRUE, topology |-> t.port, wave |-> w.port, fs |-> after]
           Failed(t, w, after) ==
             [ok |-> FALSE, topology |-> NoPort, wave |-> NoPort,
              fs |-> UndoCreated(UndoCreated(after, t), w)]
           Outcomes(t, w) ==
             IF t.port # NoPort /\ w.port # NoPort
             THEN {Succeeded(t, w, Connect(w.fs, t.port, w.port)),
                   Failed(t, w, w.fs)}
             ELSE {IF w.ok THEN Succeeded(t, w, w.fs) ELSE Failed(t, w, w.fs)}
<1>1. InstallEndpointFilters(f, owner, name) =
        UNION {UNION {Outcomes(t, w) : w \in Obtain(t.fs, W)} : t \in Obtain(f, T)}
  BY DEF InstallEndpointFilters
<1>2. PICK t \in Obtain(f, T) : r \in UNION {Outcomes(t, w) : w \in Obtain(t.fs, W)}
  BY <1>1
<1>3. PICK w \in Obtain(t.fs, W) : r \in Outcomes(t, w)
  BY <1>2
<1>4.   \/ /\ t.port # NoPort /\ w.port # NoPort
           /\ \/ r = Succeeded(t, w, Connect(w.fs, t.port, w.port))
              \/ r = Failed(t, w, w.fs)
        \/ /\ ~(t.port # NoPort /\ w.port # NoPort)
           /\ \/ w.ok /\ r = Succeeded(t, w, w.fs)
              \/ ~w.ok /\ r = Failed(t, w, w.fs)
  BY <1>3
<1>5. /\ t.created /\ Filters(t.fs) /\ t.fs.connected = f.connected
      /\ t.fs.cache \subseteq t.fs.registered /\ f.cache \subseteq t.fs.cache
      /\ \/ t.port = NoPort /\ t.fs = f
         \/ /\ t.port = T
            /\ t.fs.registered = f.registered \union {T}
            /\ t.fs.cache \subseteq f.cache \union {T}
  BY ObtainNew
<1>6. ~ \E q \in t.fs.registered : SameName(q, W)
  <2>1. ~SameName(T, W)
    BY DEF SameName, Port
  <2> QED BY <1>5, <2>1
<1>7. /\ w.created /\ Filters(w.fs) /\ w.fs.connected = f.connected
      /\ w.fs.cache \subseteq w.fs.registered /\ t.fs.cache \subseteq w.fs.cache
      /\ \/ w.port = NoPort /\ ~w.ok /\ w.fs = t.fs
         \/ /\ w.port = W
            /\ w.fs.registered = t.fs.registered \union {W}
            /\ w.fs.cache \subseteq t.fs.cache \union {W}
  BY <1>5, <1>6, ObtainNew
<1>8. T # W /\ T # NoPort /\ W # NoPort /\ T \notin f.registered /\ W \notin f.registered
  BY DEF SameName, Port
<1> HIDE DEF T, W
<1>9. t.fs.registered = f.registered \union ({t.port} \ {NoPort})
  BY <1>5, <1>8
<1>10. w.fs.registered = t.fs.registered \union ({w.port} \ {NoPort})
  BY <1>7, <1>8
<1>11. w.fs.registered = f.registered \union ({t.port, w.port} \ {NoPort})
  BY <1>9, <1>10
<1>12. t.port \in {NoPort, T} /\ w.port \in {NoPort, W}
  BY <1>5, <1>7
<1>13. ASSUME r = Succeeded(t, w, Connect(w.fs, t.port, w.port)),
             t.port # NoPort, w.port # NoPort
      PROVE  /\ r.ok \in BOOLEAN /\ Filters(r.fs)
             /\ r.topology \in {NoPort, T} /\ r.wave \in {NoPort, W}
             /\ r.fs.registered = f.registered \union ({r.topology, r.wave} \ {NoPort})
             /\ r.fs.cache \subseteq r.fs.registered
             /\ r.fs.connected = f.connected \union {<<r.topology, r.wave>>}
             /\ r.topology # NoPort /\ r.wave # NoPort
  <2>1. /\ Filters(r.fs) /\ r.fs.registered = w.fs.registered
        /\ r.fs.cache = w.fs.cache
        /\ r.fs.connected = f.connected \union {<<t.port, w.port>>}
        /\ r.topology = t.port /\ r.wave = w.port /\ r.ok = TRUE
    BY <1>7, <1>13 DEF Connect, Filters
  <2> QED BY <1>7, <1>13, <1>11, <1>12, <2>1
<1>14. ASSUME r = Succeeded(t, w, w.fs)
      PROVE  /\ r.ok \in BOOLEAN /\ Filters(r.fs)
             /\ r.topology \in {NoPort, T} /\ r.wave \in {NoPort, W}
             /\ r.fs.registered = f.registered \union ({r.topology, r.wave} \ {NoPort})
             /\ r.fs.cache \subseteq r.fs.registered
             /\ r.fs.connected = f.connected
  <2>1. r.fs = w.fs /\ r.topology = t.port /\ r.wave = w.port /\ r.ok = TRUE
    BY <1>14
  <2> QED BY <1>5, <1>7, <1>11, <1>12, <2>1
<1>15. ASSUME r = Failed(t, w, w.fs)
      PROVE  /\ r.ok \in BOOLEAN /\ Filters(r.fs)
             /\ r.topology = NoPort /\ r.wave = NoPort
             /\ r.fs.registered = f.registered
             /\ r.fs.cache \subseteq r.fs.registered
             /\ r.fs.connected = f.connected
  <2> DEFINE one == UndoCreated(w.fs, t)
             two == UndoCreated(one, w)
  <2>1. /\ Filters(one) /\ one.connected = f.connected
        /\ t.port = NoPort => one = w.fs
        /\ t.port # NoPort =>
             /\ one.registered = w.fs.registered \ {t.port}
             /\ one.cache = w.fs.cache \ {q \in w.fs.cache : SameName(q, t.port)}
    BY <1>5, <1>7, CreatedUndone
  <2> HIDE DEF one
  <2>2. /\ Filters(two) /\ two.connected = f.connected
        /\ w.port = NoPort => two = one
        /\ w.port # NoPort =>
             /\ two.registered = one.registered \ {w.port}
             /\ two.cache = one.cache \ {q \in one.cache : SameName(q, w.port)}
    BY <1>7, <2>1, CreatedUndone
  <2> HIDE DEF two
  <2>3. one.registered = IF t.port = NoPort THEN w.fs.registered
                         ELSE w.fs.registered \ {T}
    BY <1>5, <2>1
  <2>4. one.cache \subseteq w.fs.cache /\ (t.port # NoPort => t.port \notin one.cache)
    BY <2>1 DEF SameName
  <2>5. two.cache \subseteq one.cache /\ (w.port # NoPort => w.port \notin two.cache)
    BY <2>2 DEF SameName
  <2>6. two.registered = IF w.port = NoPort THEN one.registered
                         ELSE one.registered \ {W}
    BY <1>7, <2>2
  <2>7. two.registered = f.registered
    <3>1. one.registered = f.registered \union ({w.port} \ {NoPort})
      BY <1>8, <1>11, <1>12, <2>3
    <3> QED BY <1>8, <1>12, <2>6, <3>1
  <2>8. two.cache \subseteq two.registered
    BY <1>7, <1>11, <2>4, <2>5, <2>7
  <2>9. r.fs = two /\ r.topology = NoPort /\ r.wave = NoPort /\ r.ok = FALSE
    BY <1>15 DEF one, two
  <2> QED BY <2>2, <2>7, <2>8, <2>9
<1> QED BY <1>4, <1>13, <1>14, <1>15 DEF T, W

\* The removal of the filters of an object's pair.
LEMMA PairRemoved ==
  ASSUME FilterInv, NEW f, Filters(f), f.cache \subseteq f.registered,
         f.registered \subseteq fs.registered, f.connected \subseteq fs.connected,
         NEW o \in Objects, NEW pair \in Pairs
  PROVE  LET g == Removed(f, o, pair)
             t == ports[o][pair].topology
             w == ports[o][pair].wave
         IN  /\ Filters(g)
             /\ g.registered = f.registered \ {t, w}
             /\ g.connected = f.connected \ {<<t, w>>}
             /\ g.cache \subseteq f.cache /\ g.cache \subseteq g.registered
<1> DEFINE g == Removed(f, o, pair)
           t == ports[o][pair].topology
           w == ports[o][pair].wave
           name == FilterName(o, pair)
<1>1. NoPort \notin f.registered /\ \A c \in f.connected : c # <<NoPort, NoPort>>
  BY DEF FilterInv
<1>2. t \in {NoPort, Port(o, name, "Topology")} /\ w \in {NoPort, Port(o, name, "Wave")}
  BY DEF FilterInv
<1>3. CASE ~HasFilters(ports[o][pair])
  <2>1. g = f /\ t = NoPort /\ w = NoPort
    BY <1>3 DEF Removed, HasFilters
  <2> QED BY <1>1, <2>1
<1>4. CASE HasFilters(ports[o][pair])
  <2>1. g = RemoveEndpointFilters(f, name, t, w)
    BY <1>4 DEF Removed
  <2> HIDE DEF g, t, w, name
  <2>2. g = [registered |-> (f.registered \ {w}) \ {t},
             cache |-> {p \in {p \in f.cache : p.name # name \/ p.kind # "Wave"} :
                          p.name # name \/ p.kind # "Topology"},
             connected |-> f.connected \ {<<t, w>>}]
    BY <2>1 DEF RemoveEndpointFilters, UnregisterSubdevice, Filters
  <2>3. ASSUME NEW p \in g.cache PROVE p \in f.cache /\ p # t /\ p # w
    <3>1. /\ p \in f.cache
          /\ p.name # name \/ p.kind # "Wave"
          /\ p.name # name \/ p.kind # "Topology"
      BY <2>2
    <3>2. p # NoPort
      BY <1>1, <3>1
    <3> QED BY <1>2, <3>1, <3>2 DEF Port
  <2>4. Filters(g) /\ g.registered = f.registered \ {t, w}
        /\ g.connected = f.connected \ {<<t, w>>}
    BY <2>2 DEF Filters
  <2>5. g.cache \subseteq g.registered
    BY <2>3, <2>4
  <2> QED BY <2>3, <2>4, <2>5 DEF g, t, w, name
<1> QED BY <1>3, <1>4

\* What Stop leaves of the filters: those of other devices.
LEMMA StopRemoves ==
  ASSUME FilterInv, Filters(fs), NEW o \in Objects
  PROVE  /\ Filters(AfterStop(o))
         /\ AfterStop(o).cache \subseteq fs.cache
         /\ AfterStop(o).cache \subseteq AfterStop(o).registered
         /\ AfterStop(o).registered \subseteq fs.registered
         /\ AfterStop(o).connected \subseteq fs.connected
         /\ \A pair \in Pairs :
              /\ ports[o][pair].topology \notin AfterStop(o).registered
              /\ ports[o][pair].wave \notin AfterStop(o).registered
              /\ <<ports[o][pair].topology, ports[o][pair].wave>>
                   \notin AfterStop(o).connected
<1> DEFINE f == Removed(fs, o, "Speaker")
           g == Removed(f, o, "Mic")
<1>1. fs.cache \subseteq fs.registered
  BY DEF FilterInv
<1>2. /\ Filters(f) /\ f.cache \subseteq fs.cache /\ f.cache \subseteq f.registered
      /\ f.registered = fs.registered
           \ {ports[o]["Speaker"].topology, ports[o]["Speaker"].wave}
      /\ f.connected = fs.connected
           \ {<<ports[o]["Speaker"].topology, ports[o]["Speaker"].wave>>}
  BY <1>1, PairRemoved DEF Pairs
<1> HIDE DEF f
<1>3. /\ Filters(g) /\ g.cache \subseteq f.cache /\ g.cache \subseteq g.registered
      /\ g.registered = f.registered
           \ {ports[o]["Mic"].topology, ports[o]["Mic"].wave}
      /\ g.connected = f.connected
           \ {<<ports[o]["Mic"].topology, ports[o]["Mic"].wave>>}
  BY <1>2, PairRemoved DEF Pairs
<1>4. AfterStop(o) = g
  BY DEF AfterStop, f
<1> HIDE DEF g
<1>5. ASSUME NEW pair \in Pairs
      PROVE  /\ ports[o][pair].topology \notin g.registered
             /\ ports[o][pair].wave \notin g.registered
             /\ <<ports[o][pair].topology, ports[o][pair].wave>> \notin g.connected
  <2>1. CASE pair = "Speaker"
    BY <1>2, <1>3, <2>1
  <2>2. CASE pair = "Mic"
    BY <1>3, <2>2
  <2> QED BY <2>1, <2>2 DEF Pairs
<1>6. /\ g.cache \subseteq fs.cache /\ g.registered \subseteq fs.registered
      /\ g.connected \subseteq fs.connected
  BY <1>2, <1>3
<1> QED BY <1>3, <1>4, <1>5, <1>6

\* The ports that exist.
LEMMA AliveIs ==
  ASSUME NEW f, NEW open, NEW pointers, NEW p
  PROVE  p \in Alive(f, open, pointers) <=>
           /\ p # NoPort
           /\ \/ p \in f.registered \/ p \in f.cache \/ p \in open
              \/ \E o \in Objects, pair \in Pairs :
                   p = pointers[o][pair].topology \/ p = pointers[o][pair].wave
BY DEF Alive

LEMMA OwnsIs ==
  \A o : /\ Owns(o) <=> \E p \in Alive(fs, opened, ports) : p.owner = o
         /\ Owns(o)' <=> \E p \in Alive(fs', opened', ports') : p.owner = o
BY DEF Owns, Alive

\* Where filters, files and pointers only go, no object gains a port.
LEMMA OwnsLess ==
  ASSUME fs'.registered \subseteq fs.registered, fs'.cache \subseteq fs.cache,
         opened' \subseteq opened,
         \A o \in Objects, pair \in Pairs :
           /\ ports'[o][pair].topology \in {NoPort, ports[o][pair].topology}
           /\ ports'[o][pair].wave \in {NoPort, ports[o][pair].wave}
  PROVE  \A o : Owns(o)' => Owns(o)
<1>1. ASSUME NEW p \in Alive(fs', opened', ports')
      PROVE  p \in Alive(fs, opened, ports)
  <2>1. /\ p # NoPort
        /\ \/ p \in fs'.registered \/ p \in fs'.cache \/ p \in opened'
           \/ \E o \in Objects, pair \in Pairs :
                p = ports'[o][pair].topology \/ p = ports'[o][pair].wave
    BY AliveIs
  <2>2. \/ p \in fs.registered \/ p \in fs.cache \/ p \in opened
        \/ \E o \in Objects, pair \in Pairs :
             p = ports[o][pair].topology \/ p = ports[o][pair].wave
    BY <2>1
  <2> QED BY <2>1, <2>2, AliveIs
<1> QED BY <1>1, OwnsIs

LEMMA OwnsSame ==
  ASSUME UNCHANGED <<fs, opened, ports>>
  PROVE  \A o : Owns(o)' <=> Owns(o)
BY OwnsIs

\* The objects after a step that may destroy some.
States == {"Free", "Running", "Failed", "Stopped"}

LEMMA ObjectsSet ==
  ASSUME ObjectTypes, NEW newState \in [Objects -> States], NEW newRefs,
         NEW newPorts, NEW newFs, NEW newOpened,
         SetObjects(newState, newRefs, newPorts, newFs, newOpened)
  PROVE  /\ refs' = newRefs /\ ports' = newPorts /\ fs' = newFs
         /\ opened' = newOpened
         /\ state' \in [Objects -> States]
         /\ link' \in [Objects -> Links \union {NoLink}]
         /\ \A o \in Objects :
              /\ refs'[o] = 0 /\ ~Owns(o)' => state'[o] = "Free"
              /\ ~(refs'[o] = 0 /\ ~Owns(o)') =>
                   state'[o] = newState[o] /\ link'[o] = link[o]
<1> DEFINE Dead(o) == newRefs[o] = 0
                      /\ \A p \in Alive(newFs, newOpened, newPorts) : p.owner # o
<1>1. /\ refs' = newRefs /\ ports' = newPorts /\ fs' = newFs
      /\ opened' = newOpened
      /\ state' = [o \in Objects |-> IF Dead(o) THEN "Free" ELSE newState[o]]
      /\ link' = [o \in Objects |-> IF Dead(o) THEN NoLink ELSE link[o]]
  BY DEF SetObjects
<1>2. \A o : Dead(o) <=> refs'[o] = 0 /\ ~Owns(o)'
  BY <1>1, OwnsIs
<1> HIDE DEF Dead
<1>3. state' \in [Objects -> States] /\ link' \in [Objects -> Links \union {NoLink}]
  BY <1>1 DEF ObjectTypes, States
<1> QED BY <1>1, <1>2, <1>3

-----------------------------------------------------------------------------
(***************************************************************************)
(* Who has an object in hand, before and after a step.                     *)
(***************************************************************************)
Hands == {"Insert", "Remove"}

LEMMA NotifierHas ==
  ASSUME OneThreadEach, TypeInv, NEW n \in Notifiers, notifier[n].at \in Hands
  PROVE  /\ notifier[n].object \in Objects
         /\ \A at \in Hands : \A p :
              Notified(at, p) <=> at = notifier[n].at /\ p = notifier[n].object
<1>1. notifier[n] \in Notifying
  BY DEF TypeInv
<1>2. notifier[n].object \in Objects
  BY <1>1 DEF Notifying, Idle, Hands
<1>3. notifier[n] = At(notifier[n].at, notifier[n].object)
  BY <1>1 DEF Notifying, Idle, Hands, At
<1> QED BY <1>2, <1>3, OneNotifier, AtInjective

LEMMA NotifierIdle ==
  ASSUME OneThreadEach, NEW n \in Notifiers, notifier[n] = Idle
  PROVE  \A at \in Hands : \A p : ~Notified(at, p)
<1>1. \A at \in Hands : \A p : Idle # At(at, p)
  BY DEF Idle, At, Hands
<1> QED BY <1>1, OneNotifier

LEMMA NotifierTakes ==
  ASSUME OneThreadEach, TypeInv, NEW n \in Notifiers, NEW at, NEW o,
         notifier' = [notifier EXCEPT ![n] = At(at, o)]
  PROVE  \A bt, p : Notified(bt, p)' <=> bt = at /\ p = o
<1>1. notifier'[n] = At(at, o)
  BY DEF TypeInv
<1> QED BY <1>1, OneNotifier, AtInjective

LEMMA NotifierGives ==
  ASSUME OneThreadEach, TypeInv, NEW n \in Notifiers,
         notifier' = [notifier EXCEPT ![n] = Idle]
  PROVE  \A at \in Hands : \A p : ~Notified(at, p)'
<1>1. notifier'[n] = Idle
  BY DEF TypeInv
<1>2. \A at \in Hands : \A p : Idle # At(at, p)
  BY DEF Idle, At, Hands
<1> QED BY <1>1, <1>2, OneNotifier

LEMMA WorkerHas ==
  ASSUME OneThreadEach, TypeInv, NEW w \in WorkerThreads,
         worker[w].at \in Carrying
  PROVE  /\ worker[w].object \in Objects
         /\ worker[w] = At(worker[w].at, worker[w].object)
         /\ \A at, p : Works(at, p) <=> at = worker[w].at /\ p = worker[w].object
<1>1. worker[w] \in Running
  BY InHand
<1>2. worker[w] = At(worker[w].at, worker[w].object)
  BY <1>1 DEF Running, At
<1> QED BY <1>1, <1>2, OneWorker, AtInjective, InHand

LEMMA WorkerFree ==
  ASSUME OneThreadEach, TypeInv, NEW w \in WorkerThreads,
         worker[w].at \notin Carrying
  PROVE  \A at \in Carrying : \A p : ~Works(at, p)
<1>1. \A at, p : At(at, p).at = at
  BY DEF At
<1> QED BY <1>1, OneWorker

LEMMA WorkerTakes ==
  ASSUME OneThreadEach, TypeInv, NEW w \in WorkerThreads, NEW at, NEW o,
         worker' = [worker EXCEPT ![w] = At(at, o)]
  PROVE  \A bt, p : Works(bt, p)' <=> bt = at /\ p = o
<1>1. worker'[w] = At(at, o)
  BY DEF TypeInv
<1> QED BY <1>1, OneWorker, AtInjective

LEMMA WorkerMoves ==
  ASSUME OneThreadEach, TypeInv, NEW w \in WorkerThreads,
         worker[w].at \in Carrying, NEW at,
         worker' = [worker EXCEPT ![w].at = at]
  PROVE  \A bt, p : Works(bt, p)' <=> bt = at /\ p = worker[w].object
<1>1. worker[w] = At(worker[w].at, worker[w].object)
  BY WorkerHas
<1>2. [worker[w] EXCEPT !.at = at] = At(at, worker[w].object)
  BY <1>1 DEF At
<1>3. worker'[w] = At(at, worker[w].object)
  BY <1>2 DEF TypeInv
<1> QED BY <1>3, OneWorker, AtInjective

LEMMA WorkerGives ==
  ASSUME OneThreadEach, TypeInv, NEW w \in WorkerThreads,
         NEW h \in {Idle, At("Fetch", NoObject), At("Return", NoObject)},
         worker' = [worker EXCEPT ![w] = h]
  PROVE  \A at \in Carrying : \A p : ~Works(at, p)'
<1>1. worker'[w] = h
  BY DEF TypeInv
<1>2. \A at \in Carrying : \A p : h # At(at, p)
  BY DEF Idle, At, Carrying
<1> QED BY <1>1, <1>2, OneWorker

-----------------------------------------------------------------------------
(***************************************************************************)
(* What steps of a kind preserve.                                          *)
(***************************************************************************)
Present(o) == Entering(o) \/ Listed(o) \/ Leaving(o)

LEMMA CountIsNat == \A o : Count(o) \in Nat /\ Count(o)' \in Nat
BY DEF Count, One

\* A holder is counted.
LEMMA HolderCounts ==
  \A o : /\ Present(o) \/ Unstarted(o) \/ InWork(o) \/ Notified("Remove", o)
              => Count(o) > 0
         /\ Present(o)' => Count(o)' > 0
BY DEF Count, One, Present, Unstarted, Leaving, InWork

\* References are dropped with their holders; what nobody holds any more is
\* destroyed.
LEMMA Released ==
  ASSUME DeviceInv,
         NEW newState \in [Objects -> States], NEW newRefs \in [Objects -> Int],
         NEW newPorts, NEW newFs, NEW newOpened,
         SetObjects(newState, newRefs, newPorts, newFs, newOpened),
         \A o \in Objects :
           /\ newState[o] = state[o] \/ (newState[o] = "Stopped" /\ state[o] # "Free")
           /\ newRefs[o] = Count(o)'
           /\ Owns(o)' => Owns(o)
           /\ Unstarted(o)' => Unstarted(o)
           /\ Count(o)' > 0 => Count(o) > 0
           /\ Present(o)' => Present(o) /\ newState[o] = state[o]
           /\ Present(o) /\ ~Present(o)' =>
                newState[o] = "Stopped" \/ (newRefs[o] = 0 /\ ~Owns(o)')
  PROVE  /\ RefsInv' /\ OwnInv' /\ LiveInv'
         /\ state' \in [Objects -> States]
         /\ link' \in [Objects -> Links \union {NoLink}]
         /\ refs' \in [Objects -> Int]
         /\ \A o \in Objects : Live(o)' => Live(o) /\ link'[o] = link[o]
         /\ \A o \in Objects : Live(o)' => link'[o] \in Links
<1>1. /\ refs' = newRefs
      /\ state' \in [Objects -> States]
      /\ link' \in [Objects -> Links \union {NoLink}]
      /\ \A o \in Objects :
           /\ refs'[o] = 0 /\ ~Owns(o)' => state'[o] = "Free"
           /\ ~(refs'[o] = 0 /\ ~Owns(o)') =>
                state'[o] = newState[o] /\ link'[o] = link[o]
  BY ObjectsSet DEF DeviceInv
<1>2. RefsInv'
  BY <1>1 DEF RefsInv
<1>3. \A o \in Objects : Count(o)' \in Nat /\ (Present(o)' => Count(o)' > 0)
  BY CountIsNat, HolderCounts
<1>4. ASSUME NEW o \in Objects
      PROVE  /\ state'[o] = "Free" <=> refs'[o] = 0 /\ ~Owns(o)'
             /\ Unstarted(o)' => ~Owns(o)'
  <2>1. Unstarted(o)' => ~Owns(o)'
    BY DEF DeviceInv, OwnInv
  <2>2. ASSUME state'[o] = "Free", ~(refs'[o] = 0 /\ ~Owns(o)') PROVE FALSE
    <3>1. newState[o] = "Free"
      BY <1>1, <2>2
    <3>2. refs[o] = 0 /\ ~Owns(o)
      BY <3>1 DEF DeviceInv, OwnInv
    <3>3. Count(o)' = 0
      BY <1>3, <3>2, CountIsNat DEF DeviceInv, RefsInv
    <3> QED BY <1>1, <2>2, <3>2, <3>3
  <2> QED BY <1>1, <2>1, <2>2
<1>5. OwnInv'
  BY <1>4 DEF OwnInv
<1>6. ASSUME NEW o \in Objects
      PROVE  /\ Live(o)' <=> Present(o)'
             /\ Live(o)' => Live(o) /\ link'[o] = link[o] /\ link'[o] \in Links
  <2>1. Live(o) <=> Present(o)
    BY DEF DeviceInv, LiveInv, Present
  <2>2. CASE Present(o)'
    <3>1. refs'[o] # 0
      BY <1>1, <1>3, <2>2
    <3>2. state'[o] = state[o] /\ link'[o] = link[o]
      BY <1>1, <2>2, <3>1
    <3> QED BY <2>1, <2>2, <3>2 DEF Live, DeviceInv, ObjectTypes
  <2>3. CASE ~Present(o)'
    <3>1. CASE Present(o)
      <4>1. state'[o] \in {"Free", "Stopped"}
        BY <1>1, <2>3, <3>1
      <4> QED BY <2>3, <4>1 DEF Live
    <3>2. CASE ~Present(o)
      <4>1. state'[o] \in {"Free", "Stopped", state[o]}
        BY <1>1
      <4> QED BY <2>1, <2>3, <3>2, <4>1 DEF Live
    <3> QED BY <3>1, <3>2
  <2> QED BY <2>2, <2>3
<1>7. LiveInv'
  BY <1>6 DEF LiveInv, Present
<1> QED BY <1>1, <1>2, <1>5, <1>6, <1>7

\* The order of two devices of a link is kept when no device comes and no link
\* changes.
LEMMA LinksKept ==
  ASSUME LinkInv,
         \A o \in Objects : Live(o)' => Live(o) /\ link'[o] = link[o],
         \A a, b \in Objects : Live(a)' /\ Live(b)' /\ Before(a, b) => Before(a, b)'
  PROVE  LinkInv'
BY DEF LinkInv

\* So are the filters, when they are left alone and their devices stay.
LEMMA FiltersKept ==
  ASSUME FilterInv, UNCHANGED <<fs, ports>>,
         \A o \in Objects :
           /\ ports[o] # NoPorts =>
                Live(o)' /\ ~Unstarted(o)' /\ link'[o] = link[o]
           /\ Works("Start", o)' => ports[o] = NoPorts
           /\ Works("StartMic", o)' => ports[o]["Mic"] = NoPorts["Mic"]
  PROVE  FilterInv'
<1>1. ASSUME NEW o \in Objects, NEW pair \in Pairs
      PROVE  /\ ports[o][pair].topology \in
                  {NoPort, Port(o, FilterName(o, pair)', "Topology")}
             /\ ports[o][pair].wave \in
                  {NoPort, Port(o, FilterName(o, pair)', "Wave")}
  <2>1. CASE ports[o] = NoPorts
    BY <2>1 DEF NoPorts
  <2>2. CASE ports[o] # NoPorts
    <3>1. FilterName(o, pair)' = FilterName(o, pair)
      BY <2>2 DEF FilterName
    <3> QED BY <3>1 DEF FilterInv
  <2> QED BY <2>1, <2>2
<1> QED BY <1>1 DEF FilterInv

-----------------------------------------------------------------------------
(***************************************************************************)
(* Notifications.                                                          *)
(***************************************************************************)

\* A link that a device of the list has is found.
LEMMA ListedIsFound ==
  ASSUME TypeInv, NEW o, Listed(o)
  PROVE  Found(link[o]) # {}
<1> DEFINE l == link[o]
           T == {i \in DOMAIN devices : link[devices[i]] = l}
<1>1. T \subseteq Nat /\ T # {} /\ DOMAIN devices = 1 .. Len(devices) /\ Len(devices) \in Nat
  BY LenProperties DEF TypeInv, Listed, Occurs
<1>2. PICK i \in T : \A j \in T : ~(<<j, i>> \in OpToRel(<, Nat))
  BY <1>1, NatLessThanWellFounded, WFMin
<1>3. \A j \in T : ~(j < i)
  BY <1>1, <1>2 DEF OpToRel
<1>4. i \in Found(l)
  BY <1>1, <1>3 DEF Found
<1> QED BY <1>4

-----------------------------------------------------------------------------
(***************************************************************************)
(* Steps that leave every object where it is.                              *)
(***************************************************************************)
LEMMA AllKept ==
  ASSUME DeviceInv, UNCHANGED <<devices, tasks, notifier, objectVars, fs>>,
         \A at \in Carrying : \A o : Works(at, o)' <=> Works(at, o),
         \A o \in Objects : Owns(o)' <=> Owns(o),
         ~enabled' => ~enabled
  PROVE  DeviceInv'
<1>1. /\ \A o : Listed(o)' <=> Listed(o)
      /\ \A at, o : Notified(at, o)' <=> Notified(at, o)
      /\ \A a, o : Waits(a, o)' <=> Waits(a, o)
      /\ \A s, t : Precedes(tasks, s, t)' <=> Precedes(tasks, s, t)
  BY SameDevices, SameNotifier, SameTasks
<1>2. \A o : /\ Entering(o)' <=> Entering(o)
             /\ Starting(o)' <=> Starting(o)
             /\ InWork(o)' <=> InWork(o)
             /\ Unstarted(o)' <=> Unstarted(o)
             /\ Leaving(o)' <=> Leaving(o)
  BY <1>1 DEF Entering, Starting, InWork, Unstarted, Leaving, Carrying
<1>3. UNCHANGED <<state, link, refs, ports, fs>>
  BY DEF objectVars
<1>4. \A o : Live(o)' <=> Live(o)
  BY <1>3 DEF Live
<1>5. ObjectTypes'
  BY <1>3, <1>4 DEF DeviceInv, ObjectTypes
<1>6. PlaceInv'
  <2>1. IsInjective(devices)' /\ IsInjective(tasks)'
    BY SameDevices, SameTasks DEF DeviceInv, PlaceInv
  <2> QED BY <1>1, <1>2, <2>1 DEF DeviceInv, PlaceInv, Carrying
<1>7. LiveInv'
  BY <1>1, <1>2, <1>4 DEF DeviceInv, LiveInv
<1>8. RefsInv'
  BY <1>1, <1>2, <1>3 DEF DeviceInv, RefsInv, Count, One, Carrying
<1>9. OwnInv'
  BY <1>2, <1>3 DEF DeviceInv, OwnInv
<1>10. LinkInv'
  BY <1>1, <1>2, <1>3, <1>4 DEF DeviceInv, LinkInv, Before, Carrying
<1>11. FilterInv'
  <2>1. \A o, pair : FilterName(o, pair)' = FilterName(o, pair)
    BY <1>3 DEF FilterName
  <2> QED BY <1>2, <1>3, <1>4, <2>1 DEF DeviceInv, FilterInv, Carrying
<1>12. ListInv'
  BY DEF DeviceInv, ListInv
<1> QED BY <1>5, <1>6, <1>7, <1>8, <1>9, <1>10, <1>11, <1>12 DEF DeviceInv

LEMMA DeviceStutter ==
  ASSUME DeviceInv, UNCHANGED vars
  PROVE  DeviceInv'
<1>1. /\ UNCHANGED <<devices, tasks, notifier, worker, objectVars, fs, opened, ports>>
      /\ enabled' = enabled
  BY DEF vars, adapterVars, filterVars, objectVars
<1> QED BY <1>1, AllKept, SameWorker, OwnsSame

LEMMA DeviceStart ==
  ASSUME DeviceInv, StartDevice \/ CleanupUnregister \/ CleanupFlush
  PROVE  DeviceInv'
<1>1. /\ UNCHANGED <<devices, tasks, notifier, worker, objectVars, fs, opened, ports>>
      /\ enabled' = enabled \/ enabled' = TRUE
  BY DEF StartDevice, CleanupUnregister, CleanupFlush, filterVars, objectVars
<1> QED BY <1>1, AllKept, SameWorker, OwnsSame

\* A file is opened on a port that exists.
LEMMA DeviceOpen ==
  ASSUME DeviceInv, NEW p \in fs.registered, OpenFile(p)
  PROVE  DeviceInv'
<1>1. /\ UNCHANGED <<devices, tasks, notifier, worker, objectVars, fs, ports>>
      /\ enabled' = enabled /\ opened' = opened \union {p}
  BY DEF OpenFile, adapterVars, objectVars
<1>2. \A q : q \in Alive(fs', opened', ports') <=> q \in Alive(fs, opened, ports)
  BY <1>1, AliveIs
<1>3. \A o : Owns(o)' <=> Owns(o)
  BY <1>2, OwnsIs
<1> QED BY <1>1, <1>3, AllKept, SameWorker

\* The callback begins, finds the queue empty, or returns.
LEMMA DeviceWorkerIdle ==
  ASSUME OneThreadEach, AdapterInv, DeviceInv, NEW w \in WorkerThreads,
         WorkerBegin(w) \/ WorkerReturn(w) \/ (WorkerFetch(w) /\ tasks = <<>>)
  PROVE  DeviceInv'
<1>1. /\ UNCHANGED <<devices, tasks, notifier, objectVars, fs, opened, ports>>
      /\ enabled' = enabled
  BY DEF WorkerBegin, WorkerReturn, WorkerFetch, adapterVars, objectVars, filterVars
<1>2. worker[w].at \notin Carrying
  BY DEF WorkerBegin, WorkerReturn, WorkerFetch, Carrying, Idle
<1>3. PICK h \in {Idle, At("Fetch", NoObject), At("Return", NoObject)} :
        worker' = [worker EXCEPT ![w] = h]
  BY DEF WorkerBegin, WorkerReturn, WorkerFetch
<1>4. /\ \A at \in Carrying : \A o : ~Works(at, o)
      /\ \A at \in Carrying : \A o : ~Works(at, o)'
  BY <1>2, <1>3, WorkerFree, WorkerGives DEF AdapterInv
<1> QED BY <1>1, <1>4, AllKept, OwnsSame

\* Memory that is free has no holder, no port and no device.
LEMMA FreeIsNowhere ==
  ASSUME DeviceInv, NEW o \in Objects, state[o] = "Free"
  PROVE  /\ ~Listed(o) /\ ~Waits("Start", o) /\ ~Waits("Stop", o)
         /\ ~Entering(o) /\ ~Notified("Remove", o) /\ ~InWork(o)
         /\ refs[o] = 0 /\ ~Owns(o) /\ ~Live(o) /\ ports[o] = NoPorts
<1>1. refs[o] = 0 /\ ~Owns(o) /\ Count(o) = 0
  BY DEF DeviceInv, OwnInv, RefsInv
<1>2. /\ ~Listed(o) /\ ~Waits("Start", o) /\ ~Waits("Stop", o)
      /\ ~Entering(o) /\ ~Notified("Remove", o) /\ ~InWork(o)
  BY <1>1 DEF Count, One
<1>3. ~Live(o)
  BY DEF Live
<1> QED BY <1>1, <1>2, <1>3 DEF DeviceInv, FilterInv

\* A device that is live, not listed and not about to be, is going.
LEMMA LiveIsLeaving ==
  ASSUME TypeInv, DeviceInv, NEW l, Found(l) = {}, NEW o \in Objects,
         Live(o), link[o] = l, ~Entering(o)
  PROVE  Leaving(o)
<1>1. ~Listed(o)
  BY ListedIsFound
<1> QED BY <1>1 DEF DeviceInv, LiveInv

LEMMA DeviceArrival ==
  ASSUME OneThreadEach, AdapterInv, DeviceInv,
         NEW n \in Notifiers, NEW l \in Links, Arrival(n, l)
  PROVE  DeviceInv'
<1>1. PICK o \in Objects :
        /\ state[o] = "Free"
        /\ state' = [state EXCEPT ![o] = "Running"]
        /\ link' = [link EXCEPT ![o] = l]
        /\ refs' = [refs EXCEPT ![o] = 1]
        /\ notifier' = [notifier EXCEPT ![n] = At("Insert", o)]
  BY DEF Arrival
<1>2. /\ notifier[n] = Idle /\ Found(l) = {}
      /\ UNCHANGED <<enabled, devices, tasks, worker, ports, fs, opened>>
  BY DEF Arrival, adapterVars, filterVars
<1>3. \A p : /\ ~Entering(p) /\ ~Notified("Remove", p)
             /\ Entering(p)' <=> p = o
             /\ ~Notified("Remove", p)'
  <2>1. \A at \in Hands : \A p : ~Notified(at, p)
    BY <1>2, NotifierIdle
  <2>2. \A at, p : Notified(at, p)' <=> at = "Insert" /\ p = o
    BY <1>1, NotifierTakes DEF AdapterInv
  <2> QED BY <2>1, <2>2 DEF Entering, Hands
<1>4. /\ \A p : Listed(p)' <=> Listed(p)
      /\ \A a, p : Waits(a, p)' <=> Waits(a, p)
      /\ \A s, t : Precedes(tasks, s, t)' <=> Precedes(tasks, s, t)
      /\ \A at, p : Works(at, p)' <=> Works(at, p)
      /\ \A p : Owns(p)' <=> Owns(p)
  BY <1>2, SameDevices, SameTasks, SameWorker, OwnsSame
<1>5. \A p : /\ Starting(p)' <=> Starting(p)
             /\ InWork(p)' <=> InWork(p)
             /\ Leaving(p)' <=> Leaving(p)
             /\ Unstarted(p)' <=> Unstarted(p) \/ p = o
  BY <1>3, <1>4 DEF Starting, InWork, Leaving, Unstarted
<1>6. /\ ~Listed(o) /\ ~Waits("Start", o) /\ ~Waits("Stop", o)
      /\ ~InWork(o) /\ ~Starting(o) /\ ~Leaving(o)
      /\ refs[o] = 0 /\ ~Owns(o) /\ ~Live(o) /\ ports[o] = NoPorts
  BY <1>1, FreeIsNowhere DEF InWork, Leaving
<1>7. \A p \in Objects : /\ Live(p)' <=> Live(p) \/ p = o
                         /\ p # o => link'[p] = link[p] /\ state'[p] = state[p]
                                     /\ refs'[p] = refs[p]
                         /\ link'[o] = l /\ refs'[o] = 1 /\ state'[o] = "Running"
  BY <1>1 DEF Live, DeviceInv, ObjectTypes
<1>8. ObjectTypes'
  BY <1>1, <1>2, <1>7 DEF DeviceInv, ObjectTypes
<1>9. PlaceInv'
  <2>1. IsInjective(devices)' /\ IsInjective(tasks)'
    BY <1>2, SameDevices, SameTasks DEF DeviceInv, PlaceInv
  <2> QED BY <1>3, <1>4, <1>5, <1>6, <2>1 DEF DeviceInv, PlaceInv
<1>10. LiveInv'
  BY <1>3, <1>4, <1>5, <1>7 DEF DeviceInv, LiveInv
<1>11. RefsInv'
  BY <1>3, <1>4, <1>5, <1>6, <1>7 DEF DeviceInv, RefsInv, Count, One
<1>12. OwnInv'
  BY <1>4, <1>5, <1>6, <1>7 DEF DeviceInv, OwnInv
<1>13. LinkInv'
  <2> SUFFICES ASSUME NEW a \in Objects, NEW b \in Objects, a # b,
                      Live(a)', Live(b)', link'[a] = link'[b], a # o
               PROVE  Before(a, b)' \/ Before(b, a)'
    BY DEF LinkInv
  <2>1. CASE b = o
    <3>1. Leaving(a)
      BY <1>2, <1>3, <1>7, <2>1, LiveIsLeaving DEF AdapterInv
    <3> QED BY <1>3, <1>4, <1>5, <2>1, <3>1 DEF Before, Leaving
  <2>2. CASE b # o
    <3>1. Before(a, b) \/ Before(b, a)
      BY <1>7, <2>2 DEF DeviceInv, LinkInv
    <3> QED BY <1>3, <1>4, <1>5, <3>1 DEF Before
  <2> QED BY <2>1, <2>2
<1>14. FilterInv'
  <2>1. FilterInv /\ \A p \in Objects :
          /\ ports[p] # NoPorts => Live(p)' /\ ~Unstarted(p)' /\ link'[p] = link[p]
          /\ Works("Start", p)' => ports[p] = NoPorts
          /\ Works("StartMic", p)' => ports[p]["Mic"] = NoPorts["Mic"]
    BY <1>4, <1>5, <1>6, <1>7 DEF DeviceInv, FilterInv
  <2> QED BY <1>2, <2>1, FiltersKept
<1>15. ListInv'
  BY <1>2 DEF DeviceInv, ListInv
<1> QED BY <1>8, <1>9, <1>10, <1>11, <1>12, <1>13, <1>14, <1>15 DEF DeviceInv

LEMMA TaskInjective ==
  \A a, b, o, p : Task(a, o) = Task(b, p) <=> a = b /\ o = p
BY DEF Task

\* A device that is there has references, and is not destroyed.
LEMMA PresentIsLive ==
  ASSUME DeviceInv, NEW o \in Objects, Entering(o) \/ Listed(o) \/ Leaving(o)
  PROVE  Live(o) /\ state[o] # "Free" /\ refs[o] \in Nat /\ refs[o] > 0
<1>1. Live(o) /\ state[o] # "Free"
  BY DEF DeviceInv, LiveInv, Live
<1>2. Count(o) \in Nat /\ Count(o) > 0
  BY CountIsNat, HolderCounts DEF Present
<1> QED BY <1>1, <1>2 DEF DeviceInv, RefsInv

LEMMA DeviceArrivalInsert ==
  ASSUME OneThreadEach, AdapterInv, DeviceInv,
         NEW n \in Notifiers, ArrivalInsert(n)
  PROVE  DeviceInv'
<1> DEFINE o == notifier[n].object
<1>1. /\ notifier[n].at = "Insert"
      /\ devices' = Append(devices, o)
      /\ QueueTask("Start", o)
      /\ refs' = [refs EXCEPT ![o] = @ + 1]
      /\ notifier' = [notifier EXCEPT ![n] = Idle]
      /\ UNCHANGED <<phase, enabled, handle, worker, state, link, ports, fs, opened>>
  BY DEF ArrivalInsert, TaskRef, AddRef, filterVars, adapterVars
<1>2. /\ o \in Objects
      /\ \A p : /\ Entering(p) <=> p = o
                /\ ~Notified("Remove", p)
                /\ ~Entering(p)' /\ ~Notified("Remove", p)'
  <2>1. o \in Objects /\ \A at \in Hands : \A p : Notified(at, p) <=> at = "Insert" /\ p = o
    BY <1>1, NotifierHas DEF AdapterInv, Hands
  <2>2. \A at \in Hands : \A p : ~Notified(at, p)'
    BY <1>1, NotifierGives DEF AdapterInv
  <2> QED BY <2>1, <2>2 DEF Entering, Hands
<1> HIDE DEF o
<1>3. ~Listed(o) /\ ~Waits("Start", o) /\ ~Leaving(o) /\ ~InWork(o)
  BY <1>2 DEF DeviceInv, PlaceInv
<1>4. IsInjective(devices)' /\ \A p : Listed(p)' <=> Listed(p) \/ p = o
  <2>1. devices \in Seq(Objects) /\ IsInjective(devices) /\ ~Occurs(devices, o)
    BY <1>3 DEF AdapterInv, TypeInv, DeviceInv, PlaceInv, Listed
  <2>2. /\ IsInjective(devices')
        /\ \A p : Occurs(devices', p) <=> Occurs(devices, p) \/ p = o
    BY <1>1, <1>2, <2>1, AppendEntry
  <2> QED BY <2>2 DEF Listed
<1>5. /\ IsInjective(tasks)'
      /\ \A a, p : Waits(a, p)' <=> Waits(a, p) \/ (a = "Start" /\ p = o)
      /\ \A s, t : Precedes(tasks, s, t)' <=>
                     Precedes(tasks, s, t)
                       \/ (Occurs(tasks, s) /\ t = Task("Start", o))
  BY <1>1, <1>2, <1>3, TaskQueued DEF AdapterInv, DeviceInv, PlaceInv
<1>6. \A p : /\ Waits("Start", p)' <=> Waits("Start", p) \/ p = o
             /\ Waits("Stop", p)' <=> Waits("Stop", p)
  BY <1>5
<1>7. \A p, q :
        /\ Precedes(tasks, Task("Stop", p), Task("Start", q))' <=>
             Precedes(tasks, Task("Stop", p), Task("Start", q))
               \/ (Waits("Stop", p) /\ q = o)
        /\ Precedes(tasks, Task("Start", p), Task("Stop", q))
             => Precedes(tasks, Task("Start", p), Task("Stop", q))'
  BY <1>5, TaskInjective DEF Waits
<1>8. /\ \A at, p : Works(at, p)' <=> Works(at, p)
      /\ \A p : Owns(p)' <=> Owns(p)
  BY <1>1, SameWorker, OwnsSame
<1>9. \A p : /\ Starting(p)' <=> Starting(p)
             /\ InWork(p)' <=> InWork(p)
             /\ Leaving(p)' <=> Leaving(p)
             /\ Unstarted(p)' <=> Unstarted(p)
             /\ Live(p)' <=> Live(p)
  BY <1>1, <1>2, <1>6, <1>8 DEF Starting, InWork, Leaving, Unstarted, Live
<1>10. /\ Live(o) /\ state[o] # "Free" /\ refs[o] \in Nat /\ refs[o] > 0
       /\ refs'[o] = refs[o] + 1
       /\ \A p \in Objects : p # o => refs'[p] = refs[p]
       /\ refs' \in [Objects -> Int]
  <2>1. refs \in [Objects -> Int]
    BY DEF DeviceInv, ObjectTypes
  <2> QED BY <1>1, <1>2, <2>1, PresentIsLive
<1>11. ObjectTypes'
  BY <1>1, <1>9, <1>10 DEF DeviceInv, ObjectTypes
<1>12. PlaceInv'
  BY <1>2, <1>3, <1>4, <1>5, <1>6, <1>7, <1>8, <1>9 DEF DeviceInv, PlaceInv, Leaving
<1>13. LiveInv'
  BY <1>2, <1>4, <1>9 DEF DeviceInv, LiveInv
<1>14. RefsInv'
  BY <1>2, <1>3, <1>4, <1>6, <1>9, <1>10
     DEF DeviceInv, RefsInv, Count, One, Leaving
<1>15. OwnInv'
  BY <1>1, <1>8, <1>9, <1>10 DEF DeviceInv, OwnInv
<1>16. LinkInv'
  BY <1>1, <1>2, <1>7, <1>8, <1>9 DEF DeviceInv, LinkInv, Before
<1>17. FilterInv'
  <2>1. FilterInv /\ \A p \in Objects :
          /\ ports[p] # NoPorts => Live(p)' /\ ~Unstarted(p)' /\ link'[p] = link[p]
          /\ Works("Start", p)' => ports[p] = NoPorts
          /\ Works("StartMic", p)' => ports[p]["Mic"] = NoPorts["Mic"]
    BY <1>1, <1>8, <1>9 DEF DeviceInv, FilterInv
  <2> QED BY <1>1, <2>1, FiltersKept
<1>18. ListInv'
  BY <1>1, HandInOrder DEF AdapterInv, ListInv
<1> QED BY <1>11, <1>12, <1>13, <1>14, <1>15, <1>16, <1>17, <1>18 DEF DeviceInv

LEMMA DeviceRemoval ==
  ASSUME OneThreadEach, AdapterInv, DeviceInv,
         NEW n \in Notifiers, NEW l \in Links, Removal(n, l)
  PROVE  DeviceInv'
<1>1. PICK i \in Found(l) :
        /\ refs' = [refs EXCEPT ![devices[i]] = @ + 1]
        /\ notifier' = [notifier EXCEPT ![n] = At("Remove", devices[i])]
  BY DEF Removal, AddRef
<1> DEFINE o == devices[i]
<1>2. /\ notifier[n] = Idle /\ enabled' = enabled
      /\ UNCHANGED <<devices, tasks, worker, state, link, ports, fs, opened>>
  BY DEF Removal, AddRef, adapterVars, filterVars
<1>3. o \in Objects /\ Listed(o)
  BY ElementOfSeq, LenProperties DEF Found, AdapterInv, TypeInv, Listed, Occurs
<1>4. \A p : /\ ~Entering(p) /\ ~Notified("Remove", p)
             /\ ~Entering(p)'
             /\ Notified("Remove", p)' <=> p = o
  <2>1. \A at \in Hands : \A p : ~Notified(at, p)
    BY <1>2, NotifierIdle
  <2>2. \A at, p : Notified(at, p)' <=> at = "Remove" /\ p = o
    BY <1>1, NotifierTakes DEF AdapterInv
  <2> QED BY <2>1, <2>2 DEF Entering, Hands
<1> HIDE DEF o
<1>5. /\ \A p : Listed(p)' <=> Listed(p)
      /\ \A a, p : Waits(a, p)' <=> Waits(a, p)
      /\ \A s, t : Precedes(tasks, s, t)' <=> Precedes(tasks, s, t)
      /\ \A at, p : Works(at, p)' <=> Works(at, p)
      /\ \A p : Owns(p)' <=> Owns(p)
  BY <1>2, SameDevices, SameTasks, SameWorker, OwnsSame
<1>6. \A p : /\ Starting(p)' <=> Starting(p)
             /\ InWork(p)' <=> InWork(p)
             /\ Leaving(p)' <=> Leaving(p)
             /\ Unstarted(p)' <=> Unstarted(p)
             /\ Live(p)' <=> Live(p)
  BY <1>2, <1>4, <1>5 DEF Starting, InWork, Leaving, Unstarted, Live
<1>7. /\ Live(o) /\ state[o] # "Free" /\ refs[o] \in Nat /\ refs[o] > 0
      /\ refs'[o] = refs[o] + 1
      /\ \A p \in Objects : p # o => refs'[p] = refs[p]
      /\ refs' \in [Objects -> Int]
  <2>1. refs \in [Objects -> Int]
    BY DEF DeviceInv, ObjectTypes
  <2> QED BY <1>1, <1>3, <2>1, PresentIsLive DEF o
<1>8. ObjectTypes'
  BY <1>2, <1>6, <1>7 DEF DeviceInv, ObjectTypes
<1>9. PlaceInv'
  <2>1. IsInjective(devices)' /\ IsInjective(tasks)'
    BY <1>2, SameDevices, SameTasks DEF DeviceInv, PlaceInv
  <2> QED BY <1>3, <1>4, <1>5, <1>6, <2>1 DEF DeviceInv, PlaceInv
<1>10. LiveInv'
  BY <1>4, <1>5, <1>6 DEF DeviceInv, LiveInv
<1>11. RefsInv'
  BY <1>4, <1>5, <1>6, <1>7 DEF DeviceInv, RefsInv, Count, One
<1>12. OwnInv'
  BY <1>2, <1>5, <1>6, <1>7 DEF DeviceInv, OwnInv
<1>13. LinkInv'
  BY <1>2, <1>4, <1>5, <1>6 DEF DeviceInv, LinkInv, Before
<1>14. FilterInv'
  <2>1. FilterInv /\ \A p \in Objects :
          /\ ports[p] # NoPorts => Live(p)' /\ ~Unstarted(p)' /\ link'[p] = link[p]
          /\ Works("Start", p)' => ports[p] = NoPorts
          /\ Works("StartMic", p)' => ports[p]["Mic"] = NoPorts["Mic"]
    BY <1>2, <1>5, <1>6 DEF DeviceInv, FilterInv
  <2> QED BY <1>2, <2>1, FiltersKept
<1>15. ListInv'
  BY <1>2 DEF DeviceInv, ListInv
<1> QED BY <1>8, <1>9, <1>10, <1>11, <1>12, <1>13, <1>14, <1>15 DEF DeviceInv

\* A reference is dropped and nothing else.
LEMMA ReleaseIs ==
  ASSUME DeviceInv, NEW o \in Objects, Release(o)
  PROVE  /\ [refs EXCEPT ![o] = @ - 1] \in [Objects -> Int]
         /\ [refs EXCEPT ![o] = @ - 1][o] = refs[o] - 1
         /\ \A p \in Objects : p # o => [refs EXCEPT ![o] = @ - 1][p] = refs[p]
         /\ state \in [Objects -> States]
         /\ SetObjects(state, [refs EXCEPT ![o] = @ - 1], ports, fs, opened)
         /\ UNCHANGED <<ports, fs, opened>>
         /\ \A p : Owns(p)' <=> Owns(p)
<1>1. refs \in [Objects -> Int] /\ state \in [Objects -> States]
  BY DEF DeviceInv, ObjectTypes, States
<1>2. /\ SetObjects(state, [refs EXCEPT ![o] = @ - 1], ports, fs, opened)
      /\ UNCHANGED <<ports, fs, opened>>
  BY DEF Release, SetObjects
<1> QED BY <1>1, <1>2, OwnsSame

LEMMA DeviceRemovalQueue ==
  ASSUME OneThreadEach, AdapterInv, DeviceInv,
         NEW n \in Notifiers, RemovalQueue(n)
  PROVE  DeviceInv'
<1>0. PICK o \in Objects : o = notifier[n].object
  BY InHand DEF AdapterInv, RemovalQueue
<1> DEFINE less == [refs EXCEPT ![o] = @ - 1]
<1>1. /\ notifier[n].at = "Remove"
      /\ Unlink(o) /\ QueueTask("Stop", o) /\ Release(o)
      /\ notifier' = [notifier EXCEPT ![n] = Idle]
      /\ UNCHANGED <<phase, enabled, handle, worker>>
  BY <1>0 DEF RemovalQueue, adapterVars
<1>2. \A p : /\ ~Entering(p)
             /\ Notified("Remove", p) <=> p = o
             /\ ~Entering(p)' /\ ~Notified("Remove", p)'
  <2>1. \A at \in Hands : \A p : Notified(at, p) <=> at = "Remove" /\ p = o
    BY <1>0, <1>1, NotifierHas DEF AdapterInv, Hands
  <2>2. \A at \in Hands : \A p : ~Notified(at, p)'
    BY <1>1, NotifierGives DEF AdapterInv
  <2> QED BY <2>1, <2>2 DEF Entering, Hands
<1>3. /\ less \in [Objects -> Int] /\ less[o] = refs[o] - 1
      /\ \A p \in Objects : p # o => less[p] = refs[p]
      /\ state \in [Objects -> States]
      /\ SetObjects(state, less, ports, fs, opened)
      /\ UNCHANGED <<ports, fs, opened>>
      /\ \A p : Owns(p)' <=> Owns(p)
  BY <1>1, <1>2, ReleaseIs
<1> HIDE DEF less
<1>4. Listed(o) /\ ~Leaving(o)
  BY <1>2 DEF DeviceInv, PlaceInv
<1>5. IsInjective(devices)' /\ \A p : Listed(p)' <=> Listed(p) /\ p # o
  <2>1. devices \in Seq(Objects) /\ IsInjective(devices)
    BY DEF AdapterInv, TypeInv, DeviceInv, PlaceInv
  <2>2. PICK i \in DOMAIN devices : devices[i] = o /\ devices' = RemoveAt(devices, i)
    BY <1>1, <1>4 DEF Unlink, Listed, Occurs
  <2>3. /\ IsInjective(RemoveAt(devices, i))
        /\ \A p : Occurs(RemoveAt(devices, i), p) <=> Occurs(devices, p) /\ p # devices[i]
    BY <2>1, RemoveEntry
  <2>4. /\ IsInjective(devices')
        /\ \A p : Occurs(devices', p) <=> Occurs(devices, p) /\ p # o
    BY <2>2, <2>3
  <2> QED BY <2>4 DEF Listed
<1>6. /\ IsInjective(tasks)'
      /\ \A a, p : Waits(a, p)' <=> Waits(a, p) \/ (a = "Stop" /\ p = o)
      /\ \A s, t : Precedes(tasks, s, t)' <=>
                     Precedes(tasks, s, t)
                       \/ (Occurs(tasks, s) /\ t = Task("Stop", o))
  BY <1>1, <1>2, <1>4, TaskQueued DEF AdapterInv, DeviceInv, PlaceInv, Leaving
<1>7. \A p : /\ Waits("Start", p)' <=> Waits("Start", p)
             /\ Waits("Stop", p)' <=> Waits("Stop", p) \/ p = o
  BY <1>6
<1>8. \A p, q :
        /\ Precedes(tasks, Task("Stop", p), Task("Start", q))' <=>
             Precedes(tasks, Task("Stop", p), Task("Start", q))
        /\ Precedes(tasks, Task("Start", p), Task("Stop", q))' <=>
             Precedes(tasks, Task("Start", p), Task("Stop", q))
               \/ (Waits("Start", p) /\ q = o)
  BY <1>6, TaskInjective DEF Waits
<1>9. \A at, p : Works(at, p)' <=> Works(at, p)
  BY <1>1, SameWorker
<1>10. \A p : /\ Starting(p)' <=> Starting(p)
              /\ InWork(p)' <=> InWork(p)
              /\ Leaving(p)' <=> Leaving(p) \/ p = o
              /\ Unstarted(p)' <=> Unstarted(p)
              /\ Present(p)' <=> Present(p)
  BY <1>2, <1>4, <1>5, <1>7, <1>9
     DEF Starting, InWork, Leaving, Unstarted, Present
<1>11. \A p \in Objects : less[p] = Count(p)' /\ (Count(p)' > 0 => Count(p) > 0)
  <2>1. less[o] = Count(o)' /\ Count(o) > 0
    BY <1>2, <1>3, <1>4, <1>5, <1>7, <1>10
       DEF DeviceInv, RefsInv, Count, One, Leaving
  <2>2. ASSUME NEW p \in Objects, p # o
        PROVE  less[p] = Count(p)' /\ Count(p)' = Count(p)
    BY <1>2, <1>3, <1>5, <1>7, <1>10, <2>2 DEF DeviceInv, RefsInv, Count, One
  <2> QED BY <2>1, <2>2
<1>12. /\ RefsInv' /\ OwnInv' /\ LiveInv'
       /\ state' \in [Objects -> States]
       /\ link' \in [Objects -> Links \union {NoLink}]
       /\ refs' \in [Objects -> Int]
       /\ \A p \in Objects : Live(p)' => Live(p) /\ link'[p] = link[p]
       /\ \A p \in Objects : Live(p)' => link'[p] \in Links
  BY <1>3, <1>10, <1>11, Released
<1>13. ObjectTypes'
  BY <1>3, <1>12 DEF DeviceInv, ObjectTypes, States
<1>14. PlaceInv'
  BY <1>2, <1>4, <1>5, <1>6, <1>7, <1>8, <1>9, <1>10 DEF DeviceInv, PlaceInv, Leaving
<1>15. LinkInv'
  BY <1>2, <1>7, <1>8, <1>9, <1>10, <1>12, LinksKept DEF DeviceInv, Before
<1>16. FilterInv'
  <2>1. \A p \in Objects : Live(p) => Live(p)'
    BY <1>10, <1>12 DEF DeviceInv, LiveInv, Present
  <2>2. FilterInv /\ \A p \in Objects :
          /\ ports[p] # NoPorts => Live(p)' /\ ~Unstarted(p)' /\ link'[p] = link[p]
          /\ Works("Start", p)' => ports[p] = NoPorts
          /\ Works("StartMic", p)' => ports[p]["Mic"] = NoPorts["Mic"]
    BY <1>9, <1>10, <1>12, <2>1 DEF DeviceInv, FilterInv
  <2> QED BY <1>3, <2>2, FiltersKept
<1>17. ListInv'
  BY <1>1, HandInOrder DEF AdapterInv, ListInv
<1> QED BY <1>12, <1>13, <1>14, <1>15, <1>16, <1>17 DEF DeviceInv

LEMMA DeviceNoTask ==
  ASSUME OneThreadEach, AdapterInv, DeviceInv, NEW n \in Notifiers, NoTask(n)
  PROVE  DeviceInv'
<1>0. PICK o \in Objects : o = notifier[n].object
  BY InHand DEF AdapterInv, NoTask
<1> DEFINE less == [refs EXCEPT ![o] = @ - 1]
<1>1. /\ notifier[n].at \in Hands /\ Release(o)
      /\ notifier' = [notifier EXCEPT ![n] = Idle]
      /\ UNCHANGED <<enabled, devices, tasks, worker>>
  BY <1>0 DEF NoTask, adapterVars, Hands
<1>2. /\ Entering(o) \/ Notified("Remove", o)
      /\ ~(Entering(o) /\ Notified("Remove", o))
      /\ \A p : /\ p # o => ~Entering(p) /\ ~Notified("Remove", p)
                /\ ~Entering(p)' /\ ~Notified("Remove", p)'
  <2>1. \A at \in Hands : \A p : Notified(at, p) <=> at = notifier[n].at /\ p = o
    BY <1>0, <1>1, NotifierHas DEF AdapterInv
  <2>2. \A at \in Hands : \A p : ~Notified(at, p)'
    BY <1>1, NotifierGives DEF AdapterInv
  <2> QED BY <1>1, <2>1, <2>2 DEF Entering, Hands
<1>3. /\ less \in [Objects -> Int] /\ less[o] = refs[o] - 1
      /\ \A p \in Objects : p # o => less[p] = refs[p]
      /\ state \in [Objects -> States]
      /\ SetObjects(state, less, ports, fs, opened)
      /\ UNCHANGED <<ports, fs, opened>>
      /\ \A p : Owns(p)' <=> Owns(p)
  BY <1>1, <1>2, ReleaseIs
<1> HIDE DEF less
<1>4. /\ \A p : Listed(p)' <=> Listed(p)
      /\ \A a, p : Waits(a, p)' <=> Waits(a, p)
      /\ \A s, t : Precedes(tasks, s, t)' <=> Precedes(tasks, s, t)
      /\ \A at, p : Works(at, p)' <=> Works(at, p)
  BY <1>1, SameDevices, SameTasks, SameWorker
<1>5. \A p : /\ Starting(p)' <=> Starting(p)
             /\ InWork(p)' <=> InWork(p)
             /\ Leaving(p)' <=> Leaving(p)
             /\ Unstarted(p)' => Unstarted(p)
             /\ ~Entering(p) => (Present(p)' <=> Present(p))
                                /\ (Unstarted(p)' <=> Unstarted(p))
             /\ Present(p)' => Present(p)
  BY <1>2, <1>4 DEF Starting, InWork, Leaving, Unstarted, Present
<1>6. \A p \in Objects : less[p] = Count(p)' /\ (Count(p)' > 0 => Count(p) > 0)
  <2>1. less[o] = Count(o)' /\ Count(o) > 0
    BY <1>2, <1>3, <1>4, <1>5 DEF DeviceInv, RefsInv, Count, One
  <2>2. ASSUME NEW p \in Objects, p # o
        PROVE  less[p] = Count(p)' /\ Count(p)' = Count(p)
    BY <1>2, <1>3, <1>4, <1>5, <2>2 DEF DeviceInv, RefsInv, Count, One
  <2> QED BY <2>1, <2>2
<1>7. ASSUME NEW p \in Objects, Entering(p)
      PROVE  less[p] = 0 /\ ~Owns(p)' /\ ~Present(p)'
  <2>1. p = o /\ ~Listed(p) /\ ~Waits("Start", p) /\ ~Leaving(p) /\ ~InWork(p)
    BY <1>2, <1>7 DEF DeviceInv, PlaceInv
  <2>2. Count(p)' = 0
    BY <1>2, <1>4, <1>5, <2>1 DEF Count, One, Leaving
  <2>3. ~Owns(p)
    BY <1>7 DEF DeviceInv, OwnInv, Unstarted
  <2> QED BY <1>2, <1>3, <1>4, <1>5, <1>6, <2>1, <2>2, <2>3 DEF Present
<1>8. /\ RefsInv' /\ OwnInv' /\ LiveInv'
      /\ state' \in [Objects -> States]
      /\ link' \in [Objects -> Links \union {NoLink}]
      /\ refs' \in [Objects -> Int]
      /\ \A p \in Objects : Live(p)' => Live(p) /\ link'[p] = link[p]
      /\ \A p \in Objects : Live(p)' => link'[p] \in Links
  BY <1>3, <1>5, <1>6, <1>7, Released
<1>9. ObjectTypes'
  BY <1>3, <1>8 DEF DeviceInv, ObjectTypes, States
<1>10. PlaceInv'
  <2>1. IsInjective(devices)' /\ IsInjective(tasks)'
    BY <1>1, SameDevices, SameTasks DEF DeviceInv, PlaceInv
  <2> QED BY <1>2, <1>4, <1>5, <2>1 DEF DeviceInv, PlaceInv
<1>11. LinkInv'
  <2>1. ASSUME NEW a \in Objects, NEW b \in Objects, Live(a)', Live(b)', Before(a, b)
        PROVE  Before(a, b)'
    <3>1. ~Entering(b)
      BY <1>7, <1>8, <2>1 DEF LiveInv, Present
    <3> QED BY <1>4, <1>5, <2>1, <3>1 DEF Before
  <2> QED BY <1>8, <2>1, LinksKept DEF DeviceInv
<1>12. FilterInv'
  <2>1. \A p \in Objects : ports[p] # NoPorts => Live(p)' /\ ~Unstarted(p)'
    BY <1>5, <1>8 DEF DeviceInv, LiveInv, FilterInv, Present, Unstarted
  <2>2. FilterInv /\ \A p \in Objects :
          /\ ports[p] # NoPorts => Live(p)' /\ ~Unstarted(p)' /\ link'[p] = link[p]
          /\ Works("Start", p)' => ports[p] = NoPorts
          /\ Works("StartMic", p)' => ports[p]["Mic"] = NoPorts["Mic"]
    BY <1>4, <1>8, <2>1 DEF DeviceInv, FilterInv
  <2> QED BY <1>3, <2>2, FiltersKept
<1>13. ListInv'
  BY <1>1 DEF DeviceInv, ListInv
<1> QED BY <1>8, <1>9, <1>10, <1>11, <1>12, <1>13 DEF DeviceInv

-----------------------------------------------------------------------------
(***************************************************************************)
(* The work item.                                                          *)
(***************************************************************************)

\* The first task of the queue is taken in hand.
LEMMA DeviceFetch ==
  ASSUME OneThreadEach, AdapterInv, DeviceInv, NEW w \in WorkerThreads,
         WorkerFetch(w), tasks # <<>>
  PROVE  DeviceInv'
<1>1. /\ worker[w].at = "Fetch" /\ tasks' = Tail(tasks)
      /\ worker' = [worker EXCEPT ![w] = At(Head(tasks).action, Head(tasks).object)]
      /\ UNCHANGED <<enabled, devices, notifier, state, link, refs, ports, fs, opened>>
  BY DEF WorkerFetch, adapterVars, objectVars, filterVars
<1>2. /\ IsInjective(tasks)'
      /\ \E action \in {"Start", "Stop"}, o \in Objects :
           /\ Head(tasks) = Task(action, o)
           /\ Waits(action, o)
           /\ \A a, p : Waits(a, p)' <=> Waits(a, p) /\ ~(a = action /\ p = o)
           /\ \A s, t : Precedes(tasks, s, t)' <=>
                          Precedes(tasks, s, t) /\ s # Task(action, o)
           /\ \A s : ~Precedes(tasks, s, Task(action, o))
  BY <1>1, TaskTaken DEF AdapterInv, DeviceInv, PlaceInv
<1>3. PICK action \in {"Start", "Stop"}, o \in Objects :
        /\ Head(tasks) = Task(action, o)
        /\ Waits(action, o)
        /\ \A a, p : Waits(a, p)' <=> Waits(a, p) /\ ~(a = action /\ p = o)
        /\ \A s, t : Precedes(tasks, s, t)' <=>
                       Precedes(tasks, s, t) /\ s # Task(action, o)
        /\ \A s : ~Precedes(tasks, s, Task(action, o))
  BY <1>2
<1>4. /\ \A at \in Carrying : \A p : ~Works(at, p)
      /\ \A at, p : Works(at, p)' <=> at = action /\ p = o
  <2>1. worker' = [worker EXCEPT ![w] = At(action, o)]
    <3>1. \A h : h = Task(action, o) => h.action = action /\ h.object = o
      BY DEF Task
    <3>2. Head(tasks).action = action /\ Head(tasks).object = o
      BY <1>3, <3>1
    <3> QED BY <1>1, <3>2
  <2>2. worker[w].at \notin Carrying
    BY <1>1 DEF Carrying
  <2> QED BY <2>1, <2>2, WorkerFree, WorkerTakes DEF AdapterInv
<1>5. /\ \A p : Listed(p)' <=> Listed(p)
      /\ \A at, p : Notified(at, p)' <=> Notified(at, p)
      /\ \A p : Owns(p)' <=> Owns(p)
      /\ \A p : Entering(p)' <=> Entering(p)
      /\ \A p : Live(p)' <=> Live(p)
      /\ \A p : ~Starting(p) /\ ~InWork(p)
  BY <1>1, <1>4, SameDevices, SameNotifier, OwnsSame
     DEF Entering, Starting, InWork, Carrying, Live
<1>6. \A p, q :
        /\ Precedes(tasks, Task("Stop", p), Task("Start", q)) => Waits("Start", q)
        /\ Precedes(tasks, Task("Stop", p), Task("Start", q))' <=>
             /\ Precedes(tasks, Task("Stop", p), Task("Start", q))
             /\ ~(action = "Stop" /\ p = o)
        /\ Precedes(tasks, Task("Start", p), Task("Stop", q))' <=>
             /\ Precedes(tasks, Task("Start", p), Task("Stop", q))
             /\ ~(action = "Start" /\ p = o)
  <2>1. \A p, q : Precedes(tasks, Task("Stop", p), Task("Start", q)) => Waits("Start", q)
    BY DEF Waits, Precedes, Occurs
  <2>2. \A a, p : Task(a, p) # Task(action, o) <=> ~(action = a /\ p = o)
    BY TaskInjective
  <2> QED BY <1>3, <2>1, <2>2
<1>7. IsInjective(devices)' /\ IsInjective(devices)
  BY <1>1, SameDevices DEF DeviceInv, PlaceInv
<1>8. ObjectTypes'
  BY <1>1, <1>5 DEF DeviceInv, ObjectTypes
<1>9. ListInv'
  BY <1>1 DEF DeviceInv, ListInv
<1>10. CASE action = "Start"
  <2>1. \A p : /\ Waits("Start", p)' <=> Waits("Start", p) /\ p # o
               /\ Waits("Stop", p)' <=> Waits("Stop", p)
               /\ Works("Start", p)' <=> p = o
               /\ ~Works("Stop", p)' /\ ~Works("Stop", p)
               /\ ~Works("StartMic", p)'
    BY <1>3, <1>4, <1>10 DEF Carrying
  <2>2. \A p : /\ Starting(p)' <=> p = o
               /\ InWork(p)' <=> p = o
               /\ Leaving(p)' <=> Leaving(p)
    BY <1>4, <1>10, <2>1 DEF Starting, InWork, Leaving
  <2>3. ~Entering(o) /\ Waits("Start", o) /\ Unstarted(o)
    BY <1>3, <1>10 DEF DeviceInv, PlaceInv, Unstarted
  <2>4. \A p : Unstarted(p)' <=> Unstarted(p) /\ p # o
    BY <1>5, <2>1, <2>3 DEF Unstarted
  <2>5. PlaceInv'
    BY <1>2, <1>5, <1>6, <1>7, <2>1, <2>2, <2>3 DEF DeviceInv, PlaceInv
  <2>6. LiveInv'
    BY <1>5, <2>2 DEF DeviceInv, LiveInv
  <2>7. RefsInv'
    BY <1>1, <1>5, <2>1, <2>2, <2>3 DEF DeviceInv, RefsInv, Count, One
  <2>8. OwnInv'
    BY <1>1, <1>5, <2>4 DEF DeviceInv, OwnInv
  <2>9. LinkInv'
    BY <1>1, <1>5, <1>6, <1>10, <2>1 DEF DeviceInv, LinkInv, Before
  <2>10. FilterInv'
    <3>1. FilterInv /\ \A p \in Objects :
            /\ ports[p] # NoPorts => Live(p)' /\ ~Unstarted(p)' /\ link'[p] = link[p]
            /\ Works("Start", p)' => ports[p] = NoPorts
            /\ Works("StartMic", p)' => ports[p]["Mic"] = NoPorts["Mic"]
      BY <1>1, <1>5, <2>1, <2>3, <2>4 DEF DeviceInv, FilterInv
    <3> QED BY <1>1, <3>1, FiltersKept
  <2> QED BY <1>8, <1>9, <2>5, <2>6, <2>7, <2>8, <2>9, <2>10 DEF DeviceInv
<1>11. CASE action = "Stop"
  <2>1. \A p : /\ Waits("Start", p)' <=> Waits("Start", p)
               /\ Waits("Stop", p)' <=> Waits("Stop", p) /\ p # o
               /\ Works("Stop", p)' <=> p = o
               /\ ~Works("Start", p)' /\ ~Works("StartMic", p)'
               /\ ~Works("Stop", p)
    BY <1>3, <1>4, <1>11 DEF Carrying
  <2>2. Waits("Stop", o)
    BY <1>3, <1>11
  <2>3. \A p : /\ ~Starting(p)'
               /\ InWork(p)' <=> p = o
               /\ Leaving(p)' <=> Leaving(p)
               /\ Unstarted(p)' <=> Unstarted(p)
    BY <1>4, <1>5, <1>11, <2>1, <2>2 DEF Starting, InWork, Leaving, Unstarted
  <2>4. ~Waits("Start", o) /\ ~Entering(o)
    BY <1>3, <1>11, <2>2 DEF DeviceInv, PlaceInv, Leaving
  <2>5. PlaceInv'
    BY <1>2, <1>5, <1>6, <1>7, <1>11, <2>1, <2>3, <2>4 DEF DeviceInv, PlaceInv
  <2>6. LiveInv'
    BY <1>5, <2>3 DEF DeviceInv, LiveInv
  <2>7. RefsInv'
    BY <1>1, <1>5, <2>1, <2>2, <2>3 DEF DeviceInv, RefsInv, Count, One
  <2>8. OwnInv'
    BY <1>1, <1>5, <2>3 DEF DeviceInv, OwnInv
  <2>9. LinkInv'
    <3>1. ASSUME NEW a \in Objects, NEW b \in Objects, Before(a, b)
          PROVE  Before(a, b)'
      BY <1>5, <1>6, <2>1, <2>3, <3>1 DEF Before, Unstarted
    <3> QED BY <1>1, <1>5, <3>1 DEF DeviceInv, LinkInv
  <2>10. FilterInv'
    <3>1. FilterInv /\ \A p \in Objects :
            /\ ports[p] # NoPorts => Live(p)' /\ ~Unstarted(p)' /\ link'[p] = link[p]
            /\ Works("Start", p)' => ports[p] = NoPorts
            /\ Works("StartMic", p)' => ports[p]["Mic"] = NoPorts["Mic"]
      BY <1>1, <1>5, <2>1, <2>3 DEF DeviceInv, FilterInv
    <3> QED BY <1>1, <3>1, FiltersKept
  <2> QED BY <1>8, <1>9, <2>5, <2>6, <2>7, <2>8, <2>9, <2>10 DEF DeviceInv
<1> QED BY <1>10, <1>11

Starts == {"Start", "StartMic", "StartNotify"}

\* A device whose start is under way is live, and not about to be started.
LEMMA StartingIs ==
  ASSUME OneThreadEach, AdapterInv, DeviceInv, NEW w \in WorkerThreads,
         worker[w].at \in Starts, NEW o \in Objects, o = worker[w].object
  PROVE  /\ \A at, p : Works(at, p) <=> at = worker[w].at /\ p = o
         /\ \A p : /\ Starting(p) <=> p = o
                   /\ InWork(p) <=> p = o
                   /\ ~Works("Stop", p) /\ ~Works("Release", p)
         /\ Live(o) /\ link[o] \in Links /\ state[o] # "Free" /\ refs[o] # 0
         /\ ~Waits("Start", o) /\ ~Entering(o) /\ ~Unstarted(o)
         /\ Listed(o) \/ Waits("Stop", o)
<1>1. \A at, p : Works(at, p) <=> at = worker[w].at /\ p = o
  <2>1. worker[w].at \in Carrying
    BY DEF Starts, Carrying
  <2> QED BY <2>1, WorkerHas DEF AdapterInv
<1>2. \A p : /\ Starting(p) <=> p = o
             /\ InWork(p) <=> p = o
             /\ ~Works("Stop", p) /\ ~Works("Release", p)
  BY <1>1 DEF Starting, InWork, Starts
<1>3. /\ ~Waits("Start", o) /\ ~Entering(o) /\ ~Unstarted(o)
      /\ Listed(o) \/ Waits("Stop", o)
  BY <1>2 DEF DeviceInv, PlaceInv, Unstarted
<1>4. Live(o) /\ link[o] \in Links /\ state[o] # "Free" /\ refs[o] # 0
  BY <1>3, PresentIsLive DEF Leaving, DeviceInv, ObjectTypes
<1> QED BY <1>1, <1>2, <1>3, <1>4

\* A start goes on or ends; what it does to the filters is the installation's.
LEMMA StartGoesOn ==
  ASSUME OneThreadEach, AdapterInv, DeviceInv, NEW w \in WorkerThreads,
         worker[w].at \in Starts, NEW o \in Objects, o = worker[w].object,
         NEW next \in {"StartMic", "StartNotify", "Release"},
         worker' = [worker EXCEPT ![w].at = next],
         state' = state \/ state' = [state EXCEPT ![o] = "Failed"],
         UNCHANGED <<enabled, devices, tasks, notifier, link, refs>>,
         \A p \in Objects : p # o => (Owns(p)' <=> Owns(p))
  PROVE  /\ PlaceInv' /\ LiveInv' /\ RefsInv' /\ OwnInv' /\ LinkInv' /\ ListInv'
         /\ state' \in [Objects -> States]
         /\ \A p \in Objects : Live(p)' <=> Live(p)
         /\ \A p : Unstarted(p)' <=> Unstarted(p)
         /\ \A at, p : Works(at, p)' <=> at = next /\ p = o
<1>1. /\ \A p : /\ Starting(p) <=> p = o
                /\ InWork(p) <=> p = o
                /\ ~Works("Stop", p)
      /\ Live(o) /\ state[o] # "Free" /\ refs[o] # 0
      /\ ~Waits("Start", o) /\ ~Entering(o) /\ ~Unstarted(o)
      /\ Listed(o) \/ Waits("Stop", o)
  BY StartingIs
<1>2. \A at, p : Works(at, p)' <=> at = next /\ p = o
  <2>1. worker[w].at \in Carrying
    BY DEF Starts, Carrying
  <2> QED BY <2>1, WorkerMoves DEF AdapterInv
<1>3. /\ \A p : Listed(p)' <=> Listed(p)
      /\ \A a, p : Waits(a, p)' <=> Waits(a, p)
      /\ \A s, t : Precedes(tasks, s, t)' <=> Precedes(tasks, s, t)
      /\ \A at, p : Notified(at, p)' <=> Notified(at, p)
      /\ IsInjective(devices)' /\ IsInjective(tasks)'
  BY SameDevices, SameTasks, SameNotifier DEF DeviceInv, PlaceInv
<1>4. \A p : /\ Starting(p)' => p = o
             /\ InWork(p)' <=> p = o
             /\ ~Works("Stop", p)'
             /\ Entering(p)' <=> Entering(p)
             /\ Leaving(p)' <=> Leaving(p)
             /\ Unstarted(p)' <=> Unstarted(p)
  BY <1>1, <1>2, <1>3 DEF Starting, InWork, Entering, Leaving, Unstarted
<1>5. /\ state' \in [Objects -> States]
      /\ \A p \in Objects : (Live(p)' <=> Live(p))
                            /\ (state'[p] = "Free" <=> state[p] = "Free")
  BY <1>1 DEF DeviceInv, ObjectTypes, States, Live
<1>6. PlaceInv'
  BY <1>1, <1>3, <1>4 DEF DeviceInv, PlaceInv
<1>7. LiveInv'
  BY <1>3, <1>4, <1>5 DEF DeviceInv, LiveInv
<1>8. RefsInv'
  BY <1>1, <1>3, <1>4 DEF DeviceInv, RefsInv, Count, One
<1>9. OwnInv'
  <2> SUFFICES ASSUME NEW p \in Objects
               PROVE  /\ state'[p] = "Free" <=> refs'[p] = 0 /\ ~Owns(p)'
                      /\ Unstarted(p)' => ~Owns(p)'
    BY DEF OwnInv
  <2>1. CASE p = o
    BY <1>1, <1>4, <1>5, <2>1
  <2>2. CASE p # o
    BY <1>4, <1>5, <2>2 DEF DeviceInv, OwnInv
  <2> QED BY <2>1, <2>2
<1>10. LinkInv'
  BY <1>1, <1>3, <1>4, <1>5 DEF DeviceInv, LinkInv, Before
<1>11. ListInv'
  BY DEF DeviceInv, ListInv
<1> QED BY <1>2, <1>4, <1>5, <1>6, <1>7, <1>8, <1>9, <1>10, <1>11

\* A start ends without a filter.
LEMMA DeviceStartEnds ==
  ASSUME OneThreadEach, AdapterInv, DeviceInv, NEW w \in WorkerThreads,
         StartFails(w) \/ StartDone(w)
  PROVE  DeviceInv'
<1>1. worker[w].at \in Starts
  BY DEF StartFails, StartDone, Starts
<1>2. PICK o \in Objects : o = worker[w].object
  BY <1>1, InHand DEF AdapterInv, Starts, Carrying
<1>3. /\ worker' = [worker EXCEPT ![w].at = "Release"]
      /\ state' = state \/ state' = [state EXCEPT ![o] = "Failed"]
      /\ UNCHANGED <<enabled, devices, tasks, notifier, link, refs, ports, fs, opened>>
  BY <1>2 DEF StartFails, StartDone, adapterVars, objectVars, filterVars
<1>4. \A p : Owns(p)' <=> Owns(p)
  BY <1>3, OwnsSame
<1>5. /\ PlaceInv' /\ LiveInv' /\ RefsInv' /\ OwnInv' /\ LinkInv' /\ ListInv'
      /\ state' \in [Objects -> States]
      /\ \A p \in Objects : Live(p)' <=> Live(p)
      /\ \A p : Unstarted(p)' <=> Unstarted(p)
      /\ \A at, p : Works(at, p)' <=> at = "Release" /\ p = o
  BY <1>1, <1>2, <1>3, <1>4, StartGoesOn
<1>6. ObjectTypes'
  BY <1>3, <1>5 DEF DeviceInv, ObjectTypes, States
<1>7. FilterInv'
  <2>1. FilterInv /\ \A p \in Objects :
          /\ ports[p] # NoPorts => Live(p)' /\ ~Unstarted(p)' /\ link'[p] = link[p]
          /\ Works("Start", p)' => ports[p] = NoPorts
          /\ Works("StartMic", p)' => ports[p]["Mic"] = NoPorts["Mic"]
    BY <1>3, <1>5 DEF DeviceInv, FilterInv
  <2> QED BY <1>3, <2>1, FiltersKept
<1> QED BY <1>5, <1>6, <1>7 DEF DeviceInv

\* The names of the filters a device installs are free: another device of its
\* link has none, and its own of this pair are not there yet.
LEMMA NamesFree ==
  ASSUME OneThreadEach, NamesDistinct, AdapterInv, DeviceInv,
         NEW w \in WorkerThreads, NEW o \in Objects, o = worker[w].object,
         NEW pair \in Pairs,
         \/ pair = "Speaker" /\ worker[w].at = "Start"
         \/ pair = "Mic" /\ worker[w].at = "StartMic"
  PROVE  /\ ports[o][pair] = NoPorts[pair]
         /\ \A kind \in {"Topology", "Wave"} :
              ~ \E q \in fs.registered : SameName(q, Port(o, FilterName(o, pair), kind))
<1>1. worker[w].at \in Starts
  BY DEF Starts
<1>2. /\ \A at, p : Works(at, p) <=> at = worker[w].at /\ p = o
      /\ \A p : ~Works("Stop", p)
      /\ link[o] \in Links /\ Live(o)
      /\ ~Waits("Start", o) /\ ~Entering(o) /\ ~Unstarted(o)
  BY <1>1, StartingIs
<1>3. ports[o][pair] = NoPorts[pair]
  BY <1>2 DEF DeviceInv, FilterInv
<1>4. ASSUME NEW kind \in {"Topology", "Wave"}, NEW q \in fs.registered,
             SameName(q, Port(o, FilterName(o, pair), kind))
      PROVE  FALSE
  <2>1. q # NoPort /\ \E b \in Objects, pr \in Pairs :
          q \in {ports[b][pr].topology, ports[b][pr].wave}
    BY DEF DeviceInv, FilterInv
  <2>2. PICK b \in Objects, pr \in Pairs :
          q \in {ports[b][pr].topology, ports[b][pr].wave}
    BY <2>1
  <2>3. ports[b][pr] # NoPorts[pr] /\ ports[b] # NoPorts
    BY <2>1, <2>2 DEF NoPorts
  <2>4. Live(b) /\ ~Unstarted(b) /\ link[b] \in Links
    BY <2>3 DEF DeviceInv, FilterInv, ObjectTypes
  <2>5. q.name = FilterName(b, pr)
    BY <2>1, <2>2 DEF DeviceInv, FilterInv, Port
  <2>6. FilterName(b, pr) = FilterName(o, pair)
    BY <1>4, <2>5 DEF SameName, Port
  <2>7. pr = pair /\ NameOf(link[b]) = NameOf(link[o])
    BY <2>6 DEF FilterName
  <2>8. link[b] = link[o]
    BY <1>2, <2>4, <2>7 DEF NamesDistinct
  <2>9. b # o
    BY <1>3, <2>3, <2>7
  <2>10. Before(b, o) \/ Before(o, b)
    BY <1>2, <2>4, <2>8, <2>9 DEF DeviceInv, LinkInv
  <2>11. \A a, c : Precedes(tasks, Task("Stop", a), Task("Start", c)) => Unstarted(c)
    BY DEF Precedes, Unstarted, Waits, Occurs
  <2> QED BY <1>2, <2>4, <2>10, <2>11 DEF Before, Unstarted
<1> QED BY <1>3, <1>4

\* A start installs a pair.
LEMMA DeviceInstall ==
  ASSUME OneThreadEach, NamesDistinct, AdapterInv, DeviceInv,
         NEW w \in WorkerThreads, NEW pair \in Pairs, NEW at, NEW next,
         \/ pair = "Speaker" /\ at = "Start" /\ next = "StartMic"
         \/ pair = "Mic" /\ at = "StartMic" /\ next = "StartNotify",
         StartInstall(w, pair, at, next)
  PROVE  DeviceInv'
<1>1. worker[w].at = at /\ at \in Starts
  BY DEF StartInstall, Starts
<1>2. PICK o \in Objects : o = worker[w].object
  BY <1>1, InHand DEF AdapterInv, Starts, Carrying
<1> DEFINE name == FilterName(o, pair)
<1>3. PICK r \in InstallEndpointFilters(fs, o, name) :
        /\ fs' = r.fs
        /\ ports' = [ports EXCEPT ![o][pair] =
                       [topology |-> r.topology, wave |-> r.wave]]
        /\ \/ /\ worker' = [worker EXCEPT ![w].at = next]
              /\ state' = state
           \/ /\ worker' = [worker EXCEPT ![w].at = "Release"]
              /\ state' = [state EXCEPT ![o] = "Failed"]
  BY <1>2 DEF StartInstall
<1>4. UNCHANGED <<enabled, devices, tasks, notifier, link, refs, opened>>
  BY DEF StartInstall, adapterVars
<1>5. /\ Live(o) /\ link[o] \in Links /\ ~Unstarted(o)
      /\ \A bt, p : Works(bt, p) <=> bt = at /\ p = o
  BY <1>1, <1>2, StartingIs
<1>6. /\ ports[o][pair] = NoPorts[pair]
      /\ \A kind \in {"Topology", "Wave"} :
           /\ ~ \E q \in fs.registered : SameName(q, Port(o, name, kind))
           /\ Port(o, name, kind) # NoPort
  BY <1>1, <1>2, <1>5, NamesFree, NullIsNoPort
<1>7. /\ Filters(fs) /\ fs.cache \subseteq fs.registered /\ NoPort \notin fs.registered
  BY DEF DeviceInv, ObjectTypes, FilterInv, Filters
<1> HIDE DEF name
<1>8. /\ Filters(fs')
      /\ r.topology \in {NoPort, Port(o, name, "Topology")}
      /\ r.wave \in {NoPort, Port(o, name, "Wave")}
      /\ fs'.registered = fs.registered \union ({r.topology, r.wave} \ {NoPort})
      /\ fs'.cache \subseteq fs'.registered
      /\ \/ fs'.connected = fs.connected
         \/ /\ fs'.connected = fs.connected \union {<<r.topology, r.wave>>}
            /\ r.topology # NoPort /\ r.wave # NoPort
  BY <1>3, <1>6, <1>7, PairInstalled
<1>9. /\ ports'[o][pair].topology = r.topology /\ ports'[o][pair].wave = r.wave
      /\ \A b \in Objects, pr \in Pairs :
           ~(b = o /\ pr = pair) => ports'[b][pr] = ports[b][pr]
      /\ \A b \in Objects : b # o => ports'[b] = ports[b]
  BY <1>3 DEF DeviceInv, ObjectTypes
<1>10. ports[o][pair].topology = NoPort /\ ports[o][pair].wave = NoPort
  BY <1>6 DEF NoPorts
<1>11. \A p \in Objects : p # o => (Owns(p)' <=> Owns(p))
  <2>1. ASSUME NEW q, q.owner # o, q \in Alive(fs', opened', ports')
        PROVE  q \in Alive(fs, opened, ports)
    <3>1. q \notin {r.topology, r.wave} \ {NoPort} /\ q # NoPort
      BY <1>8, <2>1, AliveIs DEF Port
    <3>2. CASE q \in fs'.registered \/ q \in fs'.cache
      BY <1>8, <3>1, <3>2, AliveIs
    <3>3. CASE q \in opened'
      BY <1>4, <3>1, <3>3, AliveIs
    <3>4. ASSUME NEW b \in Objects, NEW pr \in Pairs,
                 q = ports'[b][pr].topology \/ q = ports'[b][pr].wave
          PROVE  q \in Alive(fs, opened, ports)
      <4>1. ports'[b][pr] = ports[b][pr]
        BY <1>9, <3>1, <3>4
      <4> QED BY <3>1, <3>4, <4>1, AliveIs
    <3> QED BY <2>1, <3>2, <3>3, <3>4, AliveIs
  <2>2. ASSUME NEW q, q.owner # o, q \in Alive(fs, opened, ports)
        PROVE  q \in Alive(fs', opened', ports')
    <3>1. q # NoPort
      BY <2>2, AliveIs
    <3>2. CASE q \in fs.registered \/ q \in fs.cache
      BY <1>7, <1>8, <3>1, <3>2, AliveIs
    <3>3. CASE q \in opened
      BY <1>4, <3>1, <3>3, AliveIs
    <3>4. ASSUME NEW b \in Objects, NEW pr \in Pairs,
                 q = ports[b][pr].topology \/ q = ports[b][pr].wave
          PROVE  q \in Alive(fs', opened', ports')
      <4>1. ports'[b][pr] = ports[b][pr]
        BY <1>9, <1>10, <3>1, <3>4
      <4> QED BY <3>1, <3>4, <4>1, AliveIs
    <3> QED BY <2>2, <3>2, <3>3, <3>4, AliveIs
  <2> QED BY <2>1, <2>2, OwnsIs
<1>12. PICK n \in {"StartMic", "StartNotify", "Release"} :
         /\ n = next \/ n = "Release"
         /\ worker' = [worker EXCEPT ![w].at = n]
  BY <1>3
<1>13. /\ PlaceInv' /\ LiveInv' /\ RefsInv' /\ OwnInv' /\ LinkInv' /\ ListInv'
       /\ state' \in [Objects -> States]
       /\ \A p \in Objects : Live(p)' <=> Live(p)
       /\ \A p : Unstarted(p)' <=> Unstarted(p)
       /\ \A bt, p : Works(bt, p)' <=> bt = n /\ p = o
  <2>1. /\ worker[w].at \in Starts
        /\ worker' = [worker EXCEPT ![w].at = n]
        /\ state' = state \/ state' = [state EXCEPT ![o] = "Failed"]
        /\ UNCHANGED <<enabled, devices, tasks, notifier, link, refs>>
    BY <1>1, <1>3, <1>4, <1>12
  <2>2. PlaceInv' /\ LiveInv' /\ RefsInv' /\ OwnInv' /\ LinkInv' /\ ListInv'
    BY <1>2, <1>11, <2>1, StartGoesOn
  <2>3. /\ state' \in [Objects -> States]
        /\ \A p \in Objects : Live(p)' <=> Live(p)
    BY <1>2, <1>11, <2>1, StartGoesOn
  <2>4. \A p : Unstarted(p)' <=> Unstarted(p)
    BY <1>2, <1>11, <2>1, StartGoesOn
  <2>5. \A bt, p : Works(bt, p)' <=> bt = n /\ p = o
    <3>1. worker[w].at \in Carrying
      BY <2>1 DEF Starts, Carrying
    <3> QED BY <1>2, <2>1, <3>1, WorkerMoves DEF AdapterInv
  <2> QED BY <2>2, <2>3, <2>4, <2>5
<1>14. ObjectTypes'
  <2>1. ports' = [b \in Objects |-> [pr \in Pairs |->
                    [topology |-> ports'[b][pr].topology, wave |-> ports'[b][pr].wave]]]
    <3>1. /\ ports = [b \in Objects |-> ports[b]]
          /\ \A b \in Objects : ports[b] = [pr \in Pairs |-> ports[b][pr]]
          /\ \A b \in Objects, pr \in Pairs : ports[b][pr] =
               [topology |-> ports[b][pr].topology, wave |-> ports[b][pr].wave]
      BY DEF DeviceInv, ObjectTypes
    <3>2. ports' = [b \in Objects |-> ports'[b]]
      BY <1>3, <3>1
    <3>3. \A b \in Objects : ports'[b] = [pr \in Pairs |-> ports'[b][pr]]
      BY <1>3, <3>1
    <3>4. ASSUME NEW b \in Objects, NEW pr \in Pairs
          PROVE  ports'[b][pr] =
                   [topology |-> ports'[b][pr].topology, wave |-> ports'[b][pr].wave]
      <4>1. CASE b = o /\ pr = pair
        BY <1>3, <3>1, <4>1
      <4>2. CASE ~(b = o /\ pr = pair)
        BY <1>9, <3>1, <4>2
      <4> QED BY <4>1, <4>2
    <3> QED BY <3>2, <3>3, <3>4
  <2> QED BY <1>4, <1>8, <1>13, <2>1 DEF DeviceInv, ObjectTypes, States, Filters
<1>15. FilterInv'
  <2>1. \A p \in fs'.registered : p # NoPort /\ \E b \in Objects, pr \in Pairs :
          p \in {ports'[b][pr].topology, ports'[b][pr].wave}
    <3> SUFFICES ASSUME NEW p \in fs'.registered
                 PROVE  p # NoPort /\ \E b \in Objects, pr \in Pairs :
                          p \in {ports'[b][pr].topology, ports'[b][pr].wave}
      OBVIOUS
    <3>1. CASE p \in {r.topology, r.wave} \ {NoPort}
      BY <1>9, <3>1
    <3>2. CASE p \in fs.registered
      <4>1. p # NoPort /\ \E b \in Objects, pr \in Pairs :
              p \in {ports[b][pr].topology, ports[b][pr].wave}
        BY <3>2 DEF DeviceInv, FilterInv
      <4>2. PICK b \in Objects, pr \in Pairs :
              p \in {ports[b][pr].topology, ports[b][pr].wave}
        BY <4>1
      <4>3. ports'[b][pr] = ports[b][pr]
        BY <1>9, <1>10, <4>1, <4>2
      <4> QED BY <4>1, <4>2, <4>3
    <3> QED BY <1>8, <3>1, <3>2
  <2>2. \A c \in fs'.connected :
          /\ c[1] # NoPort /\ c[2] # NoPort
          /\ \E b \in Objects, pr \in Pairs :
               c = <<ports'[b][pr].topology, ports'[b][pr].wave>>
    <3> SUFFICES ASSUME NEW c \in fs'.connected
                 PROVE  /\ c[1] # NoPort /\ c[2] # NoPort
                        /\ \E b \in Objects, pr \in Pairs :
                             c = <<ports'[b][pr].topology, ports'[b][pr].wave>>
      OBVIOUS
    <3>1. CASE c = <<r.topology, r.wave>> /\ r.topology # NoPort /\ r.wave # NoPort
      BY <1>9, <3>1
    <3>2. CASE c \in fs.connected
      <4>1. /\ c[1] # NoPort /\ c[2] # NoPort
            /\ \E b \in Objects, pr \in Pairs :
                 c = <<ports[b][pr].topology, ports[b][pr].wave>>
        BY <3>2 DEF DeviceInv, FilterInv
      <4>2. PICK b \in Objects, pr \in Pairs :
              c = <<ports[b][pr].topology, ports[b][pr].wave>>
        BY <4>1
      <4>3. ports'[b][pr] = ports[b][pr]
        BY <1>9, <1>10, <4>1, <4>2
      <4> QED BY <4>1, <4>2, <4>3
    <3> QED BY <1>8, <3>1, <3>2
  <2>3. ASSUME NEW b \in Objects, NEW pr \in Pairs
        PROVE  /\ ports'[b][pr].topology \in
                    {NoPort, Port(b, FilterName(b, pr)', "Topology")}
               /\ ports'[b][pr].wave \in
                    {NoPort, Port(b, FilterName(b, pr)', "Wave")}
    <3>1. FilterName(b, pr)' = FilterName(b, pr)
      BY <1>4 DEF FilterName
    <3>2. CASE b = o /\ pr = pair
      BY <1>8, <1>9, <3>1, <3>2 DEF name
    <3>3. CASE ~(b = o /\ pr = pair)
      BY <1>9, <3>1, <3>3 DEF DeviceInv, FilterInv
    <3> QED BY <3>2, <3>3
  <2>4. ASSUME NEW b \in Objects
        PROVE  /\ ports'[b] # NoPorts => Live(b)' /\ ~Unstarted(b)'
               /\ Works("Start", b)' => ports'[b] = NoPorts
               /\ Works("StartMic", b)' => ports'[b]["Mic"] = NoPorts["Mic"]
    <3>1. CASE b = o
      <4>1. Live(b)' /\ ~Unstarted(b)' /\ ~Works("Start", b)'
        BY <1>5, <1>13, <3>1
      <4>2. ASSUME Works("StartMic", b)' PROVE ports'[b]["Mic"] = NoPorts["Mic"]
        <5>1. pair = "Speaker" /\ at = "Start"
          BY <1>12, <1>13, <4>2
        <5>2. ports[o] = NoPorts
          BY <1>5, <5>1 DEF DeviceInv, FilterInv
        <5> QED BY <1>9, <3>1, <5>1, <5>2 DEF Pairs
      <4> QED BY <4>1, <4>2
    <3>2. CASE b # o
      BY <1>9, <1>13, <3>2 DEF DeviceInv, FilterInv
    <3> QED BY <3>1, <3>2
  <2> QED BY <1>8, <2>1, <2>2, <2>3, <2>4 DEF FilterInv
<1> QED BY <1>13, <1>14, <1>15 DEF DeviceInv

\* What Stop leaves of the ports and the filters.
LEMMA StoppedPorts ==
  ASSUME DeviceInv, NEW o \in Objects, fs' = AfterStop(o), opened' = opened,
         ports' = [ports EXCEPT ![o] = NoPorts]
  PROVE  /\ ports' = [b \in Objects |-> [pr \in Pairs |->
              [topology |-> ports'[b][pr].topology, wave |-> ports'[b][pr].wave]]]
         /\ Filters(fs')
         /\ \A p : Owns(p)' => Owns(p)
<1>1. /\ ports = [b \in Objects |-> ports[b]]
      /\ \A b \in Objects : ports[b] = [pr \in Pairs |-> [topology |->
           ports[b][pr].topology, wave |-> ports[b][pr].wave]]
  BY DEF DeviceInv, ObjectTypes
<1>2. /\ ports'[o] = NoPorts
      /\ \A b \in Objects : b # o => ports'[b] = ports[b]
      /\ ports' = [b \in Objects |-> ports'[b]]
  BY <1>1
<1>3. ASSUME NEW b \in Objects
      PROVE  ports'[b] = [pr \in Pairs |-> [topology |->
               ports'[b][pr].topology, wave |-> ports'[b][pr].wave]]
  <2>1. CASE b = o
    BY <1>2, <2>1 DEF NoPorts
  <2>2. CASE b # o
    BY <1>1, <1>2, <2>2
  <2> QED BY <2>1, <2>2
<1>4. /\ Filters(fs') /\ fs'.registered \subseteq fs.registered
      /\ fs'.cache \subseteq fs.cache
  BY StopRemoves DEF DeviceInv, ObjectTypes, Filters
<1>5. ASSUME NEW b \in Objects, NEW pr \in Pairs
      PROVE  /\ ports'[b][pr].topology \in {NoPort, ports[b][pr].topology}
             /\ ports'[b][pr].wave \in {NoPort, ports[b][pr].wave}
  BY <1>2 DEF NoPorts
<1>6. \A p : Owns(p)' => Owns(p)
  BY <1>4, <1>5, OwnsLess
<1> QED BY <1>2, <1>3, <1>4, <1>6

LEMMA StoppedFilters ==
  ASSUME DeviceInv, NEW o \in Objects, fs' = AfterStop(o),
         ports' = [ports EXCEPT ![o] = NoPorts],
         \A p \in Objects : p # o /\ ports[p] # NoPorts =>
           Live(p)' /\ ~Unstarted(p)' /\ link'[p] = link[p],
         \A p : ~Works("Start", p)' /\ ~Works("StartMic", p)'
  PROVE  FilterInv'
<1>1. /\ ports'[o] = NoPorts
      /\ \A b \in Objects : b # o => ports'[b] = ports[b]
  BY DEF DeviceInv, ObjectTypes
<1>2. /\ fs'.cache \subseteq fs'.registered
      /\ fs'.registered \subseteq fs.registered
      /\ fs'.connected \subseteq fs.connected
      /\ \A pair \in Pairs :
           /\ ports[o][pair].topology \notin fs'.registered
           /\ ports[o][pair].wave \notin fs'.registered
           /\ <<ports[o][pair].topology, ports[o][pair].wave>> \notin fs'.connected
  BY StopRemoves DEF DeviceInv, ObjectTypes, Filters
<1>3. ASSUME NEW p \in fs'.registered
      PROVE  p # NoPort /\ \E b \in Objects, pr \in Pairs :
               p \in {ports'[b][pr].topology, ports'[b][pr].wave}
  <2>1. p # NoPort /\ \E b \in Objects, pr \in Pairs :
          p \in {ports[b][pr].topology, ports[b][pr].wave}
    BY <1>2 DEF DeviceInv, FilterInv
  <2>2. PICK b \in Objects, pr \in Pairs :
          p \in {ports[b][pr].topology, ports[b][pr].wave}
    BY <2>1
  <2>3. b # o
    BY <1>2, <2>2
  <2> QED BY <1>1, <2>1, <2>2, <2>3
<1>4. ASSUME NEW c \in fs'.connected
      PROVE  /\ c[1] # NoPort /\ c[2] # NoPort
             /\ \E b \in Objects, pr \in Pairs :
                  c = <<ports'[b][pr].topology, ports'[b][pr].wave>>
  <2>1. /\ c[1] # NoPort /\ c[2] # NoPort
        /\ \E b \in Objects, pr \in Pairs :
             c = <<ports[b][pr].topology, ports[b][pr].wave>>
    BY <1>2 DEF DeviceInv, FilterInv
  <2>2. PICK b \in Objects, pr \in Pairs :
          c = <<ports[b][pr].topology, ports[b][pr].wave>>
    BY <2>1
  <2>3. b # o
    BY <1>2, <2>2
  <2> QED BY <1>1, <2>1, <2>2, <2>3
<1>5. ASSUME NEW b \in Objects
      PROVE  /\ \A pr \in Pairs :
                  /\ ports'[b][pr].topology \in
                       {NoPort, Port(b, FilterName(b, pr)', "Topology")}
                  /\ ports'[b][pr].wave \in
                       {NoPort, Port(b, FilterName(b, pr)', "Wave")}
             /\ ports'[b] # NoPorts => Live(b)' /\ ~Unstarted(b)'
  <2>1. CASE ports'[b] = NoPorts
    BY <2>1 DEF NoPorts
  <2>2. CASE ports'[b] # NoPorts
    <3>1. b # o /\ ports'[b] = ports[b]
      BY <1>1, <2>2
    <3>2. Live(b)' /\ ~Unstarted(b)' /\ link'[b] = link[b]
      BY <2>2, <3>1
    <3>3. \A pr : FilterName(b, pr)' = FilterName(b, pr)
      BY <3>2 DEF FilterName
    <3> QED BY <3>1, <3>2, <3>3 DEF DeviceInv, FilterInv
  <2> QED BY <2>1, <2>2
<1> QED BY <1>2, <1>3, <1>4, <1>5 DEF FilterInv

\* The stop of a device.
LEMMA DeviceStop ==
  ASSUME OneThreadEach, AdapterInv, DeviceInv, NEW w \in WorkerThreads, Stop(w)
  PROVE  DeviceInv'
<1>1. worker[w].at = "Stop" /\ worker[w].at \in Carrying
  BY DEF Stop, Carrying
<1>2. PICK o \in Objects : o = worker[w].object
  BY <1>1, InHand DEF AdapterInv
<1> DEFINE stopped == [state EXCEPT ![o] = "Stopped"]
<1>3. /\ SetObjects(stopped, refs, [ports EXCEPT ![o] = NoPorts],
                    AfterStop(o), opened)
      /\ worker' = [worker EXCEPT ![w].at = "Release"]
      /\ UNCHANGED <<enabled, devices, tasks, notifier>>
  BY <1>2 DEF Stop, adapterVars
<1>4. /\ stopped \in [Objects -> States] /\ stopped[o] = "Stopped"
      /\ \A p \in Objects : p # o => stopped[p] = state[p]
      /\ refs \in [Objects -> Int]
  BY DEF DeviceInv, ObjectTypes, States
<1> HIDE DEF stopped
<1>5. /\ \A at, p : Works(at, p) <=> at = "Stop" /\ p = o
      /\ \A at, p : Works(at, p)' <=> at = "Release" /\ p = o
  <2>1. \A at, p : Works(at, p) <=> at = "Stop" /\ p = o
    BY <1>1, <1>2, WorkerHas DEF AdapterInv
  <2>2. \A at, p : Works(at, p)' <=> at = "Release" /\ p = o
    BY <1>1, <1>2, <1>3, WorkerMoves DEF AdapterInv
  <2> QED BY <2>1, <2>2
<1>6. /\ \A p : Listed(p)' <=> Listed(p)
      /\ \A a, p : Waits(a, p)' <=> Waits(a, p)
      /\ \A s, t : Precedes(tasks, s, t)' <=> Precedes(tasks, s, t)
      /\ \A at, p : Notified(at, p)' <=> Notified(at, p)
      /\ IsInjective(devices)' /\ IsInjective(tasks)'
  BY <1>3, SameDevices, SameTasks, SameNotifier DEF DeviceInv, PlaceInv
<1>7. \A p : /\ ~Starting(p) /\ ~Starting(p)'
             /\ InWork(p) <=> p = o
             /\ InWork(p)' <=> p = o
             /\ Entering(p)' <=> Entering(p)
             /\ Unstarted(p)' <=> Unstarted(p)
             /\ Leaving(p)' <=> Waits("Stop", p)
             /\ Leaving(p) <=> Waits("Stop", p) \/ p = o
  BY <1>5, <1>6 DEF Starting, InWork, Entering, Unstarted, Leaving
<1>8. /\ ~Listed(o) /\ ~Waits("Stop", o) /\ ~Waits("Start", o) /\ ~Entering(o)
      /\ ~Unstarted(o)
  BY <1>5, <1>7 DEF DeviceInv, PlaceInv, Unstarted
<1>9. \A p : Present(p)' <=> Present(p) /\ p # o
  BY <1>6, <1>7, <1>8 DEF Present
<1>10. \A p \in Objects : refs[p] = Count(p)' /\ (Count(p)' > 0 => Count(p) > 0)
  BY <1>6, <1>7 DEF DeviceInv, RefsInv, Count, One
<1>11. /\ ports' = [ports EXCEPT ![o] = NoPorts] /\ fs' = AfterStop(o)
       /\ opened' = opened
  BY <1>3 DEF SetObjects
<1>12. /\ ports' = [b \in Objects |-> [pr \in Pairs |->
            [topology |-> ports'[b][pr].topology, wave |-> ports'[b][pr].wave]]]
       /\ Filters(fs')
       /\ \A p : Owns(p)' => Owns(p)
  BY <1>11, StoppedPorts
<1>13. state[o] # "Free"
  BY <1>7, PresentIsLive
<1>14. /\ RefsInv' /\ OwnInv' /\ LiveInv'
       /\ state' \in [Objects -> States]
       /\ link' \in [Objects -> Links \union {NoLink}]
       /\ refs' \in [Objects -> Int]
       /\ \A p \in Objects : Live(p)' => Live(p) /\ link'[p] = link[p]
       /\ \A p \in Objects : Live(p)' => link'[p] \in Links
  BY <1>3, <1>4, <1>7, <1>9, <1>10, <1>12, <1>13, Released
<1>15. ObjectTypes'
  BY <1>12, <1>14 DEF ObjectTypes, States, Filters
<1>16. PlaceInv'
  BY <1>5, <1>6, <1>7, <1>8 DEF DeviceInv, PlaceInv
<1>17. LinkInv'
  <2>1. \A a \in Objects : Live(a)' => a # o
    BY <1>9, <1>14 DEF LiveInv, Present
  <2>2. \A a, b \in Objects : Live(a)' /\ Live(b)' /\ Before(a, b) => Before(a, b)'
    BY <1>5, <1>6, <1>7, <2>1 DEF Before
  <2> QED BY <1>14, <2>2, LinksKept DEF DeviceInv
<1>18. FilterInv'
  <2>1. \A p \in Objects : p # o /\ Live(p) => Live(p)'
    BY <1>9, <1>14 DEF DeviceInv, LiveInv, Present
  <2>2. \A p \in Objects : p # o /\ ports[p] # NoPorts =>
          Live(p)' /\ ~Unstarted(p)' /\ link'[p] = link[p]
    BY <1>7, <1>14, <2>1 DEF DeviceInv, FilterInv
  <2>3. \A p : ~Works("Start", p)' /\ ~Works("StartMic", p)'
    BY <1>5
  <2> QED BY <1>11, <2>2, <2>3, StoppedFilters
<1>19. ListInv'
  BY <1>3 DEF DeviceInv, ListInv
<1> QED BY <1>14, <1>15, <1>16, <1>17, <1>18, <1>19 DEF DeviceInv

\* The reference of a task is dropped.
LEMMA DeviceTaskRelease ==
  ASSUME OneThreadEach, AdapterInv, DeviceInv, NEW w \in WorkerThreads,
         TaskRelease(w)
  PROVE  DeviceInv'
<1>1. worker[w].at = "Release" /\ worker[w].at \in Carrying
  BY DEF TaskRelease, Carrying
<1>2. PICK o \in Objects : o = worker[w].object
  BY <1>1, InHand DEF AdapterInv
<1> DEFINE less == [refs EXCEPT ![o] = @ - 1]
<1>3. /\ Release(o)
      /\ worker' = [worker EXCEPT ![w] = At("Fetch", NoObject)]
      /\ UNCHANGED <<enabled, devices, tasks, notifier>>
  BY <1>2 DEF TaskRelease, adapterVars
<1>4. /\ less \in [Objects -> Int] /\ less[o] = refs[o] - 1
      /\ \A p \in Objects : p # o => less[p] = refs[p]
      /\ state \in [Objects -> States]
      /\ SetObjects(state, less, ports, fs, opened)
      /\ UNCHANGED <<ports, fs, opened>>
      /\ \A p : Owns(p)' <=> Owns(p)
  BY <1>3, ReleaseIs
<1> HIDE DEF less
<1>5. /\ \A at, p : Works(at, p) <=> at = "Release" /\ p = o
      /\ \A at \in Carrying : \A p : ~Works(at, p)'
  BY <1>1, <1>2, <1>3, WorkerHas, WorkerGives DEF AdapterInv
<1>6. /\ \A p : Listed(p)' <=> Listed(p)
      /\ \A a, p : Waits(a, p)' <=> Waits(a, p)
      /\ \A s, t : Precedes(tasks, s, t)' <=> Precedes(tasks, s, t)
      /\ \A at, p : Notified(at, p)' <=> Notified(at, p)
      /\ IsInjective(devices)' /\ IsInjective(tasks)'
  BY <1>3, SameDevices, SameTasks, SameNotifier DEF DeviceInv, PlaceInv
<1>7. \A p : ~Works("Stop", p)' /\ ~Works("Start", p)' /\ ~Works("StartMic", p)'
             /\ ~Works("StartNotify", p)' /\ ~Works("Release", p)'
  BY <1>5 DEF Carrying
<1>8. \A p : /\ ~Starting(p) /\ ~Starting(p)'
             /\ InWork(p) <=> p = o
             /\ ~InWork(p)'
             /\ Entering(p)' <=> Entering(p)
             /\ Unstarted(p)' <=> Unstarted(p)
             /\ Leaving(p)' <=> Leaving(p)
  BY <1>5, <1>6, <1>7 DEF Starting, InWork, Entering, Unstarted, Leaving
<1>9. \A p : Present(p)' <=> Present(p)
  BY <1>6, <1>8 DEF Present
<1>10. \A p \in Objects : less[p] = Count(p)' /\ (Count(p)' > 0 => Count(p) > 0)
  <2>1. less[o] = Count(o)' /\ Count(o) > 0
    BY <1>4, <1>6, <1>8 DEF DeviceInv, RefsInv, Count, One
  <2>2. ASSUME NEW p \in Objects, p # o
        PROVE  less[p] = Count(p)' /\ Count(p)' = Count(p)
    BY <1>4, <1>6, <1>8, <2>2 DEF DeviceInv, RefsInv, Count, One
  <2> QED BY <2>1, <2>2
<1>11. /\ RefsInv' /\ OwnInv' /\ LiveInv'
       /\ state' \in [Objects -> States]
       /\ link' \in [Objects -> Links \union {NoLink}]
       /\ refs' \in [Objects -> Int]
       /\ \A p \in Objects : Live(p)' => Live(p) /\ link'[p] = link[p]
       /\ \A p \in Objects : Live(p)' => link'[p] \in Links
  BY <1>4, <1>8, <1>9, <1>10, Released
<1>12. ObjectTypes'
  BY <1>4, <1>11 DEF DeviceInv, ObjectTypes, States
<1>13. PlaceInv'
  BY <1>6, <1>7, <1>8 DEF DeviceInv, PlaceInv
<1>14. LinkInv'
  <2>1. \A a, b : Before(a, b) => Before(a, b)'
    BY <1>5, <1>6, <1>8 DEF Before
  <2> QED BY <1>11, <2>1, LinksKept DEF DeviceInv
<1>15. FilterInv'
  <2>1. \A p \in Objects : Live(p) => Live(p)'
    BY <1>9, <1>11 DEF DeviceInv, LiveInv, Present
  <2>2. FilterInv /\ \A p \in Objects :
          /\ ports[p] # NoPorts => Live(p)' /\ ~Unstarted(p)' /\ link'[p] = link[p]
          /\ Works("Start", p)' => ports[p] = NoPorts
          /\ Works("StartMic", p)' => ports[p]["Mic"] = NoPorts["Mic"]
    BY <1>7, <1>8, <1>11, <2>1 DEF DeviceInv, FilterInv
  <2> QED BY <1>4, <2>2, FiltersKept
<1>16. ListInv'
  BY <1>3 DEF DeviceInv, ListInv
<1> QED BY <1>11, <1>12, <1>13, <1>14, <1>15, <1>16 DEF DeviceInv

-----------------------------------------------------------------------------
(***************************************************************************)
(* Files and the cleanup.                                                  *)
(***************************************************************************)

\* A step that leaves every holder and may let ports go.
LEMMA PortsGo ==
  ASSUME DeviceInv, UNCHANGED <<devices, tasks, notifier, worker>>,
         NEW f, NEW open, SetObjects(state, refs, ports, f, open),
         Filters(f), f.registered = fs.registered, f.connected = fs.connected,
         f.cache \subseteq fs.cache, open \subseteq opened,
         ~enabled' => devices = <<>>
  PROVE  DeviceInv'
<1>1. /\ \A p : Listed(p)' <=> Listed(p)
      /\ \A a, p : Waits(a, p)' <=> Waits(a, p)
      /\ \A s, t : Precedes(tasks, s, t)' <=> Precedes(tasks, s, t)
      /\ \A at, p : Notified(at, p)' <=> Notified(at, p)
      /\ \A at, p : Works(at, p)' <=> Works(at, p)
      /\ IsInjective(devices)' /\ IsInjective(tasks)'
  BY SameDevices, SameTasks, SameNotifier, SameWorker DEF DeviceInv, PlaceInv
<1>2. \A p : /\ Starting(p)' <=> Starting(p)
             /\ InWork(p)' <=> InWork(p)
             /\ Entering(p)' <=> Entering(p)
             /\ Unstarted(p)' <=> Unstarted(p)
             /\ Leaving(p)' <=> Leaving(p)
             /\ Present(p)' <=> Present(p)
  BY <1>1 DEF Starting, InWork, Entering, Unstarted, Leaving, Present
<1>3. \A p \in Objects : refs[p] = Count(p)' /\ Count(p)' = Count(p)
  BY <1>1, <1>2 DEF DeviceInv, RefsInv, Count, One
<1>4. refs \in [Objects -> Int] /\ state \in [Objects -> States]
  BY DEF DeviceInv, ObjectTypes, States
<1>5. ports' = ports /\ fs' = f /\ opened' = open
  BY DEF SetObjects
<1>6. \A p : Owns(p)' => Owns(p)
  <2>1. /\ fs'.registered \subseteq fs.registered /\ fs'.cache \subseteq fs.cache
        /\ opened' \subseteq opened
        /\ \A o \in Objects, pair \in Pairs :
             /\ ports'[o][pair].topology \in {NoPort, ports[o][pair].topology}
             /\ ports'[o][pair].wave \in {NoPort, ports[o][pair].wave}
    BY <1>5
  <2> QED BY <2>1, OwnsLess
<1>7. /\ RefsInv' /\ OwnInv' /\ LiveInv'
      /\ state' \in [Objects -> States]
      /\ link' \in [Objects -> Links \union {NoLink}]
      /\ refs' \in [Objects -> Int]
      /\ \A p \in Objects : Live(p)' => Live(p) /\ link'[p] = link[p]
      /\ \A p \in Objects : Live(p)' => link'[p] \in Links
  BY <1>2, <1>3, <1>4, <1>6, Released
<1>8. ObjectTypes'
  BY <1>5, <1>7 DEF DeviceInv, ObjectTypes, States, Filters
<1>9. PlaceInv'
  BY <1>1, <1>2 DEF DeviceInv, PlaceInv
<1>10. LinkInv'
  <2>1. \A a, b : Before(a, b) => Before(a, b)'
    BY <1>1, <1>2 DEF Before
  <2> QED BY <1>7, <2>1, LinksKept DEF DeviceInv
<1>11. FilterInv'
  <2>1. \A p \in Objects : Live(p) => Live(p)'
    BY <1>2, <1>7 DEF DeviceInv, LiveInv, Present
  <2>2. ASSUME NEW o \in Objects, NEW pair \in Pairs
        PROVE  /\ ports[o][pair].topology \in
                    {NoPort, Port(o, FilterName(o, pair)', "Topology")}
               /\ ports[o][pair].wave \in
                    {NoPort, Port(o, FilterName(o, pair)', "Wave")}
    <3>1. CASE ports[o] = NoPorts
      BY <3>1 DEF NoPorts
    <3>2. CASE ports[o] # NoPorts
      <4>1. link'[o] = link[o]
        BY <1>7, <2>1, <3>2 DEF DeviceInv, FilterInv
      <4>2. FilterName(o, pair)' = FilterName(o, pair)
        BY <4>1 DEF FilterName
      <4> QED BY <4>2 DEF DeviceInv, FilterInv
    <3> QED BY <3>1, <3>2
  <2>3. FilterInv
    BY DEF DeviceInv
  <2>4. fs'.registered = fs.registered /\ fs'.connected = fs.connected
        /\ fs'.cache \subseteq fs'.registered
    BY <1>5, <2>3 DEF FilterInv
  <2> QED BY <1>1, <1>2, <1>5, <2>1, <2>2, <2>3, <2>4 DEF FilterInv
<1>12. ListInv'
  BY DEF ListInv
<1> QED BY <1>7, <1>8, <1>9, <1>10, <1>11, <1>12 DEF DeviceInv

LEMMA DeviceClose ==
  ASSUME DeviceInv, NEW p, CloseFile(p)
  PROVE  DeviceInv'
<1>1. /\ UNCHANGED <<devices, tasks, notifier, worker>> /\ enabled' = enabled
      /\ SetObjects(state, refs, ports, fs, opened \ {p})
  BY DEF CloseFile, adapterVars
<1>2. Filters(fs) /\ (~enabled' => devices = <<>>)
  BY <1>1 DEF DeviceInv, ObjectTypes, ListInv, Filters
<1> QED BY <1>1, <1>2, PortsGo

LEMMA DeviceCleanupEmpty ==
  ASSUME AdapterInv, DeviceInv, CleanupEmpty
  PROVE  DeviceInv' /\ devices = <<>>
<1>1. /\ UNCHANGED <<devices, tasks, notifier, worker>>
      /\ SetObjects(state, refs, ports, EmptySubdeviceCache(fs), opened)
  BY DEF CleanupEmpty
<1>2. devices = <<>>
  BY DEF CleanupEmpty, AdapterInv, OrderInv, DeviceInv, ListInv
<1>3. EmptySubdeviceCache(fs) = [registered |-> fs.registered, cache |-> {},
                                 connected |-> fs.connected]
  <2>1. ASSUME NEW f, Filters(f)
        PROVE  EmptySubdeviceCache(f) = [registered |-> f.registered, cache |-> {},
                                         connected |-> f.connected]
    BY <2>1 DEF Filters, EmptySubdeviceCache
  <2>2. Filters(fs)
    BY DEF DeviceInv, ObjectTypes, Filters
  <2> QED BY <2>1, <2>2
<1>4. /\ Filters(EmptySubdeviceCache(fs))
      /\ EmptySubdeviceCache(fs).registered = fs.registered
      /\ EmptySubdeviceCache(fs).connected = fs.connected
      /\ EmptySubdeviceCache(fs).cache \subseteq fs.cache
  BY <1>3 DEF Filters
<1> QED BY <1>1, <1>2, <1>4, PortsGo

\* When nothing is queued or in hand, an object is in the list or nowhere.
LEMMA AloneIsListed ==
  ASSUME AdapterInv, phase \notin {"Started", "Flush", "Empty"}
  PROVE  \A p : /\ ~Entering(p) /\ ~Notified("Remove", p)
                /\ \A a : ~Waits(a, p)
                /\ \A at \in Carrying : ~Works(at, p)
                /\ ~Starting(p) /\ ~InWork(p) /\ ~Leaving(p) /\ ~Unstarted(p)
                /\ Present(p) <=> Listed(p)
<1>1. /\ tasks = <<>>
      /\ \A n \in Notifiers : notifier[n] = Idle
      /\ \A w \in WorkerThreads : worker[w] = Idle
  BY DEF AdapterInv, TypeInv, OrderInv, Quiet
<1>2. \A at \in Carrying \union Hands : \A p : Idle # At(at, p)
  BY DEF Idle, At, Carrying, Hands
<1>3. \A a, p : ~Waits(a, p)
  BY <1>1, EmptySeq DEF Waits, Occurs
<1>4. \A at \in Hands : \A p : ~Notified(at, p)
  BY <1>1, <1>2 DEF Notified
<1>5. \A at \in Carrying : \A p : ~Works(at, p)
  BY <1>1, <1>2 DEF Works
<1>6. \A p : ~Entering(p) /\ ~Notified("Remove", p)
  BY <1>4 DEF Entering, Hands
<1> QED BY <1>3, <1>5, <1>6
        DEF Starting, InWork, Leaving, Unstarted, Present, Carrying

LEMMA DeviceCleanupDevice ==
  ASSUME AdapterInv, DeviceInv, CleanupDevice
  PROVE  DeviceInv'
<1>1. phase = "Drain" /\ devices # <<>> /\ devices \in Seq(Objects) /\ IsInjective(devices)
  BY DEF CleanupDevice, AdapterInv, TypeInv, DeviceInv, PlaceInv
<1>2. PICK o \in Objects : o = Head(devices)
  BY <1>1, HeadTailProperties
<1> DEFINE stopped == [state EXCEPT ![o] = "Stopped"]
           less == [refs EXCEPT ![o] = @ - 1]
<1>3. /\ SetObjects(stopped, less, [ports EXCEPT ![o] = NoPorts],
                    AfterStop(o), opened)
      /\ devices' = Tail(devices)
      /\ UNCHANGED <<phase, enabled, handle, workItem, tasks, notifier, worker>>
  BY <1>2 DEF CleanupDevice, adapterVars
<1>4. /\ stopped \in [Objects -> States] /\ stopped[o] = "Stopped"
      /\ \A p \in Objects : p # o => stopped[p] = state[p]
      /\ less \in [Objects -> Int] /\ less[o] = refs[o] - 1
      /\ \A p \in Objects : p # o => less[p] = refs[p]
  BY DEF DeviceInv, ObjectTypes, States
<1> HIDE DEF stopped, less
<1>5. \A p : /\ ~Entering(p) /\ ~Notified("Remove", p)
             /\ \A a : ~Waits(a, p)
             /\ \A at \in Carrying : ~Works(at, p)
             /\ ~Starting(p) /\ ~InWork(p) /\ ~Leaving(p) /\ ~Unstarted(p)
             /\ Present(p) <=> Listed(p)
  BY <1>1, AloneIsListed
<1>6. /\ \A a, p : Waits(a, p)' <=> Waits(a, p)
      /\ \A s, t : Precedes(tasks, s, t)' <=> Precedes(tasks, s, t)
      /\ \A at, p : Notified(at, p)' <=> Notified(at, p)
      /\ \A at, p : Works(at, p)' <=> Works(at, p)
      /\ IsInjective(tasks)'
  BY <1>3, SameTasks, SameNotifier, SameWorker DEF DeviceInv, PlaceInv
<1>7. IsInjective(devices)' /\ Listed(o) /\ \A p : Listed(p)' <=> Listed(p) /\ p # o
  <2>1. /\ IsInjective(Tail(devices)) /\ Occurs(devices, Head(devices))
        /\ \A p : Occurs(Tail(devices), p) <=> Occurs(devices, p) /\ p # Head(devices)
    BY <1>1, TailEntry
  <2>2. /\ IsInjective(devices') /\ Occurs(devices, o)
        /\ \A p : Occurs(devices', p) <=> Occurs(devices, p) /\ p # o
    BY <1>2, <1>3, <2>1
  <2> QED BY <2>2 DEF Listed
<1>8. \A p : /\ ~Starting(p)' /\ ~InWork(p)' /\ ~Leaving(p)' /\ ~Unstarted(p)'
             /\ ~Entering(p)' /\ ~Notified("Remove", p)'
             /\ ~Works("Start", p)' /\ ~Works("StartMic", p)' /\ ~Works("Stop", p)'
             /\ \A a : ~Waits(a, p)'
             /\ Present(p)' <=> Present(p) /\ p # o
  BY <1>5, <1>6, <1>7
     DEF Starting, InWork, Entering, Unstarted, Leaving, Present, Carrying
<1>9. \A p \in Objects : less[p] = Count(p)' /\ (Count(p)' > 0 => Count(p) > 0)
  <2>1. less[o] = Count(o)' /\ Count(o) > 0
    BY <1>4, <1>5, <1>7, <1>8 DEF DeviceInv, RefsInv, Count, One
  <2>2. ASSUME NEW p \in Objects, p # o
        PROVE  less[p] = Count(p)' /\ Count(p)' = Count(p)
    BY <1>4, <1>5, <1>7, <1>8, <2>2 DEF DeviceInv, RefsInv, Count, One
  <2> QED BY <2>1, <2>2
<1>10. /\ ports' = [ports EXCEPT ![o] = NoPorts] /\ fs' = AfterStop(o)
       /\ opened' = opened
  BY <1>3 DEF SetObjects
<1>11. /\ ports' = [b \in Objects |-> [pr \in Pairs |->
            [topology |-> ports'[b][pr].topology, wave |-> ports'[b][pr].wave]]]
       /\ Filters(fs')
       /\ \A p : Owns(p)' => Owns(p)
  BY <1>10, StoppedPorts
<1>12. state[o] # "Free"
  BY <1>7, PresentIsLive
<1>13. /\ RefsInv' /\ OwnInv' /\ LiveInv'
       /\ state' \in [Objects -> States]
       /\ link' \in [Objects -> Links \union {NoLink}]
       /\ refs' \in [Objects -> Int]
       /\ \A p \in Objects : Live(p)' => Live(p) /\ link'[p] = link[p]
       /\ \A p \in Objects : Live(p)' => link'[p] \in Links
  BY <1>3, <1>4, <1>8, <1>9, <1>11, <1>12, Released
<1>14. ObjectTypes'
  BY <1>11, <1>13 DEF ObjectTypes, States, Filters
<1>15. PlaceInv'
  BY <1>6, <1>7, <1>8 DEF PlaceInv
<1>16. LinkInv'
  <2>1. \A a, b : Before(a, b) => Before(a, b)'
    BY <1>5, <1>6 DEF Before, Carrying
  <2> QED BY <1>13, <2>1, LinksKept DEF DeviceInv
<1>17. FilterInv'
  <2>1. \A p \in Objects : p # o /\ Live(p) => Live(p)'
    BY <1>8, <1>13 DEF DeviceInv, LiveInv, Present
  <2>2. \A p \in Objects : p # o /\ ports[p] # NoPorts =>
          Live(p)' /\ ~Unstarted(p)' /\ link'[p] = link[p]
    BY <1>8, <1>13, <2>1 DEF DeviceInv, FilterInv
  <2>3. \A p : ~Works("Start", p)' /\ ~Works("StartMic", p)'
    BY <1>8
  <2> QED BY <1>10, <2>2, <2>3, StoppedFilters
<1>18. ListInv'
  BY <1>1, <1>3 DEF DeviceInv, ListInv
<1> QED BY <1>13, <1>14, <1>15, <1>16, <1>17, <1>18 DEF DeviceInv

LEMMA DeviceInit ==
  ASSUME Init
  PROVE  DeviceInv
<1>1. \A p : /\ ~Listed(p) /\ ~Waits("Start", p) /\ ~Waits("Stop", p)
             /\ ~Notified("Insert", p) /\ ~Notified("Remove", p)
             /\ \A at \in Carrying : ~Works(at, p)
  <2>1. \A at \in Carrying \union Hands : \A p : Idle # At(at, p)
    BY DEF Idle, At, Carrying, Hands
  <2>2. \A p : ~Listed(p) /\ ~Waits("Start", p) /\ ~Waits("Stop", p)
    BY EmptySeq DEF Init, Listed, Waits, Occurs
  <2>3. \A at \in Carrying \union Hands : \A p : ~Notified(at, p) /\ ~Works(at, p)
    BY <2>1 DEF Init, Notified, Works
  <2> QED BY <2>2, <2>3 DEF Hands
<1>2. \A p : /\ ~Entering(p) /\ ~Starting(p) /\ ~InWork(p) /\ ~Unstarted(p)
             /\ ~Leaving(p)
  BY <1>1 DEF Entering, Starting, InWork, Unstarted, Leaving, Carrying
<1>3. \A o \in Objects : ports[o] = NoPorts /\ state[o] = "Free" /\ refs[o] = 0
  BY DEF Init
<1>4. \A o : ~Owns(o)
  <2>1. \A p : p \notin Alive(fs, opened, ports)
    BY <1>3, AliveIs DEF Init, NoFilters, NoPorts
  <2> QED BY <2>1 DEF Owns
<1>5. ObjectTypes
  BY <1>3 DEF Init, ObjectTypes, NoPorts, NoFilters, Live
<1>6. PlaceInv
  BY <1>1, <1>2, EmptySeq DEF Init, PlaceInv, IsInjective, Carrying
<1>7. LiveInv /\ LinkInv
  BY <1>1, <1>2, <1>3 DEF LiveInv, LinkInv, Live
<1>8. RefsInv /\ OwnInv
  BY <1>1, <1>2, <1>3, <1>4 DEF RefsInv, OwnInv, Count, One
<1>9. FilterInv /\ ListInv
  BY <1>1, <1>3 DEF Init, FilterInv, ListInv, NoFilters, NoPorts, Carrying
<1> QED BY <1>5, <1>6, <1>7, <1>8, <1>9 DEF DeviceInv

LEMMA DeviceNext ==
  ASSUME OneThreadEach, NamesDistinct, AdapterInv, DeviceInv, [Next]_vars
  PROVE  DeviceInv'
<1>1. ASSUME NEW n \in Notifiers,
             \/ \E l \in Links : Arrival(n, l) \/ Removal(n, l)
             \/ ArrivalInsert(n) \/ RemovalQueue(n) \/ NoTask(n)
      PROVE  DeviceInv'
  BY <1>1, DeviceArrival, DeviceRemoval, DeviceArrivalInsert, DeviceRemovalQueue,
     DeviceNoTask
<1>2. ASSUME NEW w \in WorkerThreads, Worker(w)
      PROVE  DeviceInv'
  <2>1. CASE WorkerBegin(w) \/ WorkerReturn(w) \/ (WorkerFetch(w) /\ tasks = <<>>)
    BY <2>1, DeviceWorkerIdle
  <2>2. CASE WorkerFetch(w) /\ tasks # <<>>
    BY <2>2, DeviceFetch
  <2>3. CASE StartFails(w) \/ StartDone(w)
    BY <2>3, DeviceStartEnds
  <2>4. CASE StartSpeaker(w)
    BY <2>4, DeviceInstall DEF StartSpeaker, Pairs
  <2>5. CASE StartMic(w)
    BY <2>5, DeviceInstall DEF StartMic, Pairs
  <2>6. CASE Stop(w)
    BY <2>6, DeviceStop
  <2>7. CASE TaskRelease(w)
    BY <2>7, DeviceTaskRelease
  <2> QED BY <1>2, <2>1, <2>2, <2>3, <2>4, <2>5, <2>6, <2>7 DEF Worker
<1>3. CASE StartDevice \/ CleanupUnregister \/ CleanupFlush
  BY <1>3, DeviceStart
<1>4. CASE (\E p \in fs.registered : OpenFile(p)) \/ (\E p \in opened : CloseFile(p))
  BY <1>4, DeviceOpen, DeviceClose
<1>5. CASE CleanupDevice \/ CleanupEmpty
  BY <1>5, DeviceCleanupDevice, DeviceCleanupEmpty
<1>6. CASE UNCHANGED vars
  BY <1>6, DeviceStutter
<1> QED BY <1>1, <1>2, <1>3, <1>4, <1>5, <1>6 DEF Next

LEMMA DeviceInvariant ==
  ASSUME OneThreadEach, NamesDistinct
  PROVE  Spec => [](AdapterInv /\ DeviceInv)
<1>1. Init => DeviceInv
  BY DeviceInit
<1>2. AdapterInv /\ DeviceInv /\ [Next]_vars => DeviceInv'
  BY DeviceNext
<1> QED BY <1>1, <1>2, AdapterInvariant, PTL DEF Spec

-----------------------------------------------------------------------------
(***************************************************************************)
(* What the runs check.                                                    *)
(***************************************************************************)
LEMMA AtMostOne ==
  ASSUME NEW S, \A x, y \in S : x = y
  PROVE  IsFiniteSet(S) /\ Cardinality(S) = One(S # {})
<1>1. CASE S = {}
  BY <1>1, FS_EmptySet DEF One
<1>2. CASE S # {}
  <2>1. PICK x : S = {x}
    BY <1>2
  <2> QED BY <1>2, <2>1, FS_Singleton DEF One
<1> QED BY <1>1, <1>2

LEMMA TwoSets ==
  ASSUME NEW S, NEW T, \A x, y \in S : x = y, \A x, y \in T : x = y, S \cap T = {}
  PROVE  Cardinality(S \union T) = One(S # {}) + One(T # {})
<1>1. /\ IsFiniteSet(S) /\ Cardinality(S) = One(S # {})
      /\ IsFiniteSet(T) /\ Cardinality(T) = One(T # {})
  BY AtMostOne
<1>2. Cardinality(S \union T) = Cardinality(S) + Cardinality(T) - Cardinality(S \cap T)
  BY <1>1, FS_Union
<1>3. Cardinality(S \cap T) = 0
  BY FS_EmptySet
<1> QED BY <1>1, <1>2, <1>3 DEF One

\* The holders of an object are those the places count.
LEMMA HeldIsCount ==
  ASSUME OneThreadEach, AdapterInv, DeviceInv, NEW o \in Objects
  PROVE  Held(o) = Count(o)
<1>1. Cardinality({i \in DOMAIN devices : devices[i] = o}) = One(Listed(o))
  <2> DEFINE S == {i \in DOMAIN devices : devices[i] = o}
  <2>1. \A x, y \in S : x = y
    BY DEF DeviceInv, PlaceInv, IsInjective
  <2>2. S # {} <=> Listed(o)
    BY DEF Listed, Occurs
  <2> HIDE DEF S
  <2>3. Cardinality(S) = One(S # {})
    BY <2>1, AtMostOne
  <2> QED BY <2>2, <2>3 DEF S, One
<1>2. Cardinality({i \in DOMAIN tasks : tasks[i].object = o})
        = One(Waits("Start", o)) + One(Waits("Stop", o))
  <2> DEFINE S == {i \in DOMAIN tasks : tasks[i] = Task("Start", o)}
             T == {i \in DOMAIN tasks : tasks[i] = Task("Stop", o)}
  <2>1. (\A x, y \in S : x = y) /\ (\A x, y \in T : x = y)
    BY DEF DeviceInv, PlaceInv, IsInjective
  <2>2. S \cap T = {}
    BY TaskInjective
  <2>3. (S # {} <=> Waits("Start", o)) /\ (T # {} <=> Waits("Stop", o))
    BY DEF Waits, Occurs
  <2>4. {i \in DOMAIN tasks : tasks[i].object = o} = S \union T
    <3>1. \A i \in DOMAIN tasks : tasks[i] \in Tasks
      BY ElementOfSeq, LenProperties DEF AdapterInv, TypeInv
    <3>2. \A i \in DOMAIN tasks :
            tasks[i].object = o <=> tasks[i] \in {Task("Start", o), Task("Stop", o)}
      BY <3>1 DEF Tasks, Task
    <3> QED BY <3>2
  <2> HIDE DEF S, T
  <2>5. Cardinality(S \union T) = One(S # {}) + One(T # {})
    BY <2>1, <2>2, TwoSets
  <2> QED BY <2>3, <2>4, <2>5 DEF One
<1>3. Cardinality({n \in Notifiers : notifier[n].object = o})
        = One(Entering(o) \/ Notified("Remove", o))
  <2> DEFINE S == {n \in Notifiers : notifier[n].object = o}
  <2>1. \A x, y \in S : x = y
    BY DEF OneThreadEach
  <2>2. ASSUME NEW n \in Notifiers
        PROVE  notifier[n].object = o <=>
                 notifier[n] = At("Insert", o) \/ notifier[n] = At("Remove", o)
    <3>1. notifier[n] \in Notifying
      BY DEF AdapterInv, TypeInv
    <3> QED BY <3>1, NullAssumption DEF Notifying, Idle, At
  <2>3. S # {} <=> Entering(o) \/ Notified("Remove", o)
    BY <2>2 DEF Entering, Notified
  <2> HIDE DEF S
  <2>4. Cardinality(S) = One(S # {})
    BY <2>1, AtMostOne
  <2> QED BY <2>3, <2>4 DEF S, One
<1>4. Cardinality({w \in WorkerThreads : worker[w].object = o}) = One(InWork(o))
  <2> DEFINE S == {w \in WorkerThreads : worker[w].object = o}
  <2>1. \A x, y \in S : x = y
    BY DEF OneThreadEach
  <2>2. ASSUME NEW w \in WorkerThreads
        PROVE  worker[w].object = o <=> \E at \in Carrying : worker[w] = At(at, o)
    <3>1. worker[w] \in Working
      BY DEF AdapterInv, TypeInv
    <3>2. CASE worker[w] \in Running
      <4>1. worker[w].at \in Carrying
            /\ worker[w] = At(worker[w].at, worker[w].object)
        BY <3>2 DEF Running, At
      <4> QED BY <4>1, AtInjective
    <3>3. CASE worker[w] \in {Idle, At("Fetch", NoObject), At("Return", NoObject)}
      <4>1. Idle = At("Idle", NoObject) /\ \A at : At(at, NoObject).object = NoObject
        BY DEF Idle, At
      <4>2. worker[w].object = NoObject
        BY <3>3, <4>1
      <4>3. o # NoObject /\ \A at : At(at, o).object = o
        BY NullAssumption DEF At
      <4> QED BY <4>2, <4>3
    <3> QED BY <3>1, <3>2, <3>3 DEF Working
  <2>3. S # {} <=> \E at \in Carrying : Works(at, o)
    BY <2>2 DEF Works
  <2>4. InWork(o) <=> \E at \in Carrying : Works(at, o)
    BY DEF InWork, Starting, Carrying
  <2> HIDE DEF S
  <2>5. Cardinality(S) = One(S # {})
    BY <2>1, AtMostOne
  <2> QED BY <2>3, <2>4, <2>5 DEF S, One
<1> QED BY <1>1, <1>2, <1>3, <1>4 DEF Held, Count, One

\* "This is not the last ref", "This should be the last reference": whatever
\* the notifications, the tasks and the cleanup do to a device, its references
\* are those of its holders, and it is destroyed without a miniport.
THEOREM ReferencesAreCounted ==
  ASSUME OneThreadEach, NamesDistinct
  PROVE  Spec => []RefsCounted
<1>1. AdapterInv /\ DeviceInv => RefsCounted
  <2> SUFFICES ASSUME AdapterInv, DeviceInv, NEW o \in Objects
               PROVE  /\ refs[o] = Held(o)
                      /\ state[o] = "Free" =>
                           /\ refs[o] = 0
                           /\ \A p \in Alive(fs, opened, ports) : p.owner # o
    BY DEF RefsCounted
  <2>1. refs[o] = Held(o)
    BY HeldIsCount DEF DeviceInv, RefsInv
  <2> QED BY <2>1 DEF DeviceInv, OwnInv, Owns
<1> QED BY <1>1, DeviceInvariant, PTL

\* "Remove the topology and wave filters": no filter of a device outlives its
\* stop, and the work item never stops one that has filters without them.
THEOREM FiltersGoWithDevice ==
  ASSUME OneThreadEach, NamesDistinct
  PROVE  Spec => []FiltersFollowDevice
<1>1. DeviceInv => FiltersFollowDevice
  <2> SUFFICES ASSUME DeviceInv,
                      NEW p \in fs.registered
                                  \union UNION {{c[1], c[2]} : c \in fs.connected}
               PROVE  p.owner \in Objects => state[p.owner] \in {"Running", "Failed"}
    BY DEF FiltersFollowDevice
  <2>1. p # NoPort /\ \E o \in Objects, pair \in Pairs :
          p \in {ports[o][pair].topology, ports[o][pair].wave}
    <3>1. CASE p \in fs.registered
      BY <3>1 DEF DeviceInv, FilterInv
    <3>2. ASSUME NEW c \in fs.connected, p \in {c[1], c[2]}
          PROVE  p # NoPort /\ \E o \in Objects, pair \in Pairs :
                   p \in {ports[o][pair].topology, ports[o][pair].wave}
      <4>1. /\ c[1] # NoPort /\ c[2] # NoPort
            /\ \E o \in Objects, pair \in Pairs :
                 c = <<ports[o][pair].topology, ports[o][pair].wave>>
        BY DEF DeviceInv, FilterInv
      <4> QED BY <3>2, <4>1
    <3> QED BY <3>1, <3>2
  <2>2. PICK o \in Objects, pair \in Pairs :
          p \in {ports[o][pair].topology, ports[o][pair].wave}
    BY <2>1
  <2>3. p.owner = o /\ ports[o] # NoPorts
    BY <2>1, <2>2 DEF DeviceInv, FilterInv, Port, NoPorts
  <2> QED BY <2>3 DEF DeviceInv, FilterInv, Live
<1> QED BY <1>1, DeviceInvariant, PTL

\* The cache never offers a filter that is not registered, or two for a name,
\* when an interface goes and comes again.
THEOREM CacheIsCurrent ==
  ASSUME OneThreadEach, NamesDistinct
  PROVE  Spec => []CacheCurrent
<1>1. DeviceInv => CacheCurrent
  <2> SUFFICES ASSUME DeviceInv, NEW p \in fs.cache
               PROVE  /\ p \in fs.registered
                      /\ \A q \in fs.cache : SameName(p, q) => p = q
    BY DEF CacheCurrent
  <2>1. p \in fs.registered /\ \A q \in fs.cache : q \in fs.registered
    BY DEF DeviceInv, FilterInv
  <2>2. ASSUME NEW q \in fs.registered, SameName(p, q) PROVE p = q
    <3>1. p # NoPort /\ q # NoPort
          /\ (\E o \in Objects, pair \in Pairs :
                p \in {ports[o][pair].topology, ports[o][pair].wave})
          /\ \E o \in Objects, pair \in Pairs :
               q \in {ports[o][pair].topology, ports[o][pair].wave}
      BY <2>1 DEF DeviceInv, FilterInv
    <3>2. PICK a \in Objects, pa \in Pairs : p \in {ports[a][pa].topology, ports[a][pa].wave}
      BY <3>1
    <3>3. PICK b \in Objects, pb \in Pairs : q \in {ports[b][pb].topology, ports[b][pb].wave}
      BY <3>1
    <3>4. /\ Live(a) /\ ~Unstarted(a) /\ link[a] \in Links
          /\ Live(b) /\ ~Unstarted(b) /\ link[b] \in Links
      <4>1. ports[a] # NoPorts /\ ports[b] # NoPorts
        BY <3>1, <3>2, <3>3 DEF NoPorts
      <4> QED BY <4>1 DEF DeviceInv, FilterInv, ObjectTypes
    <3>5. /\ p.name = FilterName(a, pa) /\ p = Port(a, FilterName(a, pa), p.kind)
          /\ q.name = FilterName(b, pb) /\ q = Port(b, FilterName(b, pb), q.kind)
      BY <3>1, <3>2, <3>3 DEF DeviceInv, FilterInv, Port
    <3>6. p.kind = q.kind /\ FilterName(a, pa) = FilterName(b, pb)
      BY <2>2, <3>5 DEF SameName
    <3>7. link[a] = link[b]
      BY <3>4, <3>6 DEF FilterName, NamesDistinct
    <3>8. a = b
      <4>1. \A c, d : Precedes(tasks, Task("Stop", c), Task("Start", d)) => Unstarted(d)
        BY DEF Precedes, Unstarted, Waits, Occurs
      <4>2. ~Before(a, b) /\ ~Before(b, a)
        BY <3>4, <4>1 DEF Before, Unstarted
      <4> QED BY <3>4, <3>7, <4>2 DEF DeviceInv, LinkInv
    <3> QED BY <3>5, <3>6, <3>8
  <2> QED BY <2>1, <2>2
<1> QED BY <1>1, DeviceInvariant, PTL


\* "We are the only thread accessing this list": the cleanup finds nothing
\* queued or in hand, and of what was installed it leaves only objects that
\* open files keep.
THEOREM CleanupLeavesNothing ==
  ASSUME OneThreadEach, NamesDistinct
  PROVE  Spec => []CleanupComplete
<1> DEFINE DownInv == phase = "Down" => devices = <<>>
<1>1. AdapterInv /\ DeviceInv /\ DownInv => CleanupComplete
  <2> SUFFICES ASSUME AdapterInv, DeviceInv, DownInv
               PROVE  CleanupComplete
    OBVIOUS
  <2>1. phase \in {"Drain", "Down"} =>
          /\ tasks = <<>>
          /\ \A n \in Notifiers : notifier[n] = Idle
          /\ \A w \in WorkerThreads : worker[w] = Idle
    BY DEF AdapterInv, OrderInv, Quiet
  <2>2. ASSUME phase = "Down"
        PROVE  /\ devices = <<>> /\ fs = NoFilters
               /\ \A o \in Objects :
                    state[o] # "Free" => \E p \in opened : p.owner = o
    <3>1. devices = <<>>
      BY <2>2
    <3>2. \A p : ~Listed(p)
      BY <3>1, EmptySeq DEF Listed, Occurs
    <3>3. \A p : /\ ~Entering(p) /\ ~Notified("Remove", p)
                 /\ ~Waits("Start", p) /\ ~Waits("Stop", p)
                 /\ ~InWork(p) /\ ~Leaving(p)
      BY <2>2, AloneIsListed
    <3>4. \A o \in Objects : ~Live(o) /\ refs[o] = 0 /\ ports[o] = NoPorts
      BY <3>2, <3>3 DEF DeviceInv, LiveInv, RefsInv, Count, One, FilterInv
    <3>5. fs.registered = {} /\ fs.cache = {} /\ fs.connected = {}
      <4>1. \A o \in Objects, pair \in Pairs :
              ports[o][pair].topology = NoPort /\ ports[o][pair].wave = NoPort
        BY <3>4 DEF NoPorts
      <4> QED BY <4>1 DEF DeviceInv, FilterInv
    <3>6. fs = NoFilters
      <4>1. fs = [registered |-> fs.registered, cache |-> fs.cache,
                  connected |-> fs.connected]
        BY DEF DeviceInv, ObjectTypes
      <4> QED BY <3>5, <4>1 DEF NoFilters
    <3>7. ASSUME NEW o \in Objects, state[o] # "Free"
          PROVE  \E p \in opened : p.owner = o
      <4>1. PICK p \in Alive(fs, opened, ports) : p.owner = o
        BY <3>4, <3>7 DEF DeviceInv, OwnInv, Owns
      <4>2. p \in opened
        BY <3>4, <3>5, <4>1, AliveIs DEF NoPorts
      <4> QED BY <4>1, <4>2
    <3> QED BY <3>1, <3>6, <3>7
  <2> QED BY <2>1, <2>2 DEF CleanupComplete
<1>2. Init => DownInv
  BY DEF Init
<1>3. AdapterInv /\ DeviceInv /\ DownInv /\ [Next]_vars => DownInv'
  <2> SUFFICES ASSUME AdapterInv, DeviceInv, DownInv, [Next]_vars, phase' = "Down"
               PROVE  devices' = <<>>
    OBVIOUS
  <2>1. CASE CleanupEmpty
    BY <2>1, DeviceCleanupEmpty DEF CleanupEmpty
  <2>2. CASE ~CleanupEmpty
    <3>1. phase = "Down" /\ ~enabled /\ ~handle
      <4>1. phase' = phase \/ StartDevice \/ CleanupUnregister \/ CleanupFlush
        BY <2>2, WorkerStep
           DEF Next, Arrival, Removal, ArrivalInsert, RemovalQueue, NoTask,
               OpenFile, CloseFile, CleanupDevice, vars, adapterVars
      <4>2. phase = "Down"
        BY <4>1 DEF StartDevice, CleanupUnregister, CleanupFlush
      <4> QED BY <4>2 DEF AdapterInv, OrderInv
    <3>2. devices = <<>>
      BY <3>1
    <3>3. ASSUME NEW n \in Notifiers, ArrivalInsert(n) \/ RemovalQueue(n)
          PROVE  FALSE
      BY <3>1, <3>3, HandInOrder DEF ArrivalInsert, RemovalQueue, AdapterInv
    <3>4. UNCHANGED devices
      BY <2>2, <3>1, <3>3, WorkerStep
         DEF Next, Arrival, Removal, NoTask, OpenFile, CloseFile, StartDevice,
             CleanupUnregister, CleanupFlush, CleanupDevice, vars
    <3> QED BY <3>2, <3>4
  <2> QED BY <2>1, <2>2
<1> HIDE DEF DownInv
<1> QED BY <1>1, <1>2, <1>3, DeviceInvariant, PTL DEF Spec

=============================================================================
