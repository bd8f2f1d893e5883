-------------------------- MODULE SidebandAdapter ---------------------------
(***************************************************************************)
(* The sideband devices of the adapter object (Bluetooth HFP; USB and A2DP *)
(* are copies): interface arrivals and removals reported by the PnP        *)
(* manager, the list of devices, the queue of start and stop tasks, the    *)
(* work item that serves it, the endpoint filters the devices install, and *)
(* the cleanup when the adapter stops or goes                              *)
(* (src/audio/sysvad/common.cpp, adapter.cpp, BthhfpDevice.cpp).           *)
(*                                                                         *)
(* A step is what a thread does under m_BthHfpFastMutex, or one call of    *)
(* Start, of Stop or of the installation of a filter pair.  A device       *)
(* object is identified by the memory it is allocated in, which is used    *)
(* again.  refs counts the references the list, the tasks and the threads  *)
(* hold; each miniport of the device holds one more as long as its port    *)
(* exists.                                                                 *)
(***************************************************************************)
EXTENDS Integers, FiniteSets, SequencesExt, EndpointFilters

CONSTANTS
  Links,         \* symbolic links of sideband interfaces
  Objects,       \* memory for BthHfpDevice objects
  NameOf(_),     \* the hash of a link that filter names are made from
  Notifiers,     \* threads that deliver PnP notifications
  WorkerThreads, \* threads that may run the work item's callback at a time
  NoLink,        \* the link of memory that is not in use
  NoObject,      \* a NULL device
  MaxOpened      \* bound: files that clients have open at a time

Pairs == {"Speaker", "Mic"}

\* NULL is no object, no link and no port.
ASSUME NullAssumption ==
  /\ NoObject \notin Objects
  /\ NoLink \notin Links
  /\ \A o \in Objects, l \in Links, pair \in Pairs, kind \in {"Topology", "Wave"} :
       NoPort # Port(o, <<NameOf(l), pair>>, kind)

VARIABLES
  phase,       \* how far the adapter is in StartDevice and Cleanup
  enabled,     \* m_BthHfpEnableCleanup
  workItem,    \* m_BthHfpWorkItem is there, and has been enqueued
  handle,      \* m_BthHfpScoNotificationHandle
  devices,     \* m_BthHfpDevices
  tasks,       \* m_BthHfpWorkTasks
  notifier,    \* what each notification thread is about to do
  worker,      \* what each thread of the work item is about to do
  state,       \* m_State of each object, "Free" if there is none
  link,        \* m_SymbolicLinkName of each object
  refs,        \* references to each object, without those of miniports
  ports,       \* m_Unknown(Speaker|Mic)(Topology|Wave) of each object
  fs,          \* the endpoint filters of the adapter
  opened       \* ports with a file open on them

adapterVars == <<phase, enabled, handle>>
objectVars == <<state, link, refs, ports>>
filterVars == <<fs, opened>>
vars == <<adapterVars, workItem, devices, tasks, notifier, worker, objectVars,
          filterVars>>

NoPorts == [p \in Pairs |-> [topology |-> NoPort, wave |-> NoPort]]
NoWorkItem == [exists |-> FALSE, queued |-> FALSE]
Idle == [at |-> "Idle", object |-> NoObject]
At(where, o) == [at |-> where, object |-> o]

Init ==
  /\ phase = "Down"
  /\ enabled = FALSE
  /\ handle = FALSE
  /\ workItem = NoWorkItem
  /\ devices = <<>>
  /\ tasks = <<>>
  /\ notifier = [n \in Notifiers |-> Idle]
  /\ worker = [w \in WorkerThreads |-> Idle]
  /\ state = [o \in Objects |-> "Free"]
  /\ link = [o \in Objects |-> NoLink]
  /\ refs = [o \in Objects |-> 0]
  /\ ports = [o \in Objects |-> NoPorts]
  /\ fs = NoFilters
  /\ opened = {}

-----------------------------------------------------------------------------
\* The ports there are: registered, cached, pointed to by a device, or open.
Alive(filters, open, pointers) ==
  (filters.registered \union filters.cache \union open
    \union {pointers[o][p].topology : o \in Objects, p \in Pairs}
    \union {pointers[o][p].wave : o \in Objects, p \in Pairs}) \ {NoPort}

\* The objects and filters after a step; an object whose last reference the
\* step has dropped is destroyed.
SetObjects(newState, newRefs, newPorts, newFs, newOpened) ==
  LET alive == Alive(newFs, newOpened, newPorts)
      Dead(o) == newRefs[o] = 0 /\ \A p \in alive : p.owner # o
  IN  /\ state' = [o \in Objects |-> IF Dead(o) THEN "Free" ELSE newState[o]]
      /\ link' = [o \in Objects |-> IF Dead(o) THEN NoLink ELSE link[o]]
      /\ refs' = newRefs
      /\ ports' = newPorts
      /\ fs' = newFs
      /\ opened' = newOpened

AddRef(o) ==
  /\ refs' = [refs EXCEPT ![o] = @ + 1]
  /\ UNCHANGED <<state, link, ports, filterVars>>

Release(o) ==
  SetObjects(state, [refs EXCEPT ![o] = @ - 1], ports, fs, opened)

FilterName(o, pair) == <<NameOf(link[o]), pair>>

-----------------------------------------------------------------------------
\* StartDevice calls InitBthScoBypass if nothing has failed before; what
\* either leaves behind is kept with the adapter object.
StartDevice ==
  /\ phase = "Down"
  /\ phase' = "Started"
  /\ \/ UNCHANGED <<enabled, workItem, handle>>
     \/ /\ enabled' = TRUE
        /\ \E created, registered \in BOOLEAN :
             /\ registered => created
             /\ workItem' = [exists |-> created, queued |-> FALSE]
             /\ handle' = registered
  /\ UNCHANGED <<devices, tasks, notifier, worker, objectVars, filterVars>>

-----------------------------------------------------------------------------
\* The first device of the list with a link: BthHfpDeviceFind.
Found(l) == {i \in DOMAIN devices :
               /\ link[devices[i]] = l
               /\ \A j \in 1 .. i - 1 : link[devices[j]] # l}

\* BthHfpScoInterfaceArrival: the interface is new, and its device has been
\* created and initialised.  (When either fails nothing is left behind.)
Arrival(n, l) ==
  /\ handle
  /\ notifier[n] = Idle
  /\ Found(l) = {}
  /\ \E o \in Objects :
       /\ state[o] = "Free"
       /\ state' = [state EXCEPT ![o] = "Running"]
       /\ link' = [link EXCEPT ![o] = l]
       /\ refs' = [refs EXCEPT ![o] = 1]
       /\ notifier' = [notifier EXCEPT ![n] = At("Insert", o)]
  /\ UNCHANGED <<adapterVars, workItem, devices, tasks, worker, ports,
                 filterVars>>

\* A bug to be caught: the work item is scheduled "if not already running".
Bug_QueuedAfterEnqueue == \A w \in WorkerThreads : worker[w] = Idle

\* WdfWorkItemEnqueue; a work item whose callback runs is queued again.
QueuedAfterEnqueue == TRUE

QueueTask(action, o) ==
  /\ tasks' = Append(tasks, [action |-> action, object |-> o])
  /\ workItem' = [workItem EXCEPT !.queued = @ \/ QueuedAfterEnqueue]

\* A bug to be caught: the task goes without a reference of its own.
Bug_TaskRef(o) == UNCHANGED <<objectVars, filterVars>>

\* The reference that is released when the task has run.
TaskRef(o) == AddRef(o)

\* The device goes into the list and its start into the queue, ...
ArrivalInsert(n) ==
  LET o == notifier[n].object
  IN  /\ notifier[n].at = "Insert"
      /\ devices' = Append(devices, o)
      /\ QueueTask("Start", o)
      /\ TaskRef(o)
      /\ notifier' = [notifier EXCEPT ![n] = Idle]
      /\ UNCHANGED <<adapterVars, worker>>

\* BthHfpScoInterfaceRemoval: the device is found ...
Removal(n, l) ==
  /\ handle
  /\ notifier[n] = Idle
  /\ \E i \in Found(l) :
       /\ AddRef(devices[i])
       /\ notifier' = [notifier EXCEPT ![n] = At("Remove", devices[i])]
  /\ UNCHANGED <<adapterVars, workItem, devices, tasks, worker>>

\* RemoveEntryList; an entry that is not in the list is linked to itself.
Unlink(o) ==
  IF \E i \in DOMAIN devices : devices[i] = o
  THEN \E i \in DOMAIN devices :
         devices[i] = o /\ devices' = RemoveAt(devices, i)
  ELSE UNCHANGED devices

\* ... and leaves the list, which gives up its reference; the one taken when
\* it was found is now the task's, ...
RemovalQueue(n) ==
  LET o == notifier[n].object
  IN  /\ notifier[n].at = "Remove"
      /\ Unlink(o)
      /\ QueueTask("Stop", o)
      /\ Release(o)
      /\ notifier' = [notifier EXCEPT ![n] = Idle]
      /\ UNCHANGED <<adapterVars, worker>>

\* ... or, for either, there is no memory for the task: a new device is
\* destroyed, one that was found stays in the list.
NoTask(n) ==
  /\ notifier[n].at \in {"Insert", "Remove"}
  /\ Release(notifier[n].object)
  /\ notifier' = [notifier EXCEPT ![n] = Idle]
  /\ UNCHANGED <<adapterVars, workItem, devices, tasks, worker>>

-----------------------------------------------------------------------------
\* EvtBthHfpScoBypassInterfaceWorkItem: a thread begins the callback, ...
WorkerBegin(w) ==
  /\ workItem.queued
  /\ worker[w] = Idle
  /\ workItem' = [workItem EXCEPT !.queued = FALSE]
  /\ worker' = [worker EXCEPT ![w] = At("Fetch", NoObject)]
  /\ UNCHANGED <<adapterVars, devices, tasks, notifier, objectVars, filterVars>>

\* ... takes the first task, or leaves the loop, ...
WorkerFetch(w) ==
  /\ worker[w].at = "Fetch"
  /\ \/ /\ tasks = <<>>
        /\ worker' = [worker EXCEPT ![w] = At("Return", NoObject)]
        /\ UNCHANGED tasks
     \/ /\ tasks # <<>>
        /\ worker' = [worker EXCEPT ![w] = At(Head(tasks).action, Head(tasks).object)]
        /\ tasks' = Tail(tasks)
  /\ UNCHANGED <<adapterVars, workItem, devices, notifier, objectVars, filterVars>>

\* ... and returns.
WorkerReturn(w) ==
  /\ worker[w].at = "Return"
  /\ worker' = [worker EXCEPT ![w] = Idle]
  /\ UNCHANGED <<adapterVars, workItem, devices, tasks, notifier, objectVars,
                 filterVars>>

\* BthHfpDevice::Start fails before the first filter or after the last; what
\* it has installed stays.
StartFails(w) ==
  /\ worker[w].at \in {"Start", "StartNotify"}
  /\ state' = [state EXCEPT ![worker[w].object] = "Failed"]
  /\ worker' = [worker EXCEPT ![w].at = "Release"]
  /\ UNCHANGED <<adapterVars, workItem, devices, tasks, notifier, link, refs,
                 ports, filterVars>>

\* Start installs a filter pair.
StartInstall(w, pair, at, next) ==
  LET o == worker[w].object
  IN  /\ worker[w].at = at
      /\ \E r \in InstallEndpointFilters(fs, o, FilterName(o, pair)) :
           /\ fs' = r.fs
           /\ ports' = [ports EXCEPT ![o][pair] =
                          [topology |-> r.topology, wave |-> r.wave]]
           /\ \/ /\ r.ok
                 /\ worker' = [worker EXCEPT ![w].at = next]
                 /\ UNCHANGED state
              \/ /\ ~r.ok
                 /\ worker' = [worker EXCEPT ![w].at = "Release"]
                 /\ state' = [state EXCEPT ![o] = "Failed"]
      /\ UNCHANGED <<adapterVars, workItem, devices, tasks, notifier, link,
                     refs, opened>>

StartSpeaker(w) == StartInstall(w, "Speaker", "Start", "StartMic")
StartMic(w) == StartInstall(w, "Mic", "StartMic", "StartNotify")

\* Start has paired the endpoints and pended the status notifications.
StartDone(w) ==
  /\ worker[w].at = "StartNotify"
  /\ worker' = [worker EXCEPT ![w].at = "Release"]
  /\ UNCHANGED <<adapterVars, workItem, devices, tasks, notifier, objectVars,
                 filterVars>>

\* A bug to be caught: only a complete pair is removed.
Bug_HasFilters(pointer) == pointer.topology # NoPort /\ pointer.wave # NoPort

HasFilters(pointer) == pointer.topology # NoPort \/ pointer.wave # NoPort

\* What BthHfpDevice::Stop leaves of the filters of a pair.
Removed(filters, o, pair) ==
  LET pointer == ports[o][pair]
  IN  IF HasFilters(pointer)
      THEN RemoveEndpointFilters(filters, FilterName(o, pair),
                                 pointer.topology, pointer.wave)
      ELSE filters

AfterStop(o) == Removed(Removed(fs, o, "Speaker"), o, "Mic")

\* Stop, called by the work item.
Stop(w) ==
  LET o == worker[w].object
  IN  /\ worker[w].at = "Stop"
      /\ SetObjects([state EXCEPT ![o] = "Stopped"], refs,
                    [ports EXCEPT ![o] = NoPorts], AfterStop(o), opened)
      /\ worker' = [worker EXCEPT ![w].at = "Release"]
      /\ UNCHANGED <<adapterVars, workItem, devices, tasks, notifier>>

\* The task's reference is released.
TaskRelease(w) ==
  /\ worker[w].at = "Release"
  /\ Release(worker[w].object)
  /\ worker' = [worker EXCEPT ![w] = At("Fetch", NoObject)]
  /\ UNCHANGED <<adapterVars, workItem, devices, tasks, notifier>>

Worker(w) ==
  \/ WorkerBegin(w) \/ WorkerFetch(w) \/ WorkerReturn(w)
  \/ StartFails(w) \/ StartSpeaker(w) \/ StartMic(w) \/ StartDone(w)
  \/ Stop(w) \/ TaskRelease(w)

-----------------------------------------------------------------------------
\* Clients keep files open on filters; a port lives as long as its last file.
OpenFile(p) ==
  /\ p \in fs.registered
  /\ p.owner \in Objects
  /\ Cardinality(opened) < MaxOpened
  /\ opened' = opened \union {p}
  /\ UNCHANGED <<adapterVars, workItem, devices, tasks, notifier, worker,
                 objectVars, fs>>

CloseFile(p) ==
  /\ p \in opened
  /\ SetObjects(state, refs, ports, fs, opened \ {p})
  /\ UNCHANGED <<adapterVars, workItem, devices, tasks, notifier, worker>>

-----------------------------------------------------------------------------
\* Cleanup unregisters the notification, which waits for calls of it, ...
CleanupUnregister ==
  /\ phase = "Started"
  /\ \A n \in Notifiers : notifier[n] = Idle
  /\ phase' = IF enabled THEN "Flush" ELSE "Empty"
  /\ handle' = FALSE
  /\ UNCHANGED <<enabled, workItem, devices, tasks, notifier, worker,
                 objectVars, filterVars>>

\* A bug to be caught: a callback that runs is not waited for.
Bug_WorkItemFlushed == ~workItem.queued

WorkItemFlushed ==
  ~workItem.queued /\ \A w \in WorkerThreads : worker[w] = Idle

\* ... flushes and deletes the work item, ...
CleanupFlush ==
  /\ phase = "Flush"
  /\ WorkItemFlushed
  /\ workItem' = NoWorkItem
  /\ phase' = "Drain"
  /\ UNCHANGED <<enabled, handle, devices, tasks, notifier, worker,
                 objectVars, filterVars>>

\* ... stops and releases the devices that are left, ...
CleanupDevice ==
  LET o == Head(devices)
  IN  /\ phase = "Drain"
      /\ devices # <<>>
      /\ devices' = Tail(devices)
      /\ SetObjects([state EXCEPT ![o] = "Stopped"],
                    [refs EXCEPT ![o] = @ - 1],
                    [ports EXCEPT ![o] = NoPorts], AfterStop(o), opened)
      /\ UNCHANGED <<adapterVars, workItem, tasks, notifier, worker>>

\* ... and empties the cache; the adapter object is released.
CleanupEmpty ==
  /\ \/ phase = "Empty"
     \/ phase = "Drain" /\ devices = <<>>
  /\ SetObjects(state, refs, ports, EmptySubdeviceCache(fs), opened)
  /\ phase' = "Down"
  /\ enabled' = FALSE
  /\ UNCHANGED <<handle, workItem, devices, tasks, notifier, worker>>

Next ==
  \/ StartDevice
  \/ \E n \in Notifiers :
       \/ \E l \in Links : Arrival(n, l) \/ Removal(n, l)
       \/ ArrivalInsert(n) \/ RemovalQueue(n) \/ NoTask(n)
  \/ \E w \in WorkerThreads : Worker(w)
  \/ \E p \in fs.registered : OpenFile(p)
  \/ \E p \in opened : CloseFile(p)
  \/ CleanupUnregister \/ CleanupFlush \/ CleanupDevice \/ CleanupEmpty

Spec == Init /\ [][Next]_vars

-----------------------------------------------------------------------------
\* The references somebody holds to an object: its place in the list, tasks,
\* and threads that have it in hand.
Held(o) ==
  Cardinality({i \in DOMAIN devices : devices[i] = o})
    + Cardinality({i \in DOMAIN tasks : tasks[i].object = o})
    + Cardinality({n \in Notifiers : notifier[n].object = o})
    + Cardinality({w \in WorkerThreads : worker[w].object = o})

\* "This is not the last ref", "This should be the last reference": the count
\* of references is that of their holders, whoever adds and drops them, and an
\* object that is destroyed has neither a holder nor a miniport.
RefsCounted ==
  \A o \in Objects :
    /\ refs[o] = Held(o)
    /\ state[o] = "Free" =>
         refs[o] = 0 /\ \A p \in Alive(fs, opened, ports) : p.owner # o

\* "Remove the topology and wave filters": the filters of a device that was
\* started, or that failed half way, are gone once it is stopped or destroyed.
FiltersFollowDevice ==
  \A p \in fs.registered \union UNION {{c[1], c[2]} : c \in fs.connected} :
    p.owner \in Objects => state[p.owner] \in {"Running", "Failed"}

\* The cache is what an installation takes a filter from: it never offers one
\* that is not registered, or two for a name.
CacheCurrent ==
  \A p \in fs.cache :
    /\ p \in fs.registered
    /\ \A q \in fs.cache : SameName(p, q) => p = q

\* When the remaining devices are stopped "we are the only thread accessing
\* this list": nothing is queued or in hand, and in the end nothing is left
\* but objects that open files keep.
CleanupComplete ==
  /\ phase \in {"Drain", "Down"} =>
       /\ tasks = <<>>
       /\ \A n \in Notifiers : notifier[n] = Idle
       /\ \A w \in WorkerThreads : worker[w] = Idle
  /\ phase = "Down" =>
       /\ devices = <<>>
       /\ fs = NoFilters
       /\ \A o \in Objects : state[o] # "Free" => \E p \in opened : p.owner = o

\* "Add a new task for the worker thread": no task waits for a worker that
\* will not come; the one that is there has yet to look at the queue again.
TaskWillBeServed ==
  tasks # <<>> =>
    \/ workItem.queued
    \/ \E w \in WorkerThreads : worker[w].at \notin {"Idle", "Return"}

\* "ASSERT(m_State != eBthHfpStateRunning)": a device is not destroyed as long
\* as its state says that it is running.
DestroyedNotRunning ==
  [][\A o \in Objects : state'[o] = "Free" => state[o] # "Running"]_vars
=============================================================================
