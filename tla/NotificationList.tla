-------------------------- MODULE NotificationList --------------------------
(***************************************************************************)
(* m_NotificationList of CMiniportWaveRTStream: the client registers and   *)
(* unregisters events at PASSIVE_LEVEL without a lock, and the timer DPC,  *)
(* under m_PositionSpinLock, walks the list on another processor and sets  *)
(* every event (src/audio/sysvad/EndpointsCommon/minwavertstream.cpp).     *)
(*                                                                         *)
(* The walk follows Flink only, so the list is its Flinks.  Entries are    *)
(* pool memory: what an entry holds once it is freed is anything the next  *)
(* owner of the memory wrote there.  The port driver makes one call of the *)
(* client at a time.                                                       *)
(***************************************************************************)
EXTENDS Integers

CONSTANTS
  Events,              \* the clients' events (KEVENT)
  Entries,             \* the pool memory of NotificationListEntry
  Head                 \* m_NotificationList itself

ASSUME NotificationAssumption == Head \notin Entries

VARIABLES
  flink,      \* ListEntry.Flink of the head and of each entry
  event,      \* NotificationEvent of each entry
  allocated,  \* the entries that are allocated
  listPc,     \* where the client is in its call
  held,       \* the entry the client works on, Head for none
  walking,    \* the DPC is in its loop
  cursor,     \* leCurrent, Head outside the loop
  signalled,  \* history: how often this walk set each event
  due,        \* history: the events registered when this walk began
  overlapped  \* history: a call that unregisters an event overlapped this walk

listClientVars == <<allocated, listPc, held>>
walkVars   == <<walking, cursor, signalled, due, overlapped>>
listVars == <<flink, event, listClientVars, walkVars>>

Places == Entries \union {Head}

ListInit ==
  /\ flink = [p \in Places |-> Head]
  /\ event \in [Entries -> Events]
  /\ allocated = {}
  /\ listPc = "Idle"
  /\ held = Head
  /\ walking = FALSE
  /\ cursor = Head
  /\ signalled = [e \in Events |-> 0]
  /\ due = {}
  /\ overlapped = FALSE

\* The places that the links f lead to, from a place on up to the head: the
\* smallest set that holds the place and what its members link to.
Reached(f, place) ==
  {p \in Places : \A S \in SUBSET Places :
     place \in S /\ (\A q \in S \ {Head} : f[q] \in S) => p \in S}

\* The entries on the list, and the events they hold.
Listed == Reached(flink, flink[Head]) \ {Head}
Registered == {event[n] : n \in Listed}

\* The place whose Flink is p: the last entry for the head (Blink).
Before(p) == CHOOSE q \in Listed \union {Head} : flink[q] = p

-----------------------------------------------------------------------------
\* A bug to be caught: an event may be registered twice.
Bug_MayRegister(e) == TRUE

\* "Fail if the notification event already exists in our list."
MayRegister(e) == e \notin Registered

\* RegisterNotificationEvent: the entry is allocated and filled ...
Register(e) ==
  /\ listPc = "Idle"
  /\ MayRegister(e)
  /\ \E n \in Entries \ allocated :
       /\ allocated' = allocated \union {n}
       /\ event' = [event EXCEPT ![n] = e]
       /\ flink' = [flink EXCEPT ![n] = Head]
       /\ held' = n
  /\ listPc' = "Insert"
  /\ UNCHANGED walkVars

\* ... and put at the tail.
RegisterInsert ==
  /\ listPc = "Insert"
  /\ flink' = [flink EXCEPT ![Before(Head)] = held]
  /\ held' = Head
  /\ listPc' = "Idle"
  /\ UNCHANGED <<event, allocated, walkVars>>

\* A bug to be caught: the entry is freed without being taken off the list.
Bug_Unlinked(n) == flink

\* RemoveEntryList; the entry itself keeps its link.
Unlinked(n) == [flink EXCEPT ![Before(n)] = flink[n]]

\* UnregisterNotificationEvent: the entry is taken off the list ...
Unregister(e) ==
  /\ listPc = "Idle"
  /\ \E n \in Listed :
       /\ event[n] = e
       /\ flink' = Unlinked(n)
       /\ held' = n
  /\ listPc' = "Free"
  /\ overlapped' = (overlapped \/ walking)
  /\ UNCHANGED <<event, allocated, walking, cursor, signalled, due>>

\* ... and freed.
UnregisterFree ==
  /\ listPc = "Free"
  /\ allocated' = allocated \ {held}
  /\ held' = Head
  /\ listPc' = "Idle"
  /\ UNCHANGED <<flink, event, walkVars>>

-----------------------------------------------------------------------------
\* The DPC of a completed packet finds the list not empty and starts its loop.
WalkBegin ==
  /\ ~walking
  /\ flink[Head] # Head
  /\ walking' = TRUE
  /\ cursor' = flink[Head]
  /\ signalled' = [e \in Events |-> 0]
  /\ due' = Registered
  /\ overlapped' = (listPc = "Free")
  /\ UNCHANGED <<flink, event, listClientVars>>

\* A bug to be caught: the loop ends before the last entry.
Bug_LoopDone(place) == place = Head \/ flink[place] = Head

LoopDone(place) == place = Head

\* Two stands for every number of times above one.
Twice(count) == IF count > 2 THEN 2 ELSE count

\* A bug to be caught: the loop starts over instead of going on.
Bug_NextPlace(place) == flink[Head]

NextPlace(place) == flink[place]

\* KeSetEvent and the step to the next entry.  A freed entry may hold anything.
WalkStep ==
  /\ walking
  /\ ~LoopDone(cursor)
  /\ IF cursor \in allocated
     THEN /\ signalled' = [signalled EXCEPT ![event[cursor]] = Twice(@ + 1)]
          /\ cursor' = NextPlace(cursor)
     ELSE /\ cursor' \in Places
          /\ UNCHANGED signalled
  /\ UNCHANGED <<flink, event, listClientVars, walking, due, overlapped>>

WalkEnd ==
  /\ walking
  /\ LoopDone(cursor)
  /\ walking' = FALSE
  /\ cursor' = Head
  /\ overlapped' = FALSE
  /\ UNCHANGED <<flink, event, listClientVars, signalled, due>>

ListNext ==
  \/ \E e \in Events : Register(e) \/ Unregister(e)
  \/ RegisterInsert \/ UnregisterFree
  \/ WalkBegin \/ WalkStep \/ WalkEnd

ListSpec == ListInit /\ [][ListNext]_listVars

\* The DPC's loop runs on.
ListFairSpec == ListSpec /\ WF_listVars(WalkStep) /\ WF_listVars(WalkEnd)

-----------------------------------------------------------------------------
\* Every variable has its type.
ListTypeOK ==
  /\ flink \in [Places -> Places]
  /\ event \in [Entries -> Events]
  /\ allocated \subseteq Entries
  /\ listPc \in {"Idle", "Insert", "Free"}
  /\ held \in Places
  /\ walking \in BOOLEAN
  /\ cursor \in Places
  /\ signalled \in [Events -> 0 .. 2]
  /\ due \subseteq Events
  /\ overlapped \in BOOLEAN

\* The list holds allocated entries, every event at most once; an entry a
\* client still works on is not among them before it is put there.
ListOK ==
  /\ ListTypeOK
  /\ Listed \subseteq allocated
  /\ held \notin Listed
  /\ \A m, n \in Listed : event[m] = event[n] => m = n

\* Each buffer completion sets every event that was registered when the walk
\* began, and no event twice, whatever is registered behind the DPC's back and
\* was unregistered behind that of an earlier walk.
WalkSignalsAll ==
  [][walking /\ ~walking' /\ ~overlapped =>
       /\ \A e \in due : signalled[e] = 1
       /\ \A e \in Events : signalled[e] <= 1]_listVars

\* The loop of the DPC, which runs at DISPATCH_LEVEL under the spin lock, ends
\* unless an event is unregistered meanwhile.
WalkEnds == walking ~> ~walking \/ overlapped

\* "a protected list": the DPC never stands on an entry that was freed.
CursorOnEntry == cursor \in allocated \union {Head}

\* Unregistering during a walk strands the DPC in freed memory in one way only:
\* the client frees the very entry the DPC stands on.  Entries ahead of it and
\* behind it may be taken off, freed and used again, and from an entry that is
\* off the list but not yet freed the DPC finds its way back.
OnlyFreeStrandsCursor ==
  [][CursorOnEntry /\ ~CursorOnEntry' => UnregisterFree /\ held = cursor]_listVars
=============================================================================
