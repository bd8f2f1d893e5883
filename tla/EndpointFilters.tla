-------------------------- MODULE EndpointFilters ---------------------------
(***************************************************************************)
(* Endpoint filters and the subdevice cache of CAdapterCommon              *)
(* (src/audio/sysvad/common.cpp).  A filter pair is a topology and a wave  *)
(* port; InstallEndpointFilters takes each from the cache or installs and  *)
(* caches it, and connects the two; any call it makes may fail.            *)
(*                                                                         *)
(* fs is the state of the filters: a record of                             *)
(*   registered  ports PcRegisterSubdevice knows,                          *)
(*   cache       m_SubdeviceCache: ports to be found again by their names, *)
(*   connected   pairs of ports with a physical connection.                *)
(* The operators return what such a state may become.                      *)
(***************************************************************************)
CONSTANT NoPort   \* a NULL port

\* The port of a kind that an owner installs for the filter pair of a name.
Port(owner, name, kind) == [owner |-> owner, name |-> name, kind |-> kind]

\* The names under which two ports are registered and cached are the same.
SameName(p, q) == p.name = q.name /\ p.kind = q.kind

NoFilters == [registered |-> {}, cache |-> {}, connected |-> {}]

GetCachedSubdevice(fs, port) == {q \in fs.cache : SameName(q, port)}

RemoveCachedSubdevice(fs, port) ==
  [fs EXCEPT !.cache = @ \ GetCachedSubdevice(fs, port)]

CacheSubdevice(fs, port) == [fs EXCEPT !.cache = @ \union {port}]

\* InstallSubdevice; a name that is in use cannot be registered again.
MayInstall(fs, port) == ~ \E q \in fs.registered : SameName(q, port)

InstallSubdevice(fs, port) == [fs EXCEPT !.registered = @ \union {port}]

UnregisterSubdevice(fs, port) == [fs EXCEPT !.registered = @ \ {port}]

\* One of the two filters of InstallEndpointFilters: found, or installed with
\* what its installation and its caching may give.
Obtain(fs, port) ==
  LET Got(q, created, ok, after) ==
        [port |-> q, created |-> created, ok |-> ok, fs |-> after]
      installed == InstallSubdevice(fs, port)
  IN  IF GetCachedSubdevice(fs, port) # {}
      THEN {Got(q, FALSE, TRUE, fs) : q \in GetCachedSubdevice(fs, port)}
      ELSE {Got(NoPort, TRUE, FALSE, fs)} \union
           (IF MayInstall(fs, port)
            THEN {Got(port, TRUE, TRUE, CacheSubdevice(installed, port)),
                  Got(port, TRUE, FALSE, installed)}
            ELSE {})

\* A bug to be caught: what was registered is undone, what was cached is not.
Bug_UndoCreated(fs, got) ==
  IF got.created /\ got.port # NoPort
  THEN UnregisterSubdevice(fs, got.port) ELSE fs

\* On failure, what this call has created is taken back.
UndoCreated(fs, got) ==
  IF got.created /\ got.port # NoPort
  THEN RemoveCachedSubdevice(UnregisterSubdevice(fs, got.port), got.port)
  ELSE fs

\* ConnectTopologies.
Connect(fs, topology, wave) ==
  [fs EXCEPT !.connected = @ \union {<<topology, wave>>}]

\* The status is that of the connection, or of the wave filter if one of the
\* two is missing; that of the topology filter alone does not count.
InstallEndpointFilters(fs, owner, name) ==
  LET Succeeded(t, w, after) ==
        [ok |-> TRUE, topology |-> t.port, wave |-> w.port, fs |-> after]
      Failed(t, w, after) ==
        [ok |-> FALSE, topology |-> NoPort, wave |-> NoPort,
         fs |-> UndoCreated(UndoCreated(after, t), w)]
      Outcomes(t, w) ==
        IF t.port # NoPort /\ w.port # NoPort
        THEN {Succeeded(t, w, Connect(w.fs, t.port, w.port)),
              Failed(t, w, w.fs)}
        ELSE {IF w.ok THEN Succeeded(t, w, w.fs) ELSE Failed(t, w, w.fs)}
  IN  UNION {UNION {Outcomes(t, w) : w \in Obtain(t.fs, Port(owner, name, "Wave"))}
               : t \in Obtain(fs, Port(owner, name, "Topology"))}

\* A filter pointer that is NULL is skipped, its name is not.
RemoveEndpointFilters(fs, name, topology, wave) ==
  LET unlinked == [fs EXCEPT !.connected = @ \ {<<topology, wave>>}]
      Uncached(f, kind) == [f EXCEPT !.cache =
                              {p \in @ : p.name # name \/ p.kind # kind}]
  IN  UnregisterSubdevice(
        Uncached(UnregisterSubdevice(Uncached(unlinked, "Wave"), wave),
                 "Topology"),
        topology)

EmptySubdeviceCache(fs) == [fs EXCEPT !.cache = {}]
=============================================================================
