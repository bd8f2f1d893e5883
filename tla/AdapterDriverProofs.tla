------------------------- MODULE AdapterDriverProofs ------------------------
(***************************************************************************)
(* Proofs about AdapterDriver, for any set of devices.                     *)
(*                                                                         *)
(* The devices that hold the adapter object are at most one, and the       *)
(* counter tells whether there is one.  That alone is not inductive: a     *)
(* device about to create the object must not have one from before, and    *)
(* the release of m_pCommon must find the object it counts out.            *)
(***************************************************************************)
EXTENDS AdapterDriver, FiniteSetTheorems, TLAPS

\* m_pCommon refers to the object, and nothing but m_pCommon and a file keeps
\* it; both are there only as long as PnP lets them.
ObjectHeld ==
  \A d \in Devices :
    /\ common[d] => adapter[d] /\ device[d] \in {"Started", "Failed"}
    /\ adapter[d] => common[d] \/ file[d]
    /\ file[d] => device[d] \in {"Started", "Gone"}

\* m_AdapterInstances is 1 as long as a device holds the object or an instance
\* is leaked, and 0 otherwise.
CounterExact ==
  /\ instanceLeaked => Holders = {} /\ adapterInstances = 1
  /\ ~instanceLeaked => adapterInstances = (IF Holders = {} THEN 0 ELSE 1)

AdapterInv == TypeOK /\ ObjectHeld /\ OneAdapter /\ CounterExact

-----------------------------------------------------------------------------
\* A set of devices of which any two are the same is empty or a singleton.
LEMMA HoldersSingle ==
  ASSUME OneAdapter, NEW d \in Holders
  PROVE  Holders = {d}
BY DEF OneAdapter

\* The invariant says what the counter is worth.
LEMMA CounterIsCardinality ==
  ASSUME AdapterInv
  PROVE  InstancesCounted
<1>1. CASE Holders = {}
  BY <1>1, FS_EmptySet DEF AdapterInv, CounterExact, InstancesCounted
<1>2. CASE Holders # {}
  <2>1. PICK d \in Holders : TRUE
    BY <1>2
  <2>2. Holders = {d}
    BY <2>1, HoldersSingle DEF AdapterInv
  <2>3. Cardinality(Holders) = 1
    BY <2>2, FS_Singleton
  <2> QED BY <1>2, <2>3 DEF AdapterInv, CounterExact, InstancesCounted
<1> QED BY <1>1, <1>2

-----------------------------------------------------------------------------
LEMMA AdapterInit == Init => AdapterInv
<1> SUFFICES ASSUME Init PROVE AdapterInv
  OBVIOUS
<1>1. TypeOK
  <2>1. adapterInstances \in 0 .. 1
    BY DEF Init
  <2>2. /\ device \in [Devices -> {"Absent", "Added", "Starting", "Started",
                                   "Failed", "Gone"}]
        /\ common \in [Devices -> BOOLEAN]
        /\ adapter \in [Devices -> BOOLEAN] /\ file \in [Devices -> BOOLEAN]
    BY DEF Init
  <2> QED BY <2>1, <2>2 DEF Init, TypeOK
<1>2. ObjectHeld
  BY DEF Init, ObjectHeld
<1>3. Holders = {}
  BY DEF Init, Holders
<1> QED BY <1>1, <1>2, <1>3 DEF AdapterInv, OneAdapter, CounterExact, Init

\* A step that leaves the object, its references and the devices alone.
LEMMA AdapterUntouched ==
  ASSUME AdapterInv, TypeOK', UNCHANGED deviceVars
  PROVE  AdapterInv'
BY DEF AdapterInv, ObjectHeld, OneAdapter, CounterExact, Holders, deviceVars,
       objectVars

\* A step that changes what PnP has done to a device that neither holds the
\* object nor is about to, before and after.
LEMMA AdapterOther ==
  ASSUME AdapterInv, TypeOK', NEW d \in Devices,
         UNCHANGED <<adapterInstances, common, adapter, file, instanceLeaked>>,
         device[d] # "Starting", ~adapter[d], ~file[d],
         NEW s, s # "Starting",
         device' = [device EXCEPT ![d] = s]
  PROVE  AdapterInv'
<1>1. Holders' = Holders
  BY DEF Holders, AdapterInv, TypeOK
<1>2. ObjectHeld'
  BY DEF ObjectHeld, AdapterInv, TypeOK
<1>3. OneAdapter' /\ CounterExact'
  BY <1>1 DEF AdapterInv, OneAdapter, CounterExact
<1> QED BY <1>2, <1>3 DEF AdapterInv

\* The object of a device goes and is counted out: it was the only one.
LEMMA AdapterDestroyed ==
  ASSUME AdapterInv, NEW d \in Devices, adapter[d], DestroyAdapter(d),
         device' \in [Devices -> {"Absent", "Added", "Starting", "Started",
                                  "Failed", "Gone"}],
         \A e \in Devices : device'[e] = "Starting" => device[e] = "Starting",
         device'[d] # "Starting",
         UNCHANGED instanceLeaked
  PROVE  Holders' = {} /\ adapterInstances' = 0 /\ OneAdapter' /\ CounterExact'
<1>1. d \in Holders
  BY DEF Holders
<1>2. Holders = {d}
  BY <1>1, HoldersSingle DEF AdapterInv
<1>3. ~instanceLeaked /\ adapterInstances = 1
  BY <1>1 DEF AdapterInv, CounterExact
<1>4. adapterInstances' = 0
  BY <1>3 DEF DestroyAdapter, InstancesAfterRelease
<1>5. Holders' = {}
  <2> SUFFICES ASSUME NEW e \in Devices, adapter'[e] \/ device'[e] = "Starting"
               PROVE  FALSE
    BY DEF Holders
  <2>1. e # d
    BY DEF DestroyAdapter, AdapterInv, TypeOK
  <2>2. adapter[e] \/ device[e] = "Starting"
    BY <2>1 DEF DestroyAdapter, AdapterInv, TypeOK
  <2> QED BY <1>2, <2>1, <2>2 DEF Holders
<1> QED BY <1>3, <1>4, <1>5 DEF OneAdapter, CounterExact

-----------------------------------------------------------------------------
\* Types.
LEMMA AdapterType ==
  ASSUME AdapterInv, [Next]_vars
  PROVE  TypeOK'
<1> USE DEF TypeOK
<1>1. CASE DriverEntry
  BY <1>1 DEF AdapterInv, DriverEntry, controlVars, deviceVars, objectVars
<1>2. ASSUME NEW d \in Devices, AddDevice(d) PROVE TypeOK'
  BY <1>2 DEF AdapterInv, AddDevice, CreateControlDevice, LinkWithoutDevice,
              driverVars, tableVars, objectVars
<1>3. ASSUME NEW d \in Devices, StartDevice(d) PROVE TypeOK'
  BY <1>3 DEF AdapterInv, StartDevice, driverVars, tableVars, controlVars,
              objectVars
<1>4. ASSUME NEW d \in Devices, CreateAdapter(d) PROVE TypeOK'
  BY <1>4 DEF AdapterInv, CreateAdapter, driverVars, tableVars, controlVars
<1>5. ASSUME NEW d \in Devices, OpenFile(d) PROVE TypeOK'
  BY <1>5 DEF AdapterInv, OpenFile, driverVars, tableVars, controlVars
<1>6. ASSUME NEW d \in Devices, DestroyAdapter(d), adapter[d]
      PROVE  /\ adapter' \in [Devices -> BOOLEAN]
             /\ adapterInstances' \in 0 .. 1
  <2>1. d \in Holders
    BY <1>6 DEF Holders
  <2>2. adapterInstances = 1
    BY <2>1 DEF AdapterInv, CounterExact
  <2> QED BY <1>6, <2>2 DEF AdapterInv, DestroyAdapter, InstancesAfterRelease
<1>7. ASSUME NEW d \in Devices, CloseFile(d) PROVE TypeOK'
  <2>1. adapter' \in [Devices -> BOOLEAN] /\ adapterInstances' \in 0 .. 1
    BY <1>6, <1>7 DEF CloseFile, AdapterInv
  <2> QED BY <1>7, <2>1 DEF AdapterInv, CloseFile, driverVars, tableVars,
                           controlVars
<1>8. ASSUME NEW d \in Devices, NEW next \in {"Added", "Gone", "Absent"},
             ReleaseAdapter(d, next)
      PROVE  TypeOK'
  <2>1. adapter' \in [Devices -> BOOLEAN] /\ adapterInstances' \in 0 .. 1
    <3>1. CASE common[d] /\ ~Referenced(d)
      BY <1>6, <1>8, <3>1 DEF ReleaseAdapter, AdapterInv, ObjectHeld
    <3>2. CASE ~(common[d] /\ ~Referenced(d))
      BY <1>8, <3>2 DEF ReleaseAdapter, AdapterInv
    <3> QED BY <3>1, <3>2
  <2> QED BY <1>8, <2>1 DEF AdapterInv, ReleaseAdapter, driverVars, tableVars,
                           controlVars
<1>9. CASE Unload
  <2>1. device' = device /\ common' = common /\ adapter' = adapter /\ file' = file
    BY <1>9 DEF Unload, objectVars
  <2>2. /\ registryPath' \in BOOLEAN /\ wdfDriver' \in BOOLEAN
        /\ controlDevice' \in BOOLEAN /\ link' \in BOOLEAN
    <3>1. CASE /\ registryPath' = FALSE /\ wdfDriver' = FALSE
               /\ UNCHANGED controlVars
      BY <3>1 DEF AdapterInv, controlVars
    <3>2. CASE /\ link' = FALSE /\ controlDevice' = FALSE
               /\ UNCHANGED <<registryPath, wdfDriver>>
      BY <3>2 DEF AdapterInv
    <3> QED BY <1>9, <3>1, <3>2 DEF Unload
  <2>3. adapterInstances' \in 0 .. 1
    BY <1>9 DEF Unload
  <2>4. /\ loaded' \in BOOLEAN /\ instanceLeaked' \in BOOLEAN
        /\ fileHandler' \in {"None", "PortCls", "AudioVolumeControl"}
        /\ unloadRoutine' \in {"None", "DriverUnload", "AudioVolumeControl_Unload"}
    BY <1>9 DEF Unload
  <2> QED BY <2>1, <2>2, <2>3, <2>4 DEF AdapterInv
<1>10. CASE UNCHANGED vars
  BY <1>10 DEF AdapterInv, vars, driverVars, tableVars, controlVars, deviceVars,
               objectVars
<1> QED BY <1>1, <1>2, <1>3, <1>4, <1>5, <1>7, <1>8, <1>9, <1>10
        DEF Next, StopDevice, SurpriseRemoval, RemoveDevice

\* PnP takes the device away or stops it.
LEMMA AdapterRelease ==
  ASSUME AdapterInv, TypeOK', NEW d \in Devices,
         NEW next \in {"Added", "Gone", "Absent"},
         device[d] # "Starting",
         file[d] => next = "Gone",
         ReleaseAdapter(d, next)
  PROVE  AdapterInv'
<1>1. ObjectHeld'
  BY DEF AdapterInv, ObjectHeld, ReleaseAdapter, DestroyAdapter, Referenced,
         TypeOK
<1>2. CASE common[d] /\ ~Referenced(d)
  <2>1. adapter[d] /\ DestroyAdapter(d)
    BY <1>2 DEF AdapterInv, ObjectHeld, ReleaseAdapter
  <2>2. OneAdapter' /\ CounterExact'
    BY <2>1, AdapterDestroyed DEF ReleaseAdapter, AdapterInv, TypeOK
  <2> QED BY <1>1, <2>2 DEF AdapterInv
<1>3. CASE ~(common[d] /\ ~Referenced(d))
  <2>1. UNCHANGED <<adapter, adapterInstances, instanceLeaked>>
    BY <1>3 DEF ReleaseAdapter
  <2>2. Holders' = Holders
    BY <2>1 DEF Holders, ReleaseAdapter, AdapterInv, TypeOK
  <2> QED BY <1>1, <2>1, <2>2 DEF AdapterInv, OneAdapter, CounterExact
<1> QED BY <1>2, <1>3

LEMMA AdapterNext == AdapterInv /\ [Next]_vars => AdapterInv'
<1> SUFFICES ASSUME AdapterInv, [Next]_vars PROVE AdapterInv'
  OBVIOUS
<1>t. TypeOK'
  BY AdapterType
<1>1. CASE DriverEntry
  BY <1>1, <1>t, AdapterUntouched DEF DriverEntry
<1>2. ASSUME NEW d \in Devices, AddDevice(d) PROVE AdapterInv'
  <2>1. ~adapter[d] /\ ~file[d]
    BY <1>2 DEF AddDevice, AdapterInv, ObjectHeld
  <2> QED BY <1>2, <1>t, <2>1, AdapterOther DEF AddDevice, objectVars
<1>3. ASSUME NEW d \in Devices, StartDevice(d) PROVE AdapterInv'
  <2>1. device[d] = "Added" /\ ~adapter[d] /\ ~file[d] /\ ~common[d]
    BY <1>3 DEF StartDevice, AdapterInv, ObjectHeld
  <2>2. CASE MayCreate
    <3>1. adapterInstances = 0 /\ Holders = {} /\ ~instanceLeaked
      BY <2>2 DEF MayCreate, AdapterInv, CounterExact
    <3>2. Holders' = {d}
      BY <1>3, <2>2, <3>1 DEF StartDevice, Holders, objectVars, AdapterInv, TypeOK
    <3>3. ObjectHeld'
      BY <1>3, <2>1, <2>2 DEF StartDevice, ObjectHeld, objectVars, AdapterInv, TypeOK
    <3> QED BY <1>3, <1>t, <2>2, <3>1, <3>2, <3>3
            DEF StartDevice, AdapterInv, OneAdapter, CounterExact
  <2>3. CASE ~MayCreate
    BY <1>3, <1>t, <2>1, <2>3, AdapterOther DEF StartDevice, objectVars
  <2> QED BY <2>2, <2>3
<1>4. ASSUME NEW d \in Devices, CreateAdapter(d) PROVE AdapterInv'
  <2>1. d \in Holders /\ ~adapter[d] /\ ~file[d] /\ ~common[d]
    BY <1>4 DEF CreateAdapter, Holders, AdapterInv, ObjectHeld
  <2>2. Holders = {d} /\ ~instanceLeaked /\ adapterInstances = 1
    BY <2>1, HoldersSingle DEF AdapterInv, CounterExact
  <2>3. CASE adapter' = [adapter EXCEPT ![d] = TRUE] /\ UNCHANGED instanceLeaked
    <3>1. Holders' = {d}
      <4>1. d \in Holders'
        BY <2>3 DEF Holders, AdapterInv, TypeOK
      <4>2. \A e \in Devices : e # d => e \notin Holders'
        BY <1>4, <2>2, <2>3 DEF Holders, CreateAdapter, AdapterInv, TypeOK
      <4> QED BY <4>1, <4>2 DEF Holders
    <3>2. common' = [common EXCEPT ![d] = TRUE] /\ device'[d] \in {"Started", "Failed"}
      BY <1>4, <2>2, <2>3 DEF CreateAdapter, AdapterInv, TypeOK
    <3>3. ObjectHeld'
      BY <1>4, <2>1, <2>3, <3>2 DEF CreateAdapter, ObjectHeld, AdapterInv, TypeOK
    <3> QED BY <1>4, <1>t, <2>2, <2>3, <3>1, <3>3
            DEF CreateAdapter, AdapterInv, OneAdapter, CounterExact
  <2>4. CASE instanceLeaked' = TRUE /\ UNCHANGED <<common, adapter>>
             /\ device' = [device EXCEPT ![d] = "Failed"]
    <3>1. Holders' = {}
      BY <2>1, <2>2, <2>4 DEF Holders, AdapterInv, TypeOK
    <3>2. ObjectHeld'
      BY <1>4, <2>1, <2>4 DEF CreateAdapter, ObjectHeld, AdapterInv, TypeOK
    <3> QED BY <1>4, <1>t, <2>2, <2>4, <3>1, <3>2
            DEF CreateAdapter, AdapterInv, OneAdapter, CounterExact
  <2> QED BY <1>4, <2>3, <2>4 DEF CreateAdapter
<1>5. ASSUME NEW d \in Devices, OpenFile(d) PROVE AdapterInv'
  <2>1. Holders' = Holders
    BY <1>5 DEF OpenFile, Holders
  <2>2. ObjectHeld'
    BY <1>5 DEF OpenFile, ObjectHeld, AdapterInv, TypeOK
  <2> QED BY <1>5, <1>t, <2>1, <2>2
          DEF OpenFile, AdapterInv, OneAdapter, CounterExact
<1>6. ASSUME NEW d \in Devices, CloseFile(d) PROVE AdapterInv'
  <2>1. ObjectHeld'
    BY <1>6 DEF CloseFile, DestroyAdapter, ObjectHeld, AdapterInv, TypeOK
  <2>2. CASE adapter[d] /\ ~common[d]
    <3>1. device[d] # "Starting"
      BY <1>6 DEF CloseFile, AdapterInv, ObjectHeld
    <3>2. OneAdapter' /\ CounterExact'
      BY <1>6, <2>2, <3>1, AdapterDestroyed DEF CloseFile, AdapterInv, TypeOK
    <3> QED BY <1>t, <2>1, <3>2 DEF AdapterInv
  <2>3. CASE ~(adapter[d] /\ ~common[d])
    <3>1. Holders' = Holders
      BY <1>6, <2>3 DEF CloseFile, Holders
    <3> QED BY <1>6, <1>t, <2>1, <2>3, <3>1
            DEF CloseFile, AdapterInv, OneAdapter, CounterExact
  <2> QED BY <2>2, <2>3
<1>7. ASSUME NEW d \in Devices, StopDevice(d) PROVE AdapterInv'
  BY <1>7, <1>t, AdapterRelease DEF StopDevice
<1>8. ASSUME NEW d \in Devices, SurpriseRemoval(d) PROVE AdapterInv'
  BY <1>8, <1>t, AdapterRelease DEF SurpriseRemoval
<1>9. ASSUME NEW d \in Devices, RemoveDevice(d) PROVE AdapterInv'
  BY <1>9, <1>t, AdapterRelease DEF RemoveDevice
<1>10. CASE Unload
  <2>1. Holders' = {}
    BY <1>10 DEF Unload, objectVars, Holders, AdapterInv, ObjectHeld
  <2>2. ObjectHeld'
    BY <1>10 DEF Unload, objectVars, ObjectHeld, AdapterInv
  <2> QED BY <1>10, <1>t, <2>1, <2>2
          DEF Unload, AdapterInv, OneAdapter, CounterExact
<1>11. CASE UNCHANGED vars
  BY <1>11, <1>t, AdapterUntouched DEF vars
<1> QED BY <1>1, <1>2, <1>3, <1>4, <1>5, <1>6, <1>7, <1>8, <1>9, <1>10, <1>11
        DEF Next

LEMMA AdapterInvariant == Spec => []AdapterInv
BY AdapterInit, AdapterNext, PTL DEF Spec

\* No two devices ever hold the adapter object, whatever starts and goes at
\* the same time and however long files are kept open.
THEOREM OneAdapterHolds == Spec => []OneAdapter
<1>1. AdapterInv => OneAdapter
  BY DEF AdapterInv
<1> QED BY <1>1, AdapterInvariant, PTL

\* m_AdapterInstances is the number of adapter objects, plus the one that a
\* failed allocation leaks.
THEOREM InstancesAreCounted == Spec => []InstancesCounted
<1>1. AdapterInv => InstancesCounted
  BY CounterIsCardinality
<1> QED BY <1>1, AdapterInvariant, PTL
=============================================================================
