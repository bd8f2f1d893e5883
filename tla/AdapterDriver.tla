--------------------------- MODULE AdapterDriver ---------------------------
(***************************************************************************)
(* The driver object of SysVAD and what hangs on it: the dispatch table,   *)
(* the devices of the adapter, the one CAdapterCommon object and the       *)
(* control device SysvadControl (src/audio/sysvad/adapter.cpp, common.cpp  *)
(* and TabletAudioSample/AudioVolumeControl/AudioControlCore.cpp).         *)
(*                                                                         *)
(* The PnP manager loads the driver, adds, starts, stops and removes       *)
(* devices in any order PnP allows and unloads the driver when no device   *)
(* is left.  AddDevice and the handling of a PnP IRP are one step each;    *)
(* StartDevice is cut at the creation of the adapter object, whose counter *)
(* devices that start at the same time compete for.  The object outlives   *)
(* m_pCommon while a file keeps a topology miniport, which refers to it:   *)
(* PnP stops and removes a device when its files are closed, but a         *)
(* surprise removal does not wait for them.                                *)
(***************************************************************************)
EXTENDS Integers, FiniteSets

CONSTANT Devices   \* the physical device objects AddDevice is called with

VARIABLES
  loaded,           \* DriverEntry succeeded and the driver is not unloaded
  registryPath,     \* g_RegistryPath.Buffer is allocated
  wdfDriver,        \* the WDF driver object exists
  fileHandler,      \* MajorFunction of CREATE, CLOSE and DEVICE_CONTROL
  unloadRoutine,    \* DriverUnload of the driver object
  controlDevice,    \* \Device\SysvadControl exists (g_VolumeControlDevice)
  link,             \* \??\SysvadControl exists
  device,           \* what PnP has done to each device
  adapterInstances, \* CAdapterCommon::m_AdapterInstances
  common,           \* m_pCommon of each device is set
  adapter,          \* the CAdapterCommon object of each device exists
  file,             \* a file is open on a filter of the device
  instanceLeaked    \* history: NewAdapterCommon found no memory

driverVars  == <<loaded, registryPath, wdfDriver>>
tableVars   == <<fileHandler, unloadRoutine>>
controlVars == <<controlDevice, link>>
objectVars  == <<common, adapter, file>>
deviceVars  == <<device, adapterInstances, objectVars, instanceLeaked>>
vars == <<driverVars, tableVars, controlVars, deviceVars>>

Init ==
  /\ loaded = FALSE
  /\ registryPath = FALSE
  /\ wdfDriver = FALSE
  /\ fileHandler = "None"
  /\ unloadRoutine = "None"
  /\ controlDevice = FALSE
  /\ link = FALSE
  /\ device = [d \in Devices |-> "Absent"]
  /\ adapterInstances = 0
  /\ common = [d \in Devices |-> FALSE]
  /\ adapter = [d \in Devices |-> FALSE]
  /\ file = [d \in Devices |-> FALSE]
  /\ instanceLeaked = FALSE

-----------------------------------------------------------------------------
\* DriverEntry; one that fails releases what it has allocated.
DriverEntry ==
  /\ ~loaded
  /\ loaded' = TRUE
  /\ registryPath' = TRUE
  /\ wdfDriver' = TRUE
  /\ fileHandler' = "PortCls"
  /\ unloadRoutine' = "DriverUnload"
  /\ UNCHANGED <<controlVars, deviceVars>>

\* IoDeleteSymbolicLink comes before the device is created.
LinkWithoutDevice == FALSE

\* AudioVolumeControl_CreateDeviceAndSymbolicLink.  IoCreateDevice fails when
\* the name is taken or memory is short; when the link fails the dispatch
\* table stays changed.
CreateControlDevice ==
  \/ /\ link' = LinkWithoutDevice
     /\ UNCHANGED <<controlDevice, tableVars>>
  \/ /\ ~controlDevice
     /\ fileHandler' = "AudioVolumeControl"
     /\ unloadRoutine' = "AudioVolumeControl_Unload"
     /\ \/ controlDevice' = TRUE /\ link' = TRUE
        \/ /\ controlDevice' = FALSE
           /\ link' = LinkWithoutDevice

\* AddDevice; its result is that of PcAddAdapterDevice.
AddDevice(d) ==
  /\ loaded
  /\ device[d] = "Absent"
  /\ device' = [device EXCEPT ![d] = "Added"]
  /\ CreateControlDevice
  /\ UNCHANGED <<driverVars, adapterInstances, objectVars, instanceLeaked>>

\* A bug to be caught: the instances are counted, not limited.
Bug_MayCreate == TRUE

\* InterlockedCompareExchange finds no instance.
MayCreate == adapterInstances = 0

\* NewAdapterCommon, called by StartDevice, reserves the instance ...
StartDevice(d) ==
  /\ device[d] = "Added"
  /\ IF MayCreate
     THEN /\ adapterInstances' = 1
          /\ device' = [device EXCEPT ![d] = "Starting"]
     ELSE /\ device' = [device EXCEPT ![d] = "Failed"]
          /\ UNCHANGED adapterInstances
  /\ UNCHANGED <<driverVars, tableVars, controlVars, objectVars,
                 instanceLeaked>>

\* ... and allocates it; what StartDevice does with it may fail afterwards.
CreateAdapter(d) ==
  /\ device[d] = "Starting"
  /\ \/ /\ common' = [common EXCEPT ![d] = TRUE]
        /\ adapter' = [adapter EXCEPT ![d] = TRUE]
        /\ \E result \in {"Started", "Failed"} :
             device' = [device EXCEPT ![d] = result]
        /\ UNCHANGED instanceLeaked
     \/ /\ instanceLeaked' = TRUE
        /\ device' = [device EXCEPT ![d] = "Failed"]
        /\ UNCHANGED <<common, adapter>>
  /\ UNCHANGED <<driverVars, tableVars, controlVars, adapterInstances, file>>

\* A file is opened on a filter of a started device.
OpenFile(d) ==
  /\ device[d] = "Started"
  /\ file' = [file EXCEPT ![d] = TRUE]
  /\ UNCHANGED <<driverVars, tableVars, controlVars, device, adapterInstances,
                 common, adapter, instanceLeaked>>

\* A topology miniport, which lives as long as a file on it, holds the object.
Referenced(d) == file[d]

\* A bug to be caught: the destructor of the object does not count it out.
Bug_InstancesAfterRelease(d) == adapterInstances

InstancesAfterRelease(d) == adapterInstances - 1

\* The last reference to the object goes.
DestroyAdapter(d) ==
  /\ adapter' = [adapter EXCEPT ![d] = FALSE]
  /\ adapterInstances' = InstancesAfterRelease(d)

\* PnpHandler of STOP_DEVICE, SURPRISE_REMOVAL and REMOVE_DEVICE.
ReleaseAdapter(d, next) ==
  /\ IF common[d] /\ ~Referenced(d)
     THEN DestroyAdapter(d)
     ELSE UNCHANGED <<adapter, adapterInstances>>
  /\ common' = [common EXCEPT ![d] = FALSE]
  /\ device' = [device EXCEPT ![d] = next]
  /\ UNCHANGED <<driverVars, tableVars, controlVars, file, instanceLeaked>>

\* The last file is closed; with it goes the object, if nothing else holds it.
CloseFile(d) ==
  /\ file[d]
  /\ file' = [file EXCEPT ![d] = FALSE]
  /\ IF adapter[d] /\ ~common[d]
     THEN DestroyAdapter(d)
     ELSE UNCHANGED <<adapter, adapterInstances>>
  /\ UNCHANGED <<driverVars, tableVars, controlVars, device, common,
                 instanceLeaked>>

StopDevice(d) ==
  /\ device[d] = "Started"
  /\ ~file[d]
  /\ ReleaseAdapter(d, "Added")

SurpriseRemoval(d) ==
  /\ device[d] \in {"Started", "Failed"}
  /\ ReleaseAdapter(d, "Gone")

RemoveDevice(d) ==
  /\ device[d] \in {"Added", "Started", "Failed", "Gone"}
  /\ ~file[d]
  /\ ReleaseAdapter(d, "Absent")

\* The unload routine of the driver object.  DriverUnload calls that of the
\* port class and unloads WDF; AudioVolumeControl_Unload calls neither.
Unload ==
  /\ loaded
  /\ \A d \in Devices : device[d] = "Absent"
  /\ loaded' = FALSE
  /\ adapterInstances' = 0
  /\ instanceLeaked' = FALSE
  /\ fileHandler' = "None"
  /\ unloadRoutine' = "None"
  /\ \/ /\ unloadRoutine = "DriverUnload"
        /\ registryPath' = FALSE
        /\ wdfDriver' = FALSE
        /\ UNCHANGED controlVars
     \/ /\ unloadRoutine = "AudioVolumeControl_Unload"
        /\ link' = FALSE
        /\ controlDevice' = FALSE
        /\ UNCHANGED <<registryPath, wdfDriver>>
  /\ UNCHANGED <<device, objectVars>>

Next ==
  \/ DriverEntry
  \/ \E d \in Devices :
       \/ AddDevice(d) \/ StartDevice(d) \/ CreateAdapter(d)
       \/ OpenFile(d) \/ CloseFile(d)
       \/ StopDevice(d) \/ SurpriseRemoval(d) \/ RemoveDevice(d)
  \/ Unload

Spec == Init /\ [][Next]_vars

-----------------------------------------------------------------------------
\* Every variable has its type.
TypeOK ==
  /\ loaded \in BOOLEAN
  /\ registryPath \in BOOLEAN /\ wdfDriver \in BOOLEAN
  /\ fileHandler \in {"None", "PortCls", "AudioVolumeControl"}
  /\ unloadRoutine \in {"None", "DriverUnload", "AudioVolumeControl_Unload"}
  /\ controlDevice \in BOOLEAN /\ link \in BOOLEAN
  /\ device \in [Devices -> {"Absent", "Added", "Starting", "Started",
                             "Failed", "Gone"}]
  /\ adapterInstances \in 0 .. 1
  /\ common \in [Devices -> BOOLEAN]
  /\ adapter \in [Devices -> BOOLEAN] /\ file \in [Devices -> BOOLEAN]
  /\ instanceLeaked \in BOOLEAN

\* The devices whose adapter object exists, or is about to.
Holders == {d \in Devices : adapter[d] \/ device[d] = "Starting"}

\* m_AdapterInstances is the "# of adapter objects", so that a device can be
\* started again after the one before it has stopped, failed or gone and its
\* last file is closed; once NewAdapterCommon found no memory it is one too
\* many until the next load.
InstancesCounted ==
  adapterInstances = Cardinality(Holders) + (IF instanceLeaked THEN 1 ELSE 0)

\* "This sample supports only one instance of this object": while a device, or
\* a file of one that is gone, still holds the object, no other device has one.
OneAdapter == \A d, e \in Holders : d = e

\* A control device can be opened under the name its clients know.
ControlReachable == controlDevice => link

\* "In this case, they will be handled by Audio port driver": opening and
\* controlling a started audio device is the port class's.
AudioFilesReachPortClass ==
  (\E d \in Devices : device[d] = "Started") => fileHandler = "PortCls"

\* "Hook the port class unload function": what the driver holds is released
\* when it is unloaded.
UnloadReleases == ~loaded => ~registryPath /\ ~wdfDriver
=============================================================================
