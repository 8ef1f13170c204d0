-------------------------- MODULE VsphereInventory --------------------------
(***************************************************************************)
(* The management-API object model that the topology crawl of            *)
(* src/dcai/connector/vcsa/vcsa.go reads, and the per-host lookups it     *)
(* performs on it (findDiskByName, findDatastore, the datastore URL       *)
(* uuid extraction).  Managed objects are model values; a host's view of  *)
(* the API, including which property retrievals fail, is one HostKind     *)
(* record, so a whole API answer is fixed when a pass starts.             *)
(***************************************************************************)
EXTENDS Naturals, Sequences, SequencesExt, FiniteSets

CONSTANTS
    Datacenters,    \* sequence of Datacenter objects, in the order Retrieve returns them
    HostsOf,        \* HostsOf[dc]: sequence of HostSystem objects under dc's host folder
    DiskNames,      \* canonical names of the SCSI disks (HostScsiDisk LUNs)
    DsIds,          \* Datastore objects
    DsInfo,         \* DsInfo[d] = [vmfs, urlOk, extents]: VMFS or not, URL ends in /<uuid>/, extent disk names
    VmIds,          \* VirtualMachine objects
    VmDatastores,   \* VmDatastores[v]: the Datastore objects VM v references
    SnapIds,        \* snapshot ids (the %d of VirtualMachineSnapshotTree.Id)
    SnapChildren,   \* SnapChildren[s]: ChildSnapshotList of snapshot s, in order
    VmSnapshotRoots, \* VmSnapshotRoots[v]: RootSnapshotList of VM v (<<>> also for a nil Snapshot)
    VsanUuids,      \* vSAN cluster uuids a host may report
    HostKinds,      \* the host views the API may report (records of HostKind)
    StructuralFailures, \* TRUE when connect / Datacenter / HostSystem retrieval may fail
    Empty,          \* the empty string (no vSAN uuid, no datastore uuid)
    NoDisk,         \* nil result of findDiskByName
    NoDs            \* nil result of findDatastore

Dcs == ToSet(Datacenters)
Hosts == UNION {ToSet(HostsOf[dc]) : dc \in Dcs}
MaxHostsPerDc == IF Dcs = {} THEN 0 ELSE Max({Len(HostsOf[dc]) : dc \in Dcs})

(* One vSAN disk mapping: its ssd (cache) and non-ssd (capacity) disks.   *)
NoMap == [ssd |-> NoDisk, nonSsd |-> {}]
DiskMaps == {NoMap} \cup [ssd : DiskNames, nonSsd : SUBSET DiskNames]

(* What the API reports for one host.  dsFails / vmFails / vmDsFails say  *)
(* that the property-collector Retrieve of hsmo.Datastore, hsmo.Vm or a   *)
(* VM's datastores returns an error, which the code ignores.              *)
HostKind == [uuidOk : BOOLEAN, luns : SUBSET DiskNames, ds : SUBSET DsIds,
             dsFails : BOOLEAN, vsan : VsanUuids \cup {Empty}, dm : DiskMaps,
             vms : SUBSET VmIds, vmFails : BOOLEAN, vmDsFails : BOOLEAN]

Flags == IF StructuralFailures THEN BOOLEAN ELSE {FALSE}

(* A complete answer of the management API for one pass.                  *)
ApiStates == [connectFails : Flags, dcListFails : Flags,
              hostListFails : [Dcs -> Flags], host : [Hosts -> HostKinds]]

ASSUME /\ HostKinds \subseteq HostKind
       /\ \A dc \in Dcs : HostsOf[dc] \in Seq(Hosts)
       /\ DsInfo \in [DsIds -> [vmfs : BOOLEAN, urlOk : BOOLEAN, extents : SUBSET DiskNames]]
       /\ VmDatastores \in [VmIds -> SUBSET DsIds]
       /\ SnapChildren \in [SnapIds -> Seq(SnapIds)]
       /\ VmSnapshotRoots \in [VmIds -> Seq(SnapIds)]

(* Datastore records built by getDatastores.                              *)
DatastoreRecord == [name : DsIds, uuid : DsIds \cup {Empty}, disks : SUBSET (DiskNames \cup {NoDisk})]

(* Mutant: the name is returned without looking it up.                     *)
FindDiskByNameUnchecked(name, refdisks) == name

(***************************************************************************)
(* findDiskByName: linear search of the host's disk list by canonical    *)
(* name; nil when absent.                                                  *)
(***************************************************************************)
FindDiskByName(name, refdisks) == IF name \in refdisks THEN name ELSE NoDisk

(***************************************************************************)
(* The datastore uuid: the last path segment of info.Url when the URL     *)
(* matches vmfsRegexp (it ends in /<uuid>/), else the empty string.  A    *)
(* URL that matches names the datastore itself.                            *)
(***************************************************************************)
DatastoreUuid(d) == IF DsInfo[d].urlOk THEN d ELSE Empty

(***************************************************************************)
(* findDatastore: the host datastore whose Uuid equals the URL uuid of    *)
(* the VM's datastore; nil when the URL does not match or no host         *)
(* datastore has that uuid.                                                *)
(***************************************************************************)
FindDatastore(d, refdss) ==
    IF DsInfo[d].urlOk /\ \E r \in refdss : r.uuid = d
    THEN (CHOOSE r \in refdss : r.uuid = d).name
    ELSE NoDs

(* The Datastore objects getDatastores sees: none when Retrieve fails.    *)
HostDatastoreObjects(H) == IF H.dsFails THEN {} ELSE H.ds

(* A VMFS datastore's extent names a disk that is not in the host's list. *)
DatastoreUnresolved(d, refdisks) ==
    DsInfo[d].vmfs /\ \E e \in DsInfo[d].extents : FindDiskByName(e, refdisks) = NoDisk

(* NewDatastoreInfo(info.Name, uuid, disks) for one Datastore object.     *)
DatastoreOf(d, refdisks) ==
    [name  |-> d,
     uuid  |-> DatastoreUuid(d),
     disks |-> IF DsInfo[d].vmfs
               THEN {FindDiskByName(e, refdisks) : e \in DsInfo[d].extents}
               ELSE {}]

(* The disk names a vSAN disk mapping refers to.                           *)
DiskMapDisks(dm) == {dm.ssd} \cup dm.nonSsd

(***************************************************************************)
(* getVMDatastores for VM v: resolve each of its datastores against the  *)
(* host's datastore list; the first unresolved one makes it return an    *)
(* error, which getVirtualMachines discards, keeping a nil list.          *)
(***************************************************************************)
VMDatastoreList(H, v, refdss) ==
    LET dsmos == IF H.vmDsFails THEN {} ELSE VmDatastores[v]
        found == {FindDatastore(d, refdss) : d \in dsmos}
    IN  IF NoDs \in found THEN {} ELSE found

(* Mutant: a snapshot is appended after its children, not before them.   *)
RECURSIVE SnapshotTreePostOrder(_)
SnapshotTreePostOrder(s) ==
    FlattenSeq([k \in 1..Len(SnapChildren[s]) |-> SnapshotTreePostOrder(SnapChildren[s][k])])
    \o <<s>>

(***************************************************************************)
(* getVMFromSnapshotTree: append the snapshot (NewSnapshotInfo never      *)
(* fails, and its id is never empty), then walk its ChildSnapshotList in  *)
(* order.                                                                  *)
(***************************************************************************)
RECURSIVE SnapshotTree(_)
SnapshotTree(s) ==
    <<s>> \o FlattenSeq([k \in 1..Len(SnapChildren[s]) |-> SnapshotTree(SnapChildren[s][k])])

(* getVMSnapshots: every tree of the RootSnapshotList, in order; a nil   *)
(* Snapshot gives a nil list, which NewVirtualmachineInfo makes empty.    *)
GetVMSnapshots(v) ==
    FlattenSeq([k \in 1..Len(VmSnapshotRoots[v]) |-> SnapshotTree(VmSnapshotRoots[v][k])])

=============================================================================
