-------------------------- MODULE TopologyAssembler --------------------------
(***************************************************************************)
(* One discovery pass of the vSphere topology crawl:                      *)
(* dcai.FetchVsphereTopology (src/dcai/dcaiagent.go) connecting,          *)
(* VcsaConnector.GetTopology walking the datacenters, getHosts walking    *)
(* each datacenter's hosts, and for every host getDisks, getDatastores,   *)
(* getVSANDiskgroups, getVirtualMachines and NewEsxiHostConfig, then the  *)
(* deferred DisconnectVsphere (src/dcai/connector/vcsa/vcsa.go).          *)
(*                                                                         *)
(* Each call of the crawl is one action, in the code's order.  Cluster    *)
(* objects live in a heap `clusters' (ClusterConfig pointers); `cls' is   *)
(* the slice of cluster pointers that GetTopology declares once and       *)
(* passes to every getHosts call; a datacenter keeps the slice `cls' had  *)
(* when NewDatacenterConfig was called, while the clusters' host lists    *)
(* stay shared.                                                            *)
(***************************************************************************)
EXTENDS VsphereInventory, Relation

VARIABLES
    api,        \* the management API's answers for this pass (fixed at Init)
    session,    \* "none" | "connected" | "closed": the govmomi client session
    pc,         \* the call the crawl is in
    dcIdx,      \* index of the current datacenter in Datacenters
    hostIdx,    \* index of the current host in HostsOf[current datacenter]
    disks,      \* getDisks result for the current host (canonical names)
    dss,        \* getDatastores result for the current host
    cl,         \* cluster (index into clusters, 0 = nil) of the current host
    dgs,        \* getVSANDiskgroups result for the current host
    vms,        \* getVirtualMachines result for the current host
    clusters,   \* heap of ClusterConfig objects: [uuid, hosts]
    cls,        \* the shared slice of cluster pointers (indices into clusters)
    hss,        \* hosts built so far in the current datacenter
    dcs         \* DatacenterConfig results: [name, cls, hosts]

vars == <<api, session, pc, dcIdx, hostIdx, disks, dss, cl, dgs, vms,
          clusters, cls, hss, dcs>>
hostVars == <<disks, dss, cl, dgs, vms>>

PCs == {"connect", "dcs", "hostlist", "disks", "datastores", "vsan", "vms",
        "build", "dcdone", "done", "failed"}

CurDc == Datacenters[dcIdx]
CurHost == HostsOf[CurDc][hostIdx]
H == api.host[CurHost]

HostRec == [name : Hosts, disks : SUBSET DiskNames, dss : SUBSET DatastoreRecord,
            cl : Nat, dgs : SUBSET [cache : DiskNames, capacity : SUBSET DiskNames],
            vms : SUBSET [name : VmIds, ds : SUBSET DsIds, snaps : Seq(SnapIds)]]

TypeOK ==
    /\ api \in ApiStates
    /\ session \in {"none", "connected", "closed"}
    /\ pc \in PCs
    /\ dcIdx \in 0..Len(Datacenters)
    /\ hostIdx \in 0..MaxHostsPerDc
    /\ disks \subseteq DiskNames
    /\ dss \subseteq DatastoreRecord
    /\ cl \in 0..Len(clusters)
    /\ clusters \in Seq([uuid : VsanUuids, hosts : Seq(Hosts)])
    /\ cls \in Seq(1..Len(clusters))
    /\ hss \in Seq(HostRec)
    /\ dcs \in Seq([name : Dcs, cls : Seq(Nat), hosts : Seq(HostRec)])

Init ==
    /\ api \in ApiStates
    /\ session = "none"
    /\ pc = "connect"
    /\ dcIdx = 0
    /\ hostIdx = 0
    /\ disks = {} /\ dss = {} /\ cl = 0 /\ dgs = {} /\ vms = {}
    /\ clusters = <<>>
    /\ cls = <<>>
    /\ hss = <<>>
    /\ dcs = <<>>

-----------------------------------------------------------------------------
(* Mutant: the search never matches, so every host creates a cluster.     *)
FindClusterNever(uuid, list) == 0

(* findCluster: linear search of the shared slice by DomainID (the uuid). *)
FindCluster(uuid, list) ==
    IF \E i \in 1..Len(list) : clusters[list[i]].uuid = uuid
    THEN list[CHOOSE i \in 1..Len(list) : clusters[list[i]].uuid = uuid]
    ELSE 0

(* FetchVsphereTopology: ConnectVsphere; an error is returned before the  *)
(* deferred disconnect is registered.                                      *)
ConnectVsphere ==
    /\ pc = "connect"
    /\ IF api.connectFails
       THEN pc' = "failed" /\ UNCHANGED session
       ELSE pc' = "dcs" /\ session' = "connected"
    /\ UNCHANGED <<api, dcIdx, hostIdx, hostVars, clusters, cls, hss, dcs>>

(* GetTopology: Retrieve of the Datacenter objects under the root folder. *)
RetrieveDatacenters ==
    /\ pc = "dcs"
    /\ IF api.dcListFails THEN pc' = "failed"
       ELSE IF Datacenters = <<>> THEN pc' = "done"
       ELSE pc' = "hostlist"
    /\ dcIdx' = IF api.dcListFails \/ Datacenters = <<>> THEN dcIdx ELSE 1
    /\ UNCHANGED <<api, session, hostIdx, hostVars, clusters, cls, hss, dcs>>

(* getHosts: Retrieve of the HostSystem objects of the current datacenter;*)
(* the host list of the datacenter starts empty, `cls' is passed on.      *)
GetHostList ==
    /\ pc = "hostlist"
    /\ IF api.hostListFails[CurDc] THEN pc' = "failed"
       ELSE IF HostsOf[CurDc] = <<>> THEN pc' = "dcdone"
       ELSE pc' = "disks"
    /\ hostIdx' = 1
    /\ hss' = <<>>
    /\ UNCHANGED <<api, session, dcIdx, hostVars, clusters, cls, dcs>>

(* getDisks: one DiskInfo per HostScsiDisk LUN, named by canonical name.  *)
GetDisks ==
    /\ pc = "disks"
    /\ disks' = H.luns
    /\ pc' = "datastores"
    /\ UNCHANGED <<api, session, dcIdx, hostIdx, dss, cl, dgs, vms, clusters, cls, hss, dcs>>

(* getDatastores: a VMFS extent that names an unknown disk is an error.   *)
GetDatastores ==
    /\ pc = "datastores"
    /\ LET dsmos == HostDatastoreObjects(H) IN
       IF \E d \in dsmos : DatastoreUnresolved(d, disks)
       THEN pc' = "failed" /\ UNCHANGED dss
       ELSE pc' = "vsan" /\ dss' = {DatastoreOf(d, disks) : d \in dsmos}
    /\ UNCHANGED <<api, session, dcIdx, hostIdx, disks, cl, dgs, vms, clusters, cls, hss, dcs>>

(***************************************************************************)
(* getVSANDiskgroups: find-or-create the host's vSAN cluster in the       *)
(* shared slice (appended before the disk mappings are resolved), then    *)
(* resolve the mapping's cache and capacity disks; an unknown disk is an  *)
(* error.                                                                  *)
(***************************************************************************)
GetVSANDiskgroups ==
    /\ pc = "vsan"
    /\ LET u == H.vsan
           found == FindCluster(u, cls)
           create == u # Empty /\ found = 0
           dm == H.dm
       IN /\ clusters' = IF create THEN Append(clusters, [uuid |-> u, hosts |-> <<>>])
                         ELSE clusters
          /\ cls' = IF create THEN Append(cls, Len(clusters) + 1) ELSE cls
          /\ cl' = IF create THEN Len(clusters) + 1 ELSE found
          /\ IF dm # NoMap /\ \E n \in DiskMapDisks(dm) : FindDiskByName(n, disks) = NoDisk
             THEN pc' = "failed" /\ UNCHANGED dgs
             ELSE /\ pc' = "vms"
                  /\ dgs' = IF dm = NoMap THEN {}
                            ELSE {[cache |-> dm.ssd, capacity |-> dm.nonSsd]}
    /\ UNCHANGED <<api, session, dcIdx, hostIdx, disks, dss, vms, hss, dcs>>

(* getVirtualMachines: errors of the retrievals, of getVMDatastores and   *)
(* of getVMSnapshots are discarded.                                        *)
GetVirtualMachines ==
    /\ pc = "vms"
    /\ LET vmmos == IF H.vmFails THEN {} ELSE H.vms
       IN vms' = {[name |-> v, ds |-> VMDatastoreList(H, v, dss), snaps |-> GetVMSnapshots(v)]
                : v \in vmmos}
    /\ pc' = "build"
    /\ UNCHANGED <<api, session, dcIdx, hostIdx, disks, dss, cl, dgs, clusters, cls, hss, dcs>>

(* Mutant: the host is never appended to its cluster.                      *)
AppendHostSkipped == clusters' = clusters

(* cl.AppendHost(h) when the host belongs to a cluster.                   *)
AppendHost ==
    clusters' = IF cl # 0 THEN [clusters EXCEPT ![cl].hosts = Append(@, CurHost)]
                ELSE clusters

(* Mutant: the loop bound is off by one.                                   *)
NextHostOffByOne ==
    IF hostIdx <= Len(HostsOf[CurDc])
    THEN pc' = "disks" /\ hostIdx' = hostIdx + 1
    ELSE pc' = "dcdone" /\ UNCHANGED hostIdx

(* The range loop of getHosts: the next host, or the datacenter is done.  *)
NextHost ==
    IF hostIdx < Len(HostsOf[CurDc])
    THEN pc' = "disks" /\ hostIdx' = hostIdx + 1
    ELSE pc' = "dcdone" /\ UNCHANGED hostIdx

(***************************************************************************)
(* NewEsxiHostConfig (fails on an empty hardware uuid), then AppendHost   *)
(* to the host's cluster, then append to the datacenter's host list and   *)
(* move to the next host.                                                  *)
(***************************************************************************)
BuildHost ==
    /\ pc = "build"
    /\ IF ~H.uuidOk
       THEN pc' = "failed" /\ UNCHANGED <<clusters, hss, hostIdx>>
       ELSE /\ hss' = Append(hss, [name |-> CurHost, disks |-> disks, dss |-> dss,
                                   cl |-> cl, dgs |-> dgs, vms |-> vms])
            /\ AppendHost
            /\ NextHost
    /\ UNCHANGED <<api, session, dcIdx, hostVars, cls, dcs>>

(* NewDatacenterConfig(name, cls, hss) and append; next datacenter.        *)
FinishDatacenter ==
    /\ pc = "dcdone"
    /\ dcs' = Append(dcs, [name |-> CurDc, cls |-> cls, hosts |-> hss])
    /\ IF dcIdx < Len(Datacenters)
       THEN pc' = "hostlist" /\ dcIdx' = dcIdx + 1
       ELSE pc' = "done" /\ UNCHANGED dcIdx
    /\ UNCHANGED <<api, session, hostIdx, hostVars, clusters, cls, hss>>

(* The deferred DisconnectVsphere, on success and on error alike.          *)
DisconnectVsphere ==
    /\ pc \in {"done", "failed"}
    /\ session = "connected"
    /\ session' = "closed"
    /\ UNCHANGED <<api, pc, dcIdx, hostIdx, hostVars, clusters, cls, hss, dcs>>

Next ==
    \/ ConnectVsphere
    \/ RetrieveDatacenters
    \/ GetHostList
    \/ GetDisks
    \/ GetDatastores
    \/ GetVSANDiskgroups
    \/ GetVirtualMachines
    \/ BuildHost
    \/ FinishDatacenter
    \/ DisconnectVsphere

(* The crawl is one thread of blocking calls; each call is assumed to     *)
(* return (the code sets no deadline on the API calls).                   *)
Spec == Init /\ [][Next]_vars /\ WF_vars(Next)

-----------------------------------------------------------------------------
(* The graph GetTopology returns, clusters read through their pointers.   *)
HostView(r) == [r EXCEPT !.cl = IF @ = 0 THEN Empty ELSE clusters[@].uuid]

Graph ==
    [i \in 1..Len(dcs) |->
        [name     |-> dcs[i].name,
         clusters |-> [j \in 1..Len(dcs[i].cls) |-> clusters[dcs[i].cls[j]]],
         hosts    |-> [k \in 1..Len(dcs[i].hosts) |-> HostView(dcs[i].hosts[k])]]]

Result == CASE pc = "done"   -> [status |-> "done", graph |-> Graph]
            [] pc = "failed" -> [status |-> "failed", graph |-> <<>>]
            [] OTHER         -> [status |-> "pending", graph |-> <<>>]

Finished == pc \in {"done", "failed"}

(***************************************************************************)
(* Find-or-create keeps cluster identity: no two ClusterConfig objects    *)
(* share a vSAN uuid, and a cluster's host list holds each host at most   *)
(* once and only hosts that report that uuid (getVSANDiskgroups +         *)
(* AppendHost in getHosts, across all hosts and datacenters).             *)
(***************************************************************************)
ClusterIdentity ==
    /\ \A i, j \in 1..Len(clusters) : i # j => clusters[i].uuid # clusters[j].uuid
    /\ \A i \in 1..Len(clusters) :
          LET hs == clusters[i].hosts IN
          /\ \A k \in 1..Len(hs) : api.host[hs[k]].vsan = clusters[i].uuid
          /\ \A k, m \in 1..Len(hs) : k # m => hs[k] # hs[m]

(***************************************************************************)
(* Every cross reference in the graph built so far resolves inside its    *)
(* host: datastore extents and disk-group disks are disks of that host,   *)
(* and a VM's datastores are datastores of that host (getDatastores,      *)
(* getVSANDiskgroups, getVMDatastores).                                   *)
(***************************************************************************)
HostClosed(r) ==
    /\ \A d \in r.dss : d.disks \subseteq r.disks
    /\ \A g \in r.dgs : ({g.cache} \cup g.capacity) \subseteq r.disks
    /\ \A v \in r.vms : v.ds \subseteq {d.name : d \in r.dss}

ResolvedReferencesOnly ==
    /\ \A k \in 1..Len(hss) : HostClosed(hss[k])
    /\ \A i \in 1..Len(dcs) : \A k \in 1..Len(dcs[i].hosts) : HostClosed(dcs[i].hosts[k])

(***************************************************************************)
(* A datacenter's clusters are its own: every cluster a DatacenterConfig  *)
(* lists has only hosts of that datacenter, and every host of the         *)
(* datacenter that is in a cluster finds that cluster in the datacenter's *)
(* list (spec 4.4: datacenters accumulate their discovered clusters).     *)
(***************************************************************************)
DatacenterClustersLocal ==
    pc = "done" =>
        \A i \in 1..Len(dcs) :
            LET own == {dcs[i].hosts[k].name : k \in 1..Len(dcs[i].hosts)} IN
            \A j \in 1..Len(dcs[i].cls) : ToSet(clusters[dcs[i].cls[j]].hosts) \subseteq own

(***************************************************************************)
(* A pass that succeeds lists, for every VM, every datastore the API      *)
(* reports for it: an unresolved VM-to-datastore reference is a hard      *)
(* failure, never a silently shorter list (spec 4.4 and 7).               *)
(***************************************************************************)
VmDatastoresComplete ==
    pc = "done" =>
        \A i \in 1..Len(dcs) : \A k \in 1..Len(dcs[i].hosts) :
            \A v \in dcs[i].hosts[k].vms : v.ds = VmDatastores[v.name]

(***************************************************************************)
(* The snapshot list of a VM, against a reference definition that does   *)
(* not walk the tree: it names every snapshot reachable from the VM's     *)
(* RootSnapshotList once, each snapshot's subtree occupies the block of   *)
(* positions that starts at it, and siblings keep the order of their      *)
(* list.  That is the pre-order walk of getVMSnapshots and                *)
(* getVMFromSnapshotTree, which the emitter turns into one link per       *)
(* snapshot.                                                               *)
(***************************************************************************)
SnapChildOf == [x, y \in SnapIds |-> y \in ToSet(SnapChildren[x])]
SnapDescendants(x) ==
    LET rtc == ReflexiveTransitiveClosure(SnapChildOf, SnapIds) IN {y \in SnapIds : rtc[x, y]}

IsPreOrderOf(sq, roots) ==
    LET pos(x) == CHOOSE k \in 1..Len(sq) : sq[k] = x
        Ordered(kids) == \A j, k \in 1..Len(kids) : j < k => pos(kids[j]) < pos(kids[k])
    IN /\ IsInjective(sq)
       /\ ToSet(sq) = UNION {SnapDescendants(r) : r \in ToSet(roots)}
       /\ \A k \in 1..Len(sq) :
             {pos(y) : y \in SnapDescendants(sq[k])} = k..(k + Cardinality(SnapDescendants(sq[k])) - 1)
       /\ Ordered(roots)
       /\ \A x \in ToSet(sq) : Ordered(SnapChildren[x])

VmSnapshotsPreOrder ==
    \A i \in 1..Len(dcs) : \A k \in 1..Len(dcs[i].hosts) :
        \A v \in dcs[i].hosts[k].vms : IsPreOrderOf(v.snaps, VmSnapshotRoots[v.name])

(* The one-step specification of the pass, under the mapping of the      *)
(* crawl's state to its result (checked in TopologyEmitter).              *)
Abstract == INSTANCE Topology WITH result <- Result

=============================================================================
