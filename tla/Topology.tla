------------------------------ MODULE Topology ------------------------------
(***************************************************************************)
(* What one topology discovery pass promises, stated without the crawl:  *)
(* in one step the pass either fails, when any structural call fails or   *)
(* any host has an unresolved disk reference or an empty uuid, or it     *)
(* yields the whole graph at once.  In that graph every datacenter lists *)
(* the vSAN clusters in the order their uuid was first reported by a      *)
(* host of this or an earlier datacenter (first writer wins), and every  *)
(* cluster lists, in crawl order, every host that reports its uuid.       *)
(* TopologyAssembler is checked to implement this specification.          *)
(***************************************************************************)
EXTENDS VsphereInventory

VARIABLES api, result

(* The hosts in the order the crawl visits them.                          *)
CrawlOrder(n) == FlattenSeq([k \in 1..n |-> HostsOf[Datacenters[k]]])

(* The vSAN uuids of a host sequence, each once, in order of first sight. *)
FirstSeen(s) ==
    FoldLeft(LAMBDA acc, h : IF api.host[h].vsan \in ToSet(acc) \cup {Empty}
                             THEN acc ELSE Append(acc, api.host[h].vsan),
             <<>>, s)

(* A host whose assembly is a hard failure.                               *)
HostAborts(Hk) ==
    \/ ~Hk.uuidOk
    \/ \E d \in HostDatastoreObjects(Hk) : DatastoreUnresolved(d, Hk.luns)
    \/ Hk.dm # NoMap /\ \E n \in DiskMapDisks(Hk.dm) : FindDiskByName(n, Hk.luns) = NoDisk

PassFails ==
    \/ api.connectFails
    \/ api.dcListFails
    \/ \E dc \in Dcs : api.hostListFails[dc]
    \/ \E h \in Hosts : HostAborts(api.host[h])

(* The host entity, its cluster given by uuid.                            *)
HostEntity(h) ==
    LET Hk == api.host[h]
        ds == {DatastoreOf(d, Hk.luns) : d \in HostDatastoreObjects(Hk)}
    IN [name  |-> h,
        disks |-> Hk.luns,
        dss   |-> ds,
        cl    |-> Hk.vsan,
        dgs   |-> IF Hk.dm = NoMap THEN {}
                  ELSE {[cache |-> Hk.dm.ssd, capacity |-> Hk.dm.nonSsd]},
        vms   |-> {[name |-> v, ds |-> VMDatastoreList(Hk, v, ds), snaps |-> GetVMSnapshots(v)] :
                   v \in IF Hk.vmFails THEN {} ELSE Hk.vms}]

ClusterEntity(u) ==
    [uuid |-> u,
     hosts |-> SelectSeq(CrawlOrder(Len(Datacenters)), LAMBDA h : api.host[h].vsan = u)]

Graph ==
    [i \in 1..Len(Datacenters) |->
        LET seen == FirstSeen(CrawlOrder(i))
            hs == HostsOf[Datacenters[i]]
        IN [name     |-> Datacenters[i],
            clusters |-> [j \in 1..Len(seen) |-> ClusterEntity(seen[j])],
            hosts    |-> [k \in 1..Len(hs) |-> HostEntity(hs[k])]]]

(* The outcome of the pass: its status and the graph GetTopology returns. *)
Pending == [status |-> "pending", graph |-> <<>>]

Init == api \in ApiStates /\ result = Pending

Assemble ==
    /\ result = Pending
    /\ result' = IF PassFails THEN [status |-> "failed", graph |-> <<>>]
                 ELSE [status |-> "done", graph |-> Graph]
    /\ UNCHANGED api

Spec == Init /\ [][Assemble]_<<api, result>> /\ WF_<<api, result>>(Assemble)

=============================================================================
