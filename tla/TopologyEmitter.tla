--------------------------- MODULE TopologyEmitter ---------------------------
(***************************************************************************)
(* The vspheretpgy input (src/plugins/inputs/vspheretpgy/vspheretpgy.go)  *)
(* around one topology crawl: Gather walks its configured vCenters,       *)
(* skips an empty entry, reports a malformed one, and for a well-formed   *)
(* one runs dcai.FetchVsphereTopology (the crawl of TopologyAssembler)    *)
(* and then startAccNeo4j, which turns the returned graph into db_relay   *)
(* merge commands, one per link between two nodes, plus the sai_host,     *)
(* sai_cluster and sai_event points of every host.  A node is its label  *)
(* and domain id (genNode fails on an empty one); a command is kept as   *)
(* the link it merges, not as Cypher text.                                 *)
(***************************************************************************)
EXTENDS TopologyAssembler

CONSTANTS
    UrlConfigs,         \* the n.Urls lists, entries "unset" (empty), "badlen" (not 4 fields) or "ok"
    SaiClusterDomainId  \* dcaiAgent.GetSaiClusterDomainId() (never empty: it has a default)

VARIABLES
    Urls,      \* n.Urls (fixed when the plugin is configured)
    gpc,       \* "urls" | "crawl" | "returned": where Gather is
    u,         \* index of the current entry of n.Urls
    crawled,   \* the entries FetchVsphereTopology was called for
    emitted,   \* the measurements added to the accumulator, in order
    gerr       \* Gather returned an error (or added one with acc.AddError)

gatherVars == <<Urls, gpc, u, crawled, emitted, gerr>>
allVars == <<vars, gatherVars>>

(* The outcome of an emission: what was added, and whether it stopped on *)
(* an error.                                                               *)
Ok(out) == [out |-> out, err |-> FALSE]
(* Mutant: the error of a call is overwritten by the next call's.        *)
ThenOverwritingError(r, s) == [out |-> r.out \o s.out, err |-> s.err]

(* A call, then the next one unless the first returned an error.          *)
Then(r, s) == IF r.err THEN r ELSE [out |-> r.out \o s.out, err |-> s.err]

(* A range loop that returns on the first error: the outcomes of the      *)
(* iterations up to and including the first failing one.                   *)
ForEach(xs, F(_)) ==
    LET r    == [k \in 1..Len(xs) |-> F(xs[k])]
        stop == SelectInSeq(r, LAMBDA x : x.err)
        upto == IF stop = 0 THEN Len(xs) ELSE stop
    IN [out |-> FlattenSeq([k \in 1..upto |-> r[k].out]), err |-> stop # 0]

(* Mutant: genNode without its check of the domain id.                   *)
GenNodeFailsNever(id) == FALSE

(* genNode: an error when the domain id is empty (label and name are      *)
(* never empty here: a name equals its id or is set with it).              *)
GenNodeFails(id) == id = Empty

WithNode(label, id, F(_)) ==
    IF GenNodeFails(id) THEN [out |-> <<>>, err |-> TRUE] ELSE F([label |-> label, id |-> id])

NoNode == [label |-> "none", id |-> Empty]
VcsaNode == [label |-> "VMClusterCenter", id |-> SaiClusterDomainId]

(* accNeo4jMap: one db_relay command merging the two nodes and the link.  *)
AccNeo4jMap(n1, n2, rel) == Ok(<<[rel |-> rel, a |-> n1, b |-> n2]>>)

(* A Go slice ranged over: the model keeps these lists as sets.            *)
Items(S) == SetToSeq(S)

(* The host view of host h in the returned graph.                          *)
HostOf(g, h) == CHOOSE hv \in UNION {ToSet(g[i].hosts) : i \in 1..Len(g)} : hv.name = h

(* A datastore whose uuid contains "vsan": the model's non-VMFS stores.    *)
IsVsanDatastore(d) == d.uuid # Empty /\ ~DsInfo[d.name].vmfs

VSanDiskGroupContainsVMDiskCache(gn, dg) ==
    ForEach(<<dg.cache>>, LAMBDA d : WithNode("VMDisk", d,
        LAMBDA n : AccNeo4jMap(gn, n, "VSanDiskGroupHasCacheVmDisk")))

VSanDiskGroupContainsVMDiskCapacity(gn, dg) ==
    ForEach(Items(dg.capacity), LAMBDA d : WithNode("VMDisk", d,
        LAMBDA n : AccNeo4jMap(gn, n, "VSanDiskGroupHasCapacityVmDisk")))

(***************************************************************************)
(* vSanClusterContainsVSanDiskGroup: for every host of the cluster, its   *)
(* vSAN datastores (linked to the disk group named by the host), then its *)
(* disk groups with their cache and capacity disks.                        *)
(***************************************************************************)
VSanClusterContainsVSanDiskGroup(cn, c, g) ==
    ForEach(c.hosts, LAMBDA h :
        LET hv == HostOf(g, h) IN
        Then(ForEach(Items({d \in hv.dss : IsVsanDatastore(d)}), LAMBDA d :
                 WithNode("VMDatastore", d.uuid, LAMBDA dn :
                     WithNode("VMVSanDiskGroup", h, LAMBDA gn :
                         AccNeo4jMap(dn, gn, "VsanDatastoreContainsVmDiskGroup")))),
             ForEach(Items(hv.dgs), LAMBDA dg :
                 WithNode("VMVSanDiskGroup", h, LAMBDA gn :
                     Then(AccNeo4jMap(cn, gn, "VSanClusterContainsVSanDiskGroup"),
                          Then(VSanDiskGroupContainsVMDiskCache(gn, dg),
                               VSanDiskGroupContainsVMDiskCapacity(gn, dg)))))))

VmDataCenterContainsVSancluster(dn, dc, g) ==
    ForEach(dc.clusters, LAMBDA c : WithNode("VMVSanCluster", c.uuid, LAMBDA cn :
        Then(AccNeo4jMap(dn, cn, "VmDataCenterContainsVSanCluster"),
             VSanClusterContainsVSanDiskGroup(cn, c, g))))

VmHostContainsVMDisk(hn, hv) ==
    ForEach(Items(hv.disks), LAMBDA d : WithNode("VMDisk", d,
        LAMBDA n : AccNeo4jMap(hn, n, "VmHostContainsVmDisk")))

VmDatastoreComposesOfVMDisk(sn, d) ==
    ForEach(Items(d.disks), LAMBDA k : WithNode("VMDisk", k,
        LAMBDA n : AccNeo4jMap(sn, n, "VmDatastoreComposesOfVmDisk")))

VmHostContainsVMDatastore(vn, hn, hv) ==
    ForEach(Items(hv.dss), LAMBDA d : WithNode("VMDatastore", d.uuid, LAMBDA sn :
        Then(Then(AccNeo4jMap(vn, sn, "VmClusterContainsVmDatastore"),
                  AccNeo4jMap(hn, sn, "VmHostHasVmDatastore")),
             VmDatastoreComposesOfVMDisk(sn, d))))

VmHostHasVMDiskGroup(hn, hv) ==
    ForEach(Items(hv.dgs), LAMBDA dg : WithNode("VMVSanDiskGroup", hv.name,
        LAMBDA gn : AccNeo4jMap(hn, gn, "VmHostHasVmDiskGroup")))

(* A VM's datastores were resolved by uuid, which names the datastore.    *)
VmVirtualMachineContainsVMDatastore(mn, v) ==
    ForEach(Items(v.ds), LAMBDA s : WithNode("VMDatastore", s,
        LAMBDA sn : AccNeo4jMap(mn, sn, "VmVirtualMachineUsesVmDatastore")))

(* vmVirtualMachineContainsVMSnapshot: one link per snapshot of the list. *)
VmVirtualMachineContainsVMSnapshot(mn, v) ==
    ForEach(v.snaps, LAMBDA p : WithNode("VMSnapshot", p, LAMBDA pn :
        AccNeo4jMap(mn, pn, "VmVirtualMachineTakesVmSnapshot")))

VmHostHostsVMVirtualMachine(hn, hv) ==
    ForEach(Items(hv.vms), LAMBDA v : WithNode("VMVirtualMachine", v.name, LAMBDA mn :
        Then(AccNeo4jMap(hn, mn, "VmHostHostsVmVirtualMachine"),
        Then(VmVirtualMachineContainsVMDatastore(mn, v),
             VmVirtualMachineContainsVMSnapshot(mn, v)))))

(***************************************************************************)
(* The sai_host and sai_cluster points added for a host, and its sai_event *)
(* unless SendMetricsMonitoring fails (ev FALSE: FetchAgentHostConfig of  *)
(* the local machine failed), an error the loop ignores.                   *)
(***************************************************************************)
HostPoints(hv, ev) ==
    << [rel |-> "sai_host", a |-> [label |-> "sai_host", id |-> hv.name], b |-> NoNode],
       [rel |-> "sai_cluster", a |-> VcsaNode, b |-> NoNode] >>
    \o (IF ev THEN << [rel |-> "sai_event", a |-> [label |-> "sai_host", id |-> hv.name], b |-> NoNode] >>
        ELSE <<>>)

(***************************************************************************)
(* vmClusterContainsVMHostAndVMDatastore: per datacenter its link to the  *)
(* vCenter node and its clusters, then per host its points (added before *)
(* genNode of the host), its link to the vCenter node and the host's      *)
(* disks, datastores, disk groups and VMs.                                 *)
(***************************************************************************)
VmClusterContainsVMHostAndVMDatastore(vn, g, ev) ==
    ForEach(g, LAMBDA dc : WithNode("VMDataCenter", dc.name, LAMBDA dn :
        Then(AccNeo4jMap(dn, vn, "VmDataCenterContainsVmCluster"),
        Then(VmDataCenterContainsVSancluster(dn, dc, g),
             ForEach(dc.hosts, LAMBDA hv :
                 Then(Ok(HostPoints(hv, ev)),
                      WithNode("VMHost", hv.name, LAMBDA hn :
                          Then(AccNeo4jMap(hn, vn, "VmClusterContainsVmHost"),
                          Then(VmHostContainsVMDisk(hn, hv),
                          Then(VmHostContainsVMDatastore(vn, hn, hv),
                          Then(VmHostHasVMDiskGroup(hn, hv),
                               VmHostHostsVMVirtualMachine(hn, hv))))))))))))

(* startAccNeo4j: with no datacenters only the vCenter node is merged.     *)
StartAccNeo4j(g, ev) ==
    IF g = <<>> THEN Ok(<<[rel |-> "node", a |-> VcsaNode, b |-> NoNode]>>)
    ELSE VmClusterContainsVMHostAndVMDatastore(VcsaNode, g, ev)

-----------------------------------------------------------------------------
(***************************************************************************)
(* Gather: the range loop over n.Urls.  An empty entry is skipped, an    *)
(* entry without four fields adds an error and is skipped (NewVcsaConnector *)
(* never fails), and the first well-formed one starts the crawl.           *)
(***************************************************************************)
ConfigEntry ==
    /\ gpc = "urls"
    /\ u <= Len(Urls)
    /\ CASE Urls[u] = "unset"  -> u' = u + 1 /\ UNCHANGED <<gpc, crawled, gerr>>
         [] Urls[u] = "badlen" -> u' = u + 1 /\ gerr' = TRUE /\ UNCHANGED <<gpc, crawled>>
         [] OTHER              -> gpc' = "crawl" /\ crawled' = crawled \cup {u}
                                  /\ UNCHANGED <<u, gerr>>
    /\ UNCHANGED <<vars, Urls, emitted>>

(* The loop ran out of entries: Gather returns nil.                        *)
EndOfUrls ==
    /\ gpc = "urls"
    /\ u > Len(Urls)
    /\ gpc' = "returned"
    /\ UNCHANGED <<vars, Urls, u, crawled, emitted, gerr>>

(* One step of dcai.FetchVsphereTopology.                                  *)
Crawl ==
    /\ gpc = "crawl"
    /\ Next
    /\ UNCHANGED gatherVars

(***************************************************************************)
(* FetchVsphereTopology returned (after its deferred logout): an error is *)
(* returned from Gather; otherwise startAccNeo4j runs, which fails at once *)
(* when GetDcaiAgent does, and its result is returned: Gather never looks *)
(* at the remaining entries.                                               *)
(***************************************************************************)
ReturnFromFetch ==
    /\ gpc = "crawl"
    /\ Finished
    /\ session # "connected"
    /\ gpc' = "returned"
    /\ \/ pc = "failed" /\ gerr' = TRUE /\ UNCHANGED emitted
       \/ pc = "done" /\ gerr' = TRUE /\ UNCHANGED emitted
       \/ \E ev \in BOOLEAN :
             /\ pc = "done"
             /\ emitted' = StartAccNeo4j(Graph, ev).out
             /\ gerr' = (gerr \/ StartAccNeo4j(Graph, ev).err)
    /\ UNCHANGED <<vars, Urls, u, crawled>>

InitGather ==
    /\ Init
    /\ Urls \in UrlConfigs
    /\ gpc = "urls"
    /\ u = 1
    /\ crawled = {}
    /\ emitted = <<>>
    /\ gerr = FALSE

NextGather ==
    \/ ConfigEntry
    \/ EndOfUrls
    \/ Crawl
    \/ ReturnFromFetch

(* Gather is one thread of blocking calls, each assumed to return.        *)
SpecGather == InitGather /\ [][NextGather]_allVars /\ WF_allVars(NextGather)

-----------------------------------------------------------------------------
(* A node genNode built: a label and a non-empty domain id.               *)
NodeIds == Dcs \cup VsanUuids \cup Hosts \cup DiskNames \cup DsIds \cup VmIds \cup SnapIds \cup {SaiClusterDomainId}
NodeRec == [label : STRING, id : NodeIds]

EmitterTypeOK ==
    /\ Urls \in UrlConfigs
    /\ gpc \in {"urls", "crawl", "returned"}
    /\ u \in 1..(Len(Urls) + 1)
    /\ crawled \subseteq 1..Len(Urls)
    /\ emitted \in Seq([rel : STRING, a : NodeRec, b : NodeRec \cup {NoNode}])
    /\ gerr \in BOOLEAN

(***************************************************************************)
(* The db_relay graph a returned topology stands for, stated per kind of  *)
(* link rather than by the loops that emit it: the vCenter node with no  *)
(* datacenters, else every datacenter, cluster, host, datastore, disk     *)
(* group, disk and VM link, and the three points of every host.           *)
(***************************************************************************)
Node(label, id) == [label |-> label, id |-> id]
Link(rel, a, b) == [rel |-> rel, a |-> a, b |-> b]

(* The links of one host of g and of what it holds.                       *)
HostLinks(hv) ==
    LET host == Node("VMHost", hv.name)
        dg   == Node("VMVSanDiskGroup", hv.name)
    IN  ToSet(HostPoints(hv, TRUE))
        \cup {Link("VmClusterContainsVmHost", host, VcsaNode)}
        \cup {Link("VmHostContainsVmDisk", host, Node("VMDisk", k)) : k \in hv.disks}
        \cup UNION {{Link("VmClusterContainsVmDatastore", VcsaNode, Node("VMDatastore", d.uuid)),
                     Link("VmHostHasVmDatastore", host, Node("VMDatastore", d.uuid))}
                    \cup {Link("VmDatastoreComposesOfVmDisk", Node("VMDatastore", d.uuid),
                               Node("VMDisk", k)) : k \in d.disks}
                    : d \in hv.dss}
        \cup UNION {{Link("VmHostHasVmDiskGroup", host, dg),
                     Link("VSanDiskGroupHasCacheVmDisk", dg, Node("VMDisk", x.cache))}
                    \cup {Link("VSanDiskGroupHasCapacityVmDisk", dg, Node("VMDisk", k))
                          : k \in x.capacity}
                    : x \in hv.dgs}
        \cup UNION {{Link("VmHostHostsVmVirtualMachine", host, Node("VMVirtualMachine", v.name))}
                    \cup {Link("VmVirtualMachineUsesVmDatastore", Node("VMVirtualMachine", v.name),
                               Node("VMDatastore", s)) : s \in v.ds}
                    \cup {Link("VmVirtualMachineTakesVmSnapshot", Node("VMVirtualMachine", v.name),
                               Node("VMSnapshot", p)) : p \in ToSet(v.snaps)}
                    : v \in hv.vms}

(* The links of cluster c: its disk groups and the vSAN datastores of its *)
(* hosts.                                                                  *)
ClusterLinks(g, c) ==
    LET cn == Node("VMVSanCluster", c.uuid) IN
    UNION {{Link("VsanDatastoreContainsVmDiskGroup", Node("VMDatastore", d.uuid),
                 Node("VMVSanDiskGroup", h)) : d \in {x \in HostOf(g, h).dss : IsVsanDatastore(x)}}
           \cup {Link("VSanClusterContainsVSanDiskGroup", cn, Node("VMVSanDiskGroup", h))
                 : x \in HostOf(g, h).dgs}
           : h \in ToSet(c.hosts)}

ExpectedLinks(g) ==
    IF g = <<>> THEN {Link("node", VcsaNode, NoNode)}
    ELSE UNION {{Link("VmDataCenterContainsVmCluster", Node("VMDataCenter", dc.name), VcsaNode)}
                \cup UNION {{Link("VmDataCenterContainsVSanCluster", Node("VMDataCenter", dc.name),
                                  Node("VMVSanCluster", c.uuid))} \cup ClusterLinks(g, c)
                            : c \in ToSet(dc.clusters)}
                \cup UNION {HostLinks(hv) : hv \in ToSet(dc.hosts)}
                : dc \in ToSet(g)}

(***************************************************************************)
(* startAccNeo4j writes only links of the returned topology, and when     *)
(* Gather reports no error after a completed crawl it has written all of *)
(* them (the sai_event points aside, whose loss the code ignores): every *)
(* early return of the emission loops (genNode on an empty domain id)   *)
(* must surface as the error of Gather, never as a silently partial      *)
(* graph.                                                                  *)
(***************************************************************************)
EmissionMatchesTopology ==
    /\ pc = "done" => ToSet(emitted) \subseteq ExpectedLinks(Graph)
    /\ gpc = "returned" /\ pc = "done" /\ ~gerr =>
          {x \in ExpectedLinks(Graph) : x.rel # "sai_event"} \subseteq ToSet(emitted)


(***************************************************************************)
(* When n.Urls holds a well-formed entry, the crawl Gather runs for it    *)
(* implements the Topology specification: Gather neither starts it twice *)
(* nor leaves it before FetchVsphereTopology has returned.  This is       *)
(* Abstract!Spec with its weak fairness written as the eventual end of    *)
(* the pass (Assemble is enabled exactly while the result is pending),    *)
(* which is owed only when Gather reaches a vCenter.                       *)
(***************************************************************************)
HasVcenter == \E k \in 1..Len(Urls) : Urls[k] = "ok"

GatherImplementsTopology ==
    /\ Abstract!Init
    /\ [][Abstract!Assemble]_<<api, Result>>
    /\ HasVcenter => <>(Result # Abstract!Pending)

=============================================================================
