------------------------ MODULE MCTopologyAssembler ------------------------
(***************************************************************************)
(* Small inventories for TopologyAssembler.  Two families of host views:  *)
(* ClusterKinds vary only the vSAN uuid (and the empty hardware uuid), to *)
(* exercise find-or-create across hosts and datacenters; RefKinds vary    *)
(* the disks, datastores, disk mapping and VMs of a host, to exercise the *)
(* cross references and the retrieval errors the crawl discards.          *)
(***************************************************************************)
EXTENDS TopologyAssembler

CONSTANTS dc1, dc2, dc3, h1, h2, h3, d1, d2, s1, s2, v1, c1, c2, p1, p2, p3

(* dc3 has no hosts.                                                       *)
MCDatacenters3 == <<dc1, dc2, dc3>>
MCHostsOf3 == [dc \in {dc1, dc2, dc3} |->
                 CASE dc = dc1 -> <<h1, h2>> [] dc = dc2 -> <<h3>> [] OTHER -> <<>>]
MCDatacenters1 == <<dc1>>
MCHostsOf1 == [dc \in {dc1} |-> <<h1, h2>>]

MCDiskNames == {d1, d2}
MCDsIds == {s1, s2}
(* s1: a VMFS datastore on d1 with a well-formed URL; s2: a VMFS datastore *)
(* on d2 whose URL does not end in /<uuid>/.                               *)
MCDsInfo == [d \in MCDsIds |->
                IF d = s1 THEN [vmfs |-> TRUE, urlOk |-> TRUE, extents |-> {d1}]
                ELSE [vmfs |-> TRUE, urlOk |-> FALSE, extents |-> {d2}]]
MCVmIds == {v1}
MCVmDatastores == [v \in MCVmIds |-> {s1, s2}]
MCVsanUuids == {c1, c2}
(* v1 has two snapshot trees: p1 with the child p2, and p3 alone, so a    *)
(* walk that lists a snapshot after its children, or misses a child,     *)
(* gives another list.                                                     *)
MCSnapIds == {p1, p2, p3}
MCSnapChildren == [s \in MCSnapIds |-> IF s = p1 THEN <<p2>> ELSE <<>>]
MCVmSnapshotRoots == [v \in MCVmIds |-> <<p1, p3>>]

Plain == [uuidOk |-> TRUE, luns |-> {d1, d2}, ds |-> {}, dsFails |-> FALSE,
          vsan |-> Empty, dm |-> [ssd |-> NoDisk, nonSsd |-> {}],
          vms |-> {}, vmFails |-> FALSE, vmDsFails |-> FALSE]

(* Hosts that differ in the vSAN cluster they report; one has no uuid.    *)
ClusterKinds ==
    {[Plain EXCEPT !.vsan = u] : u \in {Empty, c1, c2}}
    \cup {[Plain EXCEPT !.vsan = c1, !.uuidOk = FALSE]}

(* Hosts that differ in their cross references.                           *)
RefKinds ==
    {[Plain EXCEPT !.luns = l, !.ds = {s1}, !.vsan = c1,
                   !.dm = [ssd |-> d1, nonSsd |-> {d2}]] : l \in {{d1}, {d1, d2}}}
    \cup {[Plain EXCEPT !.ds = {s1, s2}, !.vms = {v1}, !.dsFails = f] : f \in BOOLEAN}
    \cup {[Plain EXCEPT !.ds = {s1}, !.vms = {v1}, !.vmFails = f, !.vmDsFails = g]
            : f, g \in BOOLEAN}

(* Hosts whose retrievals all succeed; one runs VM v1 on s1 and s2, and  *)
(* s2's URL yields no uuid, so v1's reference to s2 does not resolve.     *)
VmRefKinds == {Plain, [Plain EXCEPT !.ds = {s1, s2}, !.vms = {v1}]}
=============================================================================
