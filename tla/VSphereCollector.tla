--------------------------- MODULE VSphereCollector ---------------------------
(***************************************************************************)
(* The vsphere input (src/plugins/inputs/vsphere/vsphere.go).  Telegraf    *)
(* calls Gather once per interval, never concurrently for one input; a     *)
(* Gather runs Connect, SetMetricToName, QueryPerformances (datacenters,  *)
(* container views, the summaries of setSummaryObjectMap and the          *)
(* performance query), SetAcc and Disconnect, and returns at the first    *)
(* error.  One Gather is one step, with one disjunct per way it returns.   *)
(*                                                                         *)
(* Managed objects are model values and a name is the object itself;     *)
(* morToName and the lowercasing are left out.  A performance series is a *)
(* record of its counter, its instance and its samples; metricToName      *)
(* gives every counter its group, its rollup and whether its name        *)
(* contains "datastore".  Extra metrics (uptime, core count, limits,      *)
(* capacity) carry the value 0: no property tells them apart.             *)
(***************************************************************************)
EXTENDS VSphereMetrics, FiniteSets

CONSTANTS
    VMs, Hosts, Clusters, Pools, Datastores,
    NoHost,            \* vm.Summary.Runtime.Host == nil: a clone in progress
    ClusterHosts,      \* [Clusters -> SUBSET Hosts]: cl.Host
    PoolVms,           \* [Pools -> SUBSET VMs]: pool.Vm
    HostUuid, VmUuid,  \* Hardware.SystemInfo.Uuid and Config.Uuid
    DsUuid,            \* the uuid vmfsRegexp finds in a datastore URL, or ""
    Counters, CounterGroup, CounterRollup,
    DatastoreCounters, \* counters whose name contains "datastore"
    NoInstance,        \* the instance "" of an aggregate series
    Responses,         \* the series lists QueryPerf may return for an entity
    MaxGathers

VARIABLES
    gathers,      \* Gather calls so far
    sessions,     \* sessions logged in on the server and never logged out
    client,       \* v.client: "none", "open" or "closed"
    runtimeHost,  \* vm.Summary.Runtime.Host as seen by the last Gather
    perf,         \* performances.Returnval of the last Gather: entity -> series
    acc,          \* the points the last Gather added to the accumulator
    result        \* what the last Gather returned

vars == <<gathers, sessions, client, runtimeHost, perf, acc, result>>

Entities == VMs \cup Hosts

(* strings.ToLower(pem.Entity.Type)                                       *)
EntityType(e) == IF e \in VMs THEN "virtualmachine" ELSE "hostsystem"

-----------------------------------------------------------------------------
(* setSummaryObjectMap.  hostToCluster is filled inside the loop over the *)
(* VMs, for every host of every cluster, but only when a VM with a        *)
(* runtime host exists; vmToCluster is the cluster listing the VM's host. *)
HostToCluster(vh) ==
    [h \in Hosts |->
        IF (\E vm \in VMs : vh[vm] # NoHost) /\ (\E c \in Clusters : h \in ClusterHosts[c])
        THEN CHOOSE c \in Clusters : h \in ClusterHosts[c]
        ELSE ""]

(* Mutant: the *vmhost == host comparison dropped.                        *)
VmToClusterAnyHost(vh) ==
    [vm \in VMs |->
        IF vh[vm] # NoHost /\ \E c \in Clusters : ClusterHosts[c] # {}
        THEN CHOOSE c \in Clusters : ClusterHosts[c] # {}
        ELSE ""]

VmToCluster(vh) ==
    [vm \in VMs |->
        IF vh[vm] # NoHost /\ \E c \in Clusters : vh[vm] \in ClusterHosts[c]
        THEN CHOOSE c \in Clusters : vh[vm] \in ClusterHosts[c]
        ELSE ""]

VmToPool ==
    [vm \in VMs |->
        IF \E p \in Pools : vm \in PoolVms[p]
        THEN CHOOSE p \in Pools : vm \in PoolVms[p] ELSE ""]

(* hostSummary and hostExtraMetrics                                       *)
HostSummary(vh, h) ==
    ("name" :> h) @@ ("host_uuid" :> HostUuid[h]) @@ ("cluster" :> HostToCluster(vh)[h])

(* vmSummary: cluster and respool only when non-empty, esx only with a    *)
(* runtime host; the datastore tag parsed from VmPathName is left out.    *)
VmSummary(vh, vm) ==
    LET cl == VmToCluster(vh)[vm]
        rp == VmToPool[vm]
    IN ("name" :> vm) @@ ("domain_id" :> VmUuid[vm])
         @@ (IF cl # "" THEN "cluster" :> cl ELSE << >>)
         @@ (IF rp # "" THEN "respool" :> rp ELSE << >>)
         @@ (IF vh[vm] # NoHost THEN "esx" :> HostUuid[vh[vm]] ELSE << >>)

(* getFieldTag                                                             *)
EntityTags(vh, e) == IF e \in VMs THEN VmSummary(vh, e) ELSE HostSummary(vh, e)

ExtraFields(e) ==
    IF e \in VMs THEN "uptime" :> 0
    ELSE ("uptime" :> 0) @@ ("cpu_corecount_total" :> 0)

-----------------------------------------------------------------------------
(* SetAcc.  A series of a counter whose name contains "datastore" loses    *)
(* its instance; a series without an instance is a field of the entity's  *)
(* point, any other one a field of the point of its group, entity and     *)
(* instance.  A later series of the same metric and point overwrites an   *)
(* earlier one.                                                            *)
InstanceNameKept(s) == s.inst

InstanceName(s) == IF s.c \in DatastoreCounters THEN NoInstance ELSE s.inst

(* The value of metric m written last among the series at indices K.      *)
LastValue(S, K, m) ==
    LET k == Max({j \in K : S[j].c = m})
    IN SeriesValue(CounterRollup[S[k].c], S[k].n)

EntityPoint(vh, e, S) ==
    LET K == {k \in 1..Len(S) : InstanceName(S[k]) = NoInstance}
    IN [meas   |-> EntityType(e),
        tags   |-> EntityTags(vh, e),
        fields |-> [m \in {S[k].c : k \in K} |-> LastValue(S, K, m)] @@ ExtraFields(e)]

SpecialPoints(vh, e, S) ==
    LET K(g, i) == {k \in 1..Len(S) : CounterGroup[S[k].c] = g /\ InstanceName(S[k]) = i}
        keys    == {<<CounterGroup[S[k].c], InstanceName(S[k])>> : k \in 1..Len(S)}
    IN {[meas   |-> gi[1],
         tags   |-> ("instance" :> gi[2]) @@ EntityTags(vh, e),
         fields |-> [m \in {S[k].c : k \in K(gi[1], gi[2])} |-> LastValue(S, K(gi[1], gi[2]), m)]]
        : gi \in {x \in keys : x[2] # NoInstance}}

PoolPoints ==
    {[meas |-> "resourcepool", tags |-> "pool_name" :> p,
      fields |-> ("cpu_limit" :> 0) @@ ("memory_limit" :> 0)] : p \in Pools}

DatastorePoints ==
    {[meas |-> "datastore", tags |-> ("ds_name" :> d) @@ ("uuid" :> DsUuid[d]),
      fields |-> ("capacity" :> 0) @@ ("free_space" :> 0)] : d \in Datastores}

SetAcc(vh, P) ==
    UNION {{EntityPoint(vh, e, P[e])} \cup SpecialPoints(vh, e, P[e]) : e \in DOMAIN P}
      \cup PoolPoints \cup DatastorePoints

-----------------------------------------------------------------------------
(* Gather.  Every path counts the call; v.objectMap and v.Summary are      *)
(* rebuilt by each call, so only the inputs and the output of the last    *)
(* one are kept.  A failing path adds no point.                           *)
Called == gathers < MaxGathers /\ gathers' = gathers + 1

(* Connect fails: v.client is left as it was.                             *)
GatherConnectFails ==
    /\ Called
    /\ result' = "connect_failed" /\ acc' = {}
    /\ UNCHANGED <<sessions, client, runtimeHost, perf>>

(* Connect succeeds, then SetMetricToName or QueryPerformances fails: the *)
(* Gather returns without Disconnect and the new session stays open.     *)
GatherFailsConnected ==
    /\ Called
    /\ \E r \in {"metrics_failed", "query_failed"} : result' = r
    /\ sessions' = sessions + 1 /\ client' = "open" /\ acc' = {}
    /\ UNCHANGED <<runtimeHost, perf>>

(* QueryPerformances succeeds.  Entities whose QueryAvailablePerfMetric   *)
(* failed or listed no metric are left out of the query; QueryPerf       *)
(* returns a series list for every other one.  SetAcc adds the points,   *)
(* then Disconnect logs out the new client or fails and leaves it open.   *)
GatherCollects ==
    /\ Called
    /\ \E vh \in [VMs -> Hosts \cup {NoHost}], q \in SUBSET Entities :
       \E P \in [q -> Responses] :
          /\ runtimeHost' = vh
          /\ perf' = P
          /\ acc' = SetAcc(vh, P)
    /\ \/ sessions' = sessions /\ client' = "closed" /\ result' = "ok"
       \/ sessions' = sessions + 1 /\ client' = "open" /\ result' = "disconnect_failed"

Init ==
    /\ gathers = 0 /\ sessions = 0 /\ client = "none"
    /\ runtimeHost = [vm \in VMs |-> NoHost] /\ perf = << >> /\ acc = {}
    /\ result = "none"

Next == GatherConnectFails \/ GatherFailsConnected \/ GatherCollects

Spec == Init /\ [][Next]_vars

-----------------------------------------------------------------------------

(***************************************************************************)
(* min, max, sum and average of vsphere.go agree with what the rollups     *)
(* mean, for every series of up to three samples with missing (-1) and   *)
(* zero samples: min and max of the valid samples or -1, the total, the   *)
(* mean of the valid samples rounded half up (when there is one), and the *)
(* last sample for "latest" and unknown rollups; and the same for every   *)
(* sample list of the last Gather's performance response.                *)
(***************************************************************************)
SampleSeqs == BoundedSeq({-1, 0, 3, 4}, 3) \ {<< >>}

ReportedSamples == UNION {{perf[e][k].n : k \in 1..Len(perf[e])} : e \in DOMAIN perf}

AggregatesMatchReference ==
    \A r \in Rollups, n \in SampleSeqs \cup ReportedSamples :
        (r = "average" => Valid(n) # {}) => SeriesValue(r, n) = RefValue(r, n)

(***************************************************************************)
(* SetAcc reports every series of a successful Gather: a series without   *)
(* an instance, or of a "datastore" counter, in the entity's point, any   *)
(* other in the one point of its group and instance, which also carries   *)
(* every tag of the entity; under its metric name, with the value of the *)
(* last series of that metric for that point; and no point of an entity  *)
(* holds a metric none of its series had.                                 *)
(***************************************************************************)
Dest(e, s) ==
    IF s.inst = NoInstance \/ s.c \in DatastoreCounters
    THEN <<EntityType(e), e, NoInstance>>
    ELSE <<CounterGroup[s.c], e, s.inst>>

PointDest(p) ==
    <<p.meas, p.tags["name"], IF "instance" \in DOMAIN p.tags THEN p.tags["instance"] ELSE NoInstance>>

EntityOutput == {p \in acc : "name" \in DOMAIN p.tags}

SeriesReported ==
    result = "ok" =>
      /\ \A e \in DOMAIN perf : \A k \in 1..Len(perf[e]) :
           LET s == perf[e][k]
               last == \A j \in k+1..Len(perf[e]) :
                         perf[e][j].c = s.c => Dest(e, perf[e][j]) # Dest(e, s)
           IN \E p \in EntityOutput :
                /\ PointDest(p) = Dest(e, s)
                /\ s.c \in DOMAIN p.fields
                /\ last => p.fields[s.c] = SeriesValue(CounterRollup[s.c], s.n)
                /\ \A t \in DOMAIN EntityTags(runtimeHost, e) \ {"instance"} :
                     t \in DOMAIN p.tags /\ p.tags[t] = EntityTags(runtimeHost, e)[t]
      /\ \A p, p2 \in EntityOutput : PointDest(p) = PointDest(p2) => p = p2
      /\ \A p \in EntityOutput :
           /\ p.tags["name"] \in DOMAIN perf
           /\ \A m \in DOMAIN p.fields \ DOMAIN ExtraFields(p.tags["name"]) :
                \E k \in 1..Len(perf[p.tags["name"]]) :
                   /\ perf[p.tags["name"]][k].c = m
                   /\ Dest(p.tags["name"], perf[p.tags["name"]][k]) = PointDest(p)

(***************************************************************************)
(* Every point of a VM or host from a successful Gather is tagged from the *)
(* inventory that Gather saw: a VM's cluster tag names the cluster whose  *)
(* host list holds the VM's runtime host, and is absent when there is    *)
(* none; its esx tag is the uuid of that host, absent for a clone in     *)
(* progress; its respool tag the pool listing it.  A host's cluster tag  *)
(* is the cluster listing it or empty (setSummaryObjectMap fills          *)
(* hostToCluster only while walking VMs).                                 *)
(***************************************************************************)
ClustersOf(h) == {c \in Clusters : h \in ClusterHosts[c]}

TagOr(p, t) == IF t \in DOMAIN p.tags THEN {p.tags[t]} ELSE {}

TagsFromInventory ==
    result = "ok" =>
      \A p \in EntityOutput :
        LET e == p.tags["name"] IN
        /\ e \in VMs =>
             /\ TagOr(p, "cluster") = ClustersOf(runtimeHost[e])
             /\ TagOr(p, "esx") = {HostUuid[h] : h \in {runtimeHost[e]} \ {NoHost}}
             /\ TagOr(p, "respool") = {q \in Pools : e \in PoolVms[q]}
        /\ e \in Hosts => TagOr(p, "cluster") \subseteq ClustersOf(e) \cup {""}

=============================================================================
