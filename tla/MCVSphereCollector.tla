-------------------------- MODULE MCVSphereCollector --------------------------
(* One VM and two hosts, one cluster holding h1, one pool holding vm1.      *)
(* The counters: a cpu average (aggregate and per core), a datastore      *)
(* latest reported per instance, and a net summation per instance.       *)
EXTENDS VSphereCollector

CONSTANTS vm1, h1, h2, cl1, rp1, ds1, ds2, cpuAvg, dsLatest, netSum, core0, core1

MCClusterHosts == [c \in {cl1} |-> {h1}]
MCPoolVms == [p \in {rp1} |-> {vm1}]
MCHostUuid == [h \in {h1, h2} |-> IF h = h1 THEN "uuid-h1" ELSE "uuid-h2"]
MCVmUuid == [v \in {vm1} |-> "uuid-vm1"]
MCDsUuid == [d \in {ds1, ds2} |-> IF d = ds1 THEN "vmfs-1" ELSE ""]
MCCounterGroup == [c \in {cpuAvg, dsLatest, netSum} |->
                     IF c = cpuAvg THEN "cpu" ELSE IF c = dsLatest THEN "datastore" ELSE "net"]
MCCounterRollup == [c \in {cpuAvg, dsLatest, netSum} |->
                     IF c = cpuAvg THEN "average" ELSE IF c = dsLatest THEN "latest" ELSE "summation"]

(* The series lists an entity's performance may hold.                      *)
MCResponses ==
    { << >>,
      << [c |-> cpuAvg, inst |-> "", n |-> <<3, 4>>],
         [c |-> cpuAvg, inst |-> core0, n |-> <<-1, 3>>],
         [c |-> cpuAvg, inst |-> core1, n |-> <<-1, -1>>] >>,
      << [c |-> dsLatest, inst |-> core0, n |-> <<4>>],
         [c |-> dsLatest, inst |-> core1, n |-> <<0, 3>>],
         [c |-> netSum, inst |-> core0, n |-> <<3, -1, 4>>],
         [c |-> netSum, inst |-> core0, n |-> <<0>>] >> }
=============================================================================
