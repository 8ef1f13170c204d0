\* Gather calls of the vsphere input, with every way a call returns.
CONSTANTS
    vm1 = vm1  h1 = h1  h2 = h2  cl1 = cl1  rp1 = rp1
    ds1 = ds1  ds2 = ds2  cpuAvg = cpuAvg  dsLatest = dsLatest  netSum = netSum
    core0 = core0  core1 = core1
    VMs = {vm1}
    Hosts = {h1, h2}
    Clusters = {cl1}
    Pools = {rp1}
    Datastores = {ds1, ds2}
    NoHost = NoHost
    NaNInt64 = NaNInt64
    NoInstance = ""
    Counters = {cpuAvg, dsLatest, netSum}
    DatastoreCounters = {dsLatest}
    ClusterHosts <- MCClusterHosts
    PoolVms <- MCPoolVms
    HostUuid <- MCHostUuid
    VmUuid <- MCVmUuid
    DsUuid <- MCDsUuid
    CounterGroup <- MCCounterGroup
    CounterRollup <- MCCounterRollup
    Responses <- MCResponses
    MaxGathers = 3
SPECIFICATION Spec
INVARIANT AggregatesMatchReference SeriesReported TagsFromInventory
\* Telegraf stops calling Gather after MaxGathers calls.
CHECK_DEADLOCK FALSE
