# TLA+ models of dp-pub-agent

This directory holds TLA+ specifications of dp-pub-agent (a Telegraf fork
with the `dcai` packages), the TLC configurations that check them, and
`PROJECT.json`. `PROJECT.json` records every component, every run and what it
shows, one mutant per checked property, the definition-to-source map, the
findings and the hazards. Run a model with
`tlc -workers 2 -config <cfg> <MC module>` inside this directory.

## 1. The system and how its parts interact

| Part | Source | What it does |
|---|---|---|
| vCenter crawl | `dcai/connector/vcsa/vcsa.go`, `dcai/dcaiagent.go`, `dcai/topology/*` | `FetchVsphereTopology` logs in and `GetTopology` walks datacenters → hosts → disks, datastores, vSAN clusters and disk groups, VMs. It builds `DatacenterConfig`/`ClusterConfig`/`EsxiHostConfig` objects and logs out (deferred). |
| vspheretpgy input | `plugins/inputs/vspheretpgy/vspheretpgy.go`, `dcai/event/event.go` | `Gather` takes the first well-formed vCenter of `n.Urls`, runs the crawl, and `startAccNeo4j` writes every relation of the graph as a `db_relay` point, with `sai_host`/`sai_cluster`/`sai_event` points per host. |
| vsphere input | `plugins/inputs/vsphere/vsphere.go` | `Gather` logs in, reads counter names, lists every managed object, builds tag summaries, queries 60 s of performance samples, aggregates each series by its rollup and writes entity, per-instance, pool and datastore points, then logs out. |
| smartctl parser and classifier | `dcai/hardware/disk/disk.go`, `dcai/util/util.go`, `dcai/type/type.go`, `plugins/inputs/smart/smart.go` | An ordered regex table over smartctl text (last match wins), health tables, `diskTypeMatch`, `IsValidDisk`, `parseRawValue`. It produces `sai_disk_smart` and `sai_disk`. |
| Local disk resolver | `dcai/hardware/disk/disk.go` | `GetLocalDisks`: scan headers plus `/dev/sg*` nodes expanded into cciss/Areca slots, one probe per header under a timeout, validity filter, WWN dedupe (first wins). |
| smart input | `plugins/inputs/smart/smart.go`, `dcai/topology/host/linux/linux.go` | `Gather` checks the smartctl path and permission, gets the agent and a fresh Linux host config, whose `GetDisks` runs `GetLocalDisks`. It then calls `gatherDisk` on each disk's stored smartctl output. |
| vspheresmart input | `plugins/inputs/vspheresmart/vspheresmart.go`, `dcai/connector/esxi/esxi.go` | `Gather` opens one ESXi connector per configured host (over ssh), lists each host's devices with `esxcli`, reads its hardware id, and for each listed disk runs smartctl. Each valid disk gets `sai_disk_smart`, `sai_disk` and a host event. |
| aiservice output | `plugins/outputs/aiservice/aiservice.go` | Logs in for a token and re-logs after `loginInterval`. It cuts each measurement into blocks of 100 and POSTs each block with up to 3 attempts. |

The parts interact in one direction. Telegraf calls each input's `Gather` once
per interval, never concurrently for one input. An input calls the crawl, the
disk resolver or the vSphere API, and puts points into the accumulator.
Telegraf's flush loop hands buffered points to the output's `Write`.

## 2. Modules

| Module | Models | State and actions ↔ code |
|---|---|---|
| `VsphereInventory` | The vSphere objects the crawl reads, and `findDiskByName`, `findDatastore`, the datastore URL uuid, `getVMDatastores`, and the snapshot walk of `getVMSnapshots`/`getVMFromSnapshotTree`. | Constants only: one record per host kind gives what the API answers for a host. Each VM's snapshot forest is `VmSnapshotRoots` and `SnapChildren`, and `SnapshotTree` walks it as a `RECURSIVE` operator. |
| `TopologyAssembler` | One pass of `FetchVsphereTopology`/`GetTopology`/`getHosts`. | Variables: `session`, `pc` (call in progress), the two loop indices, the locals of `getHosts`, the `clusters` heap and the shared `cls` slice (Go pointers as heap indices), `dcs`. Actions, one per call: `ConnectVsphere`, `RetrieveDatacenters`, `GetHostList`, `GetDisks`, `GetDatastores`, `GetVSANDiskgroups`, `GetVirtualMachines`, `BuildHost`, `FinishDatacenter`, `DisconnectVsphere`. |
| `Topology` | What a pass promises: it fails, or returns the whole graph in one step. | `result`. |
| `TopologyEmitter` | `Vspheretpgy.Gather` around the crawl, and `startAccNeo4j` with every emission function. | Variables: `Urls`, `gpc`, `u`, `crawled`, `emitted` (the `db_relay` links in order), `gerr`. Actions: `ConfigEntry`, `EndOfUrls`, `Crawl` (one crawl step), `ReturnFromFetch`. Each Go emission function is one operator. `ForEach` is Go's `for … if err != nil { return err }`, and `WithNode` is `genNode`'s early return. `VmVirtualMachineContainsVMSnapshot` writes the VM-to-snapshot links. |
| `SmartctlParser` | The pattern table, health tables, WWN normalisation, `diskTypeMatch`, `IsValidDisk`, `parseRawValue`/`parseInt`. | Pure operators. A line is abstracted to the expression it matches and the text it captures. |
| `SmartctlProbe` | `gatherDisk`: the SMART metric loop, `SendMetricsMonitoring`, the info loop, `CollectSaiDisk`. | Variables: `out`, `pc`, line index `i`, `tagWwn`, `fields`, `info`, `acc`. Actions: one per loop step and call. |
| `LocalDisks` | `GetLocalDisks` and its helpers. | Variables: `pc`, `headers`, `nodes`, `dl`, `seen`, `disks` (each with the output its probe read, `SmartctlOutput`), `full`, `faults`, and the history variable `probed` (`probed[k]` is what the probe of `headers[k]` returned). Each command step may fail or time out, up to `MaxFaults` of them. |
| `SmartGather` | `Smart.Gather` composed of `LocalDisks` and `SmartctlProbe` by `INSTANCE`. | Variables: `gpc`, the device index `x`, and the variables of both instances (the probe's `pc` renamed `dpc`). Actions: `Prepare` (the checks before `getAttributes`), `ResolveStep` (one `LocalDisks` step), `DisksReturned`, `GatherDisk` (a `gatherDisk` call starts on the disk's stored output), `DiskStep` (one `SmartctlProbe` step), `GatherDone`. |
| `EsxiSmart` | `VsphereSmart.Gather`, `parseConfig` and the ESXi connector, with the per-disk collection taken from `SmartctlProbe` by `INSTANCE`. | Variables: `spc`, the config, host and disk indices, the connectors `esxis`, the headers `dhs` of the current host, `listed`, `probed`, `errs`, `faults`, and the probe's variables. Actions: `ConnectEntry`, `ConfigParsed`, `GatherHost` (disk list, hostname, hardware id), `ProbeDisk` (smartctl and the validity check), `DiskStep`, `CollectSaiDisk`, `SendMetricsMonitoring`, `HostDone`, `GatherDone`. `ListedHeaders` cuts the `esxcli` listing into blocks as `GetDiskPathList` does. |
| `AIService` | `Connect`, `Write`, `makeAndDoRequest`, `retryCrit`, under Telegraf's buffer and flush loop. | Variables: clock, token, `refreshTime`, buffer, blocks, attempt, `sentBody`, what the server stored and what Telegraf dropped. Actions: `Connect`, `Produce`, `Tick`, `WriteFails`, `WriteWithoutAuthority`, `WriteStart`, `DoRequest`. |
| `VSphereMetrics` | `min`, `max`, `sum`, `average` and SetAcc's choice by rollup suffix. | Pure operators written as `FoldLeft` loops like the Go code, plus `RefValue`, a loop-free reference. |
| `VSphereCollector` | `VSphere.Gather`. | Variables: `gathers`, `sessions` (logged in, never logged out), `client`, and the inputs (`runtimeHost`, `perf`) and output (`acc`, `result`) of the last call. One Gather is one step with a disjunct per return: `GatherConnectFails`, `GatherFailsConnected` (metric names or query), `GatherCollects` (success, or logout failure). `setSummaryObjectMap`, `getFieldTag` and `SetAcc` are operators. |

Each `MC*` module fixes small constants for TLC.

## 3. Runs

| Run | Checks | Result |
|---|---|---|
| `topology_gather` | `TypeOK`, `EmitterTypeOK`, `ClusterIdentity`, `ResolvedReferencesOnly`, `VmSnapshotsPreOrder`, `EmissionMatchesTopology`, `GatherImplementsTopology` | pass |
| `topology_dc_clusters` | `DatacenterClustersLocal` | violation |
| `topology_vm_datastores` | `VmDatastoresComplete` | violation |
| `ai_output` | `TypeOK`, `WriteTerminates` | pass |
| `ai_silent_loss` | `NoSilentLoss` | violation |
| `ai_token_fresh` | `TokenCheckedFresh` | violation |
| `ai_retry_body` | `RetryResendsBody` | violation |
| `esxi_smart` | `TypeOK`, `LastMatchWins`, `DiskKeyAgreement`, `ListedDisksReported` | pass |
| `smart_raw_values` | `RawFieldsAsSpecified` | violation |
| `smart_classifier` | `ClassifierAsSpecified` | violation |
| `smart_gather` | `TypeOK`, `DisksIdentified`, `ValidProbeReported`, `CleanPassComplete`, `FirstProbedWins`, `MeasurementsKeyedByDisk` | pass |
| `vsphere_gather` | `AggregatesMatchReference`, `SeriesReported`, `TagsFromInventory` | pass |

What the passing runs show:

- **Cluster identity.** Find-or-create over the shared `cls` slice never creates two clusters with one uuid, and never lists a host under the wrong cluster (`ClusterIdentity`).
- **Resolved references.** Every datastore extent, disk-group disk and VM datastore resolves inside its own host (`ResolvedReferencesOnly`).
- **Snapshots.** Each VM's snapshot list is the pre-order walk of its snapshot forest (`VmSnapshotsPreOrder`). The check compares it with a definition that does not recurse: every reachable snapshot appears once, each subtree is a contiguous block that starts at its root, and siblings keep their order. The emitter then writes one link per snapshot, which `EmissionMatchesTopology` covers.
- **Refinement.** The crawl implements `Topology` under `result <- Result` (`GatherImplementsTopology`). The refinement is stated as `Abstract!Init`, `[][Abstract!Assemble]_…` and the liveness part under a configured vCenter, because TLC does not accept an implication with an action formula inside.
- **Emitted links.** The `db_relay` links written are links of the crawled graph, and all of them when Gather reports no error (`EmissionMatchesTopology`). `sai_event` points may be missing, because `SendMetricsMonitoring`'s error is ignored.
- **Send loops.** Every aiservice `Write` that reaches its send loop returns, whatever Go's map order and the server's answers (`WriteTerminates`): `makeAndDoRequest` gives up on a block after `maxRequestTimes` attempts.
- **smartctl fields on ESXi.** vspheresmart parses each smartctl output three times: the validity check, the metrics and the record. On every output of up to four key lines, timed-out prefixes included, the last matching line wins for every field (`LastMatchWins`). Each `sai_disk` directly follows its disk's `sai_disk_smart` with the same key, even when the WWN lines disagree (`DiskKeyAgreement`).
- **ESXi hosts.** When `Gather` returns, smartctl ran on every disk listed for every host it finished, and every valid disk it probed has a `sai_disk` (`ListedDisksReported`). This holds for a nil return and for the early return on one host's `GetHWID` error, where the hosts before the failing one are complete and none is half-reported. A host whose connector or listing fails is skipped, and an invalid disk skips only itself.
- **Local disks.** `GetLocalDisks` returns valid disks with distinct WWNs (`DisksIdentified`). It never loses a disk that one of its probes read in full (`ValidProbeReported`). Without faults it returns exactly the attached disks (`CleanPassComplete`). For each WWN, the disk it keeps is the first probe of the final loop that gave a valid disk, as spec 4.3 and 8 say (`FirstProbedWins`). This holds even when that probe timed out and a later header's full probe read more of the same disk. The check compares `disks` with a reference definition over the `probed` history.
- **Local SMART output.** Inside `Smart.Gather`, `gatherDisk` then adds one `sai_disk_smart` and one `sai_disk` per returned disk, in order. Each is keyed by the WWN the resolver deduplicated on, re-read from the same possibly timed-out output (`MeasurementsKeyedByDisk`).
- **vsphere aggregates.** `min`/`max`/`sum`/`average` agree with what each rollup means, for every sample list of up to three samples over {-1, 0, 3, 4} and for the samples of every Gather (`AggregatesMatchReference`).
- **vsphere series.** SetAcc reports every series in exactly one point, the entity's or its group's per instance. Each value is the aggregate of the last series for that metric and point, the point carries the entity's tags, and no point carries a metric its series lacked (`SeriesReported`).
- **vsphere tags.** VM and host tags come from the inventory that Gather saw (`TagsFromInventory`).

Each violation run checks one statement of `spec.md` or of the code's own
comments against what the code does. The finding in `PROJECT.json` says what
the counterexample shows:

- `cls` is shared across datacenters.
- `getVMDatastores` errors are dropped.
- With no token, `Write` returns nil and the batch is lost.
- A token can be stale or empty after `checkAuthoriyExpiration`.
- Retries reuse a drained request body.
- `parseRawValue` turns an unparsable token into 0.
- SAS overrides SATA in `diskTypeMatch`.

Every property of a passing run has a mutant in `PROJECT.json`: a plausible bug
in the mapped code (a dropped guard, an off-by-one, a missing reset) that TLC
then reports as a violation.

## 4. Bounds and why they are enough

- **`topology_gather`.**
  - Two URL lists: `<<unset, ok, ok>>` and `<<badlen>>`.
  - Datacenters with hosts `<<h1, h2>>`, `<<h3>>` and none.
  - Each host reports no uuid, `c1` or `c2`, or an empty hardware uuid. Every structural call may fail.
  - This covers a uuid first seen in one datacenter and seen again in another, two uuids in one datacenter, an empty datacenter, a failure after clusters exist, and an emission that stops at an empty domain id.
  - VM `v1` has two snapshot trees, `p1` with child `p2` and `p3` alone. A post-order walk or a walk of the roots only gives a different list.
- **`ai_output`.**
  - Two metrics of one measurement, plus the heartbeat.
  - Block size 1, so a Write has several blocks.
  - 3 attempts, login interval 2 and token lifetime 3, so a token expires before a re-login.
  - 4 ticks and 2 logins.
- **`esxi_smart`.**
  - Two configured hosts and at most one failed ssh command (a connector, a listing or a hardware id).
  - `esx2` lists a SAS disk, an NVMe device, an offline SAS disk and a SAS disk whose output may be cut. `esx1` lists a SATA disk and a `t10.` device.
  - smartctl on the SATA disk may print any sequence of up to four of ten key lines. Four lines are needed for a valid disk (WWN, rotation, transport) plus a second match for one field, which is where last-match-wins is tested.
  - The configuration has no short entry, which would fail every Gather before any host.
- **`smart_gather`.** One scan disk plus an unresolved entry; three `/dev/sg` nodes (a plain disk, an HP controller and an Areca controller); 2 cciss slots and 1×2 Areca slots; up to 2 failed commands. The prepare checks may fail too. Every disk reached through two headers, and every output a timeout can cut, then goes through `gatherDisk`.
- **`vsphere_gather`.**
  - One VM, two hosts (one in cluster `cl1`), one pool.
  - The VM's runtime host is chosen in every Gather: `h1`, `h2` or none. So a VM on a clustered host, a VM on an unclustered host, and hosts left without a cluster tag are all reached.
  - Each entity may answer the metric query or be skipped, and may return no series, cpu averages (with an all-missing instance, giving the NaN average), or datastore and net series where two instances of a datastore counter collide.
  - Three Gathers, so failures with an open session can be followed by later calls.

## 5. Fairness

- **`TopologyAssembler`/`TopologyEmitter`, `SmartctlProbe`, `LocalDisks`, `SmartGather`, `EsxiSmart`.** They use `WF` on their next-state relation. Each is one goroutine of blocking calls that the code always goes on to make. Only `GatherImplementsTopology` depends on it. No run states termination for the SMART inputs: every one of their loops is a range loop over a finite list, so termination would hold by the model's shape.
  - The vCenter calls run under `context.Background()` with no deadline, so a hung call would stall the pass. That is listed as a hazard, and the liveness part of `GatherImplementsTopology` assumes every call returns.
  - The disk commands run under `ExecuteCmdWithTimeout`, and the ssh commands under `ExecuteSshCmdwithtimeout`. Both guarantee that the call returns.
- **`AIService`.** Only `DoRequest` is fair: an HTTP attempt returns within the client's timeout. Producing metrics, ticks and flushes are the environment and are left unfair.
- **`VSphereCollector`.** No fairness: it states only safety. It has no type invariant in its run. No realistic bug of `Gather` can take its counters out of range, and TLC cannot decide whether a field value is an integer or a sample list.
- **Deadlock.** Runs that end at a bound (`MaxGathers`, `MaxTime`, a finished pass) set `CHECK_DEADLOCK FALSE` and say so in the cfg.

## 6. Not modelled

- **Crawl and emitter gaps.** Virtual NICs are not modelled in the crawl. They go into the host record, but no property reads them and the emitter writes no link for them.
- **Snapshot ids across VMs.** A snapshot's domain id is the `%d` of its tree `Id`. vCenter numbers these ids per VM, so two VMs can give `db_relay` the same `VMSnapshot` node. The model has one VM, and the ids are model values, so this merge is not checked.
- **ESXi details.**
  - The smartctl path, user and password are abstracted to "the connector opens or fails". A nil server list is a configuration constant.
  - `t10.` devices (often local SATA disks) are never probed: only a `naa.` line names a disk. The model keeps this, and no property asks for them.
  - `GetDiskPathList` gives a `naa.` disk the Is SAS / Is Offline flags of a non-`naa.`/`t10.` device listed after it. `esxi_smart` reaches this, but no run states what the listing should do. Neither the spec nor the code says, so it is recorded as a hazard.
  - A `GetHWID` failure ends the whole Gather. The model keeps this early return, and `ListedDisksReported` checks what it leaves behind. No property asks that later hosts be gathered, because the code deliberately fails the whole Gather.
- **`sai/agent`.** A stateless count of measurements into error flags. `AddSaiAgentMetric` is never called.
- **saphana, tpgy, the Linux host, cpu, mem, dmidecode and NIC parsers.** These are fixed-schema text and SQL formatting, with no concurrency, retry or persistent state. Reading them found the following, all things a unit test reaches directly rather than a model checker:
  - saphana's `Gather` never calls `getHostNetwork`, although `TestGather` expects a `sap_host_network` point.
  - saphana's `records["tcp_segments_received"]` is overwritten by the `TCP_BAD_SEGMENTS_RECEIVED` row.
  - `NewAllNetworkInfo` appends a nil NIC when `ip addr` lists only `lo`. This is recorded as a hazard.
  - `FetchAgentHostConfig` rebuilds the host config, and so its md5 HWID, on every call, while `NewLinuxHostConfig` swallows the errors of `dmidecode` and `ip`. A transient failure can change `host_domain_id` within one Gather. This is recorded as a hazard.
- **Record constructors** (`sai/cluster`, `topology/snapshot`) and `testutil`.
- **vsphere details.**
  - Object names and lowercasing, the `datastore` tag parsed from `VmPathName`, and the values of extra metrics. No property tells them apart.
  - The panic of `serie.Value[len-1]` on an empty series. vSphere returns at least one sample.
  - The dereference of nil pool limits.
  - Which of these matter is recorded as hazards in `PROJECT.json`, with a note where no run covers them: orphaned sessions after errors, the empty host cluster tag, and the architecture-dependent NaN average.
