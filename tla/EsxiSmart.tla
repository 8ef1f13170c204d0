------------------------------ MODULE EsxiSmart ------------------------------
(***************************************************************************)
(* The vspheresmart input (src/plugins/inputs/vspheresmart/vspheresmart.go)*)
(* with its ESXi connector (src/dcai/connector/esxi/esxi.go): parseConfig *)
(* opens one connector per configured host, skipping those that fail;    *)
(* Gather then lists each host's devices with esxcli, reads its hostname *)
(* and hardware id, and for each listed disk reads smartctl over ssh,    *)
(* skips it when NewDiskInfoBySmartctlOutput finds no valid disk, and    *)
(* otherwise adds its SMART metrics, its sai_disk record and a host event.*)
(* The per-disk parsing is that of SmartctlProbe, composed by INSTANCE,  *)
(* in this input's order: metrics, sai_disk, event.                        *)
(*                                                                         *)
(* Every ssh command runs under a timeout.  A failed connector, device    *)
(* listing or hardware-id command uses one unit of MaxFaults; the smartctl*)
(* output is the environment's and may be any member of RawOutputs, a    *)
(* timed-out prefix included, since its error is ignored.                 *)
(***************************************************************************)
EXTENDS SmartctlParser, FiniteSets

CONSTANTS
    Vspheres,     \* the configured hosts, in order: [full, host]
    Devices,      \* esxcli storage core device list of each host: [name, id, sas, offline]
    RawOutputs,   \* smartctl outputs a header may return, by header
    MaxFaults     \* ssh commands that may fail in one Gather

VARIABLES
    spc,      \* "config" | "hosts" | "disks" | "done" | "failed"
    e,        \* index into Vspheres in parseConfig
    esxis,    \* the connectors parseConfig returns, as hosts
    errs,     \* errors added to the accumulator
    hx,       \* index into esxis
    dhs,      \* the disk headers GetDiskPathList returned for esxis[hx]
    dx,       \* index into dhs
    listed,   \* host -> its disk headers, for every host listed so far
    probed,   \* <<host, header, output>> of every disk smartctl was run on
    faults,   \* failed ssh commands so far
    out, dpc, i, tagWwn, fields, info, acc   \* the per-disk collection

gatherVars == <<spc, e, esxis, errs, hx, dhs, dx, listed, probed, faults>>
probeVars == <<out, dpc, i, tagWwn, fields, info, acc>>
vars == <<gatherVars, probeVars>>

P == INSTANCE SmartctlProbe WITH pc <- dpc, Outputs <- UNION {RawOutputs[h] : h \in DOMAIN RawOutputs}

Header(path, dt) == [path |-> path, dt |-> dt]

(***************************************************************************)
(* GetDiskPathList on an esxcli listing.  The text is cut into blocks,    *)
(* each starting where "naa." or "t10." starts a line (the grep has      *)
(* dropped every other line holding them) and running to the next such   *)
(* start; the text before the first start is ignored.  In a block,       *)
(* FindRegexpMatchAndSet keeps the last "Is SAS" and "Is Offline" values *)
(* and the naa name, which only a naa. device line gives.                 *)
(***************************************************************************)
IsStart(dev) == dev.name \in {"naa", "t10"}

Starts(devs) == {p \in 1..Len(devs) : IsStart(devs[p])}

(* The last device of the block that starts at p.                         *)
BlockEnd(devs, p) ==
    LET later == {q \in Starts(devs) : q > p}
    IN IF later = {} THEN Len(devs) ELSE Min(later) - 1

BlockHeader(devs, p) ==
    LET last == devs[BlockEnd(devs, p)]
    IN Header(devs[p].id, IF last.sas = "false" THEN "sat" ELSE "scsi")

Listable(devs, p) == devs[p].name = "naa" /\ devs[BlockEnd(devs, p)].offline # "true"

ListedHeaders(devs) ==
    LET ps == SetToSortSeq({p \in Starts(devs) : Listable(devs, p)}, <)
    IN [n \in 1..Len(ps) |-> BlockHeader(devs, ps[n])]

(***************************************************************************)
(* parseConfig, one entry: an entry with fewer than four parameters ends  *)
(* Gather with an error; otherwise NewEsxiConnector runs which/ls over   *)
(* ssh, and a connector it cannot open is an added error and skipped.    *)
(***************************************************************************)
ConnectEntry ==
    /\ spc = "config"
    /\ e <= Len(Vspheres)
    /\ IF ~Vspheres[e].full
       THEN spc' = "failed" /\ UNCHANGED <<esxis, errs, faults>>
       ELSE \/ esxis' = Append(esxis, Vspheres[e].host) /\ UNCHANGED <<spc, errs, faults>>
            \/ /\ faults < MaxFaults
               /\ faults' = faults + 1
               /\ errs' = errs + 1
               /\ UNCHANGED <<spc, esxis>>
    /\ e' = e + 1
    /\ UNCHANGED <<hx, dhs, dx, listed, probed, probeVars>>

ConfigParsed ==
    /\ spc = "config"
    /\ e > Len(Vspheres)
    /\ spc' = "hosts"
    /\ hx' = 1
    /\ UNCHANGED <<e, esxis, errs, dhs, dx, listed, probed, faults, probeVars>>

(***************************************************************************)
(* The body of the host loop before its disks: GetDiskPathList (a failed *)
(* command, or a listing without a naa./t10. device, skips the host),    *)
(* GetHostname (its error ignored), then GetHWID, whose error ends Gather.*)
(***************************************************************************)
GatherHost ==
    /\ spc = "hosts"
    /\ hx <= Len(esxis)
    /\ LET h == esxis[hx] IN
       \/ /\ faults < MaxFaults
          /\ faults' = faults + 1
          /\ hx' = hx + 1
          /\ UNCHANGED <<spc, dhs, dx, listed>>
       \/ /\ Starts(Devices[h]) = {}
          /\ hx' = hx + 1
          /\ UNCHANGED <<spc, dhs, dx, listed, faults>>
       \/ /\ Starts(Devices[h]) # {}
          /\ listed' = listed @@ (h :> ListedHeaders(Devices[h]))
          /\ \/ /\ dhs' = ListedHeaders(Devices[h])
                /\ dx' = 1
                /\ spc' = "disks"
                /\ UNCHANGED faults
             \/ /\ faults < MaxFaults
                /\ faults' = faults + 1
                /\ spc' = "failed"
                /\ UNCHANGED <<dhs, dx>>
          /\ UNCHANGED hx
    /\ UNCHANGED <<e, esxis, errs, probed, probeVars>>

(***************************************************************************)
(* One disk: GetDiskSmartRawOutput, then NewDiskInfoBySmartctlOutput; an *)
(* invalid disk is skipped, a valid one is collected from the same       *)
(* output: CollectSmartMetricsBySmartctlOutput starts with fresh tags.    *)
(***************************************************************************)
ProbeDisk ==
    /\ spc = "disks"
    /\ dpc \in {"idle", "sent"}
    /\ dx <= Len(dhs)
    /\ \E o \in RawOutputs[dhs[dx]] :
          /\ probed' = probed \cup {<<esxis[hx], dhs[dx], o>>}
          /\ IF IsValidDisk(DiskRecord(FindRegexpMatchAndSet(o, InfoTable)))
             THEN /\ out' = o
                  /\ dpc' = "metrics"
                  /\ i' = 1
                  /\ tagWwn' = Nil
                  /\ fields' = <<>>
             ELSE UNCHANGED <<out, dpc, i, tagWwn, fields>>
    /\ dx' = dx + 1
    /\ UNCHANGED <<spc, e, esxis, errs, hx, dhs, listed, faults, info, acc>>

(* A line of either loop, the sai_disk_smart or the sai_disk record.      *)
DiskStep ==
    /\ spc = "disks"
    /\ \/ P!ScanMetricLine
       \/ P!AddSmartMetrics
       \/ P!ScanInfoLine
       \/ P!AddSaiDisk
    /\ UNCHANGED gatherVars

(* Mutant: the line loop of the second parse starts at index 0.          *)
CollectSaiDiskZeroBased ==
    /\ spc = "disks"
    /\ dpc = "event"
    /\ dpc' = "info"
    /\ i' = 0
    /\ info' = ClearTargets(InfoTable)
    /\ UNCHANGED <<gatherVars, out, tagWwn, fields, acc>>

(* CollectSaiDiskBySmartctlOutput starts: FindRegexpMatchAndSet clears.   *)
CollectSaiDisk ==
    /\ spc = "disks"
    /\ dpc = "event"
    /\ dpc' = "info"
    /\ i' = 1
    /\ info' = ClearTargets(InfoTable)
    /\ UNCHANGED <<gatherVars, out, tagWwn, fields, acc>>

(* event.SendMetricsMonitoring for the host; its error is ignored.        *)
SendMetricsMonitoring ==
    /\ spc = "disks"
    /\ dpc = "done"
    /\ \/ acc' = Append(acc, [name |-> "sai_event", domain |-> Nil, fields |-> <<>>])
       \/ UNCHANGED acc
    /\ dpc' = "sent"
    /\ UNCHANGED <<gatherVars, out, i, tagWwn, fields, info>>

(* Mutant: the disk loop ends one disk early.                             *)
HostDoneEarly ==
    /\ spc = "disks"
    /\ dpc \in {"idle", "sent"}
    /\ dx >= Len(dhs)
    /\ spc' = "hosts"
    /\ hx' = hx + 1
    /\ UNCHANGED <<e, esxis, errs, dhs, dx, listed, probed, faults, probeVars>>

(* The disk loop of one host ends.                                        *)
HostDone ==
    /\ spc = "disks"
    /\ dpc \in {"idle", "sent"}
    /\ dx > Len(dhs)
    /\ spc' = "hosts"
    /\ hx' = hx + 1
    /\ UNCHANGED <<e, esxis, errs, dhs, dx, listed, probed, faults, probeVars>>

(* The host loop ends; Gather returns nil.                                *)
GatherDone ==
    /\ spc = "hosts"
    /\ hx > Len(esxis)
    /\ spc' = "done"
    /\ UNCHANGED <<e, esxis, errs, hx, dhs, dx, listed, probed, faults, probeVars>>

(* GetDcaiAgent: without the agent Gather returns its error at once;     *)
(* otherwise parseConfig starts.                                           *)
Init ==
    /\ spc \in {"config", "failed"}
    /\ e = 1
    /\ esxis = <<>>
    /\ errs = 0
    /\ hx = 1
    /\ dhs = <<>>
    /\ dx = 1
    /\ listed = <<>>
    /\ probed = {}
    /\ faults = 0
    /\ out = <<>>
    /\ dpc = "idle"
    /\ i = 1
    /\ tagWwn = Nil
    /\ fields = <<>>
    /\ info = ClearTargets(InfoTable)
    /\ acc = <<>>

Next ==
    \/ ConnectEntry
    \/ ConfigParsed
    \/ GatherHost
    \/ ProbeDisk
    \/ DiskStep
    \/ CollectSaiDisk
    \/ SendMetricsMonitoring
    \/ HostDone
    \/ GatherDone

(* Gather is one sequential call whose ssh commands all return.           *)
Spec == Init /\ [][Next]_vars /\ WF_vars(Next)

-----------------------------------------------------------------------------
TypeOK ==
    /\ spc \in {"config", "hosts", "disks", "done", "failed"}
    /\ e \in 1..(Len(Vspheres) + 1)
    /\ hx \in 1..(Len(esxis) + 1)
    /\ dx \in 1..(Len(dhs) + 1)
    /\ faults \in 0..MaxFaults
    /\ dpc \in {"idle", "metrics", "event", "info", "done", "sent"}
    /\ i \in 1..(Len(out) + 1)
    /\ \A a \in 1..Len(acc) : acc[a].name \in {"sai_disk_smart", "sai_event", "sai_disk"}

(* Spec 4.1 on the smartctl output read over ssh: see SmartctlProbe.      *)
LastMatchWins == P!LastMatchWins

(***************************************************************************)
(* The SMART metrics of an ESXi disk join its disk record: every sai_disk *)
(* directly follows the sai_disk_smart of the same disk, with the same   *)
(* disk_domain_id, though the output was parsed three times (validity,   *)
(* metrics, record) and may be a timed-out prefix.                        *)
(***************************************************************************)
DiskKeyAgreement ==
    \A b \in 1..Len(acc) :
        acc[b].name = "sai_disk" =>
            b > 1 /\ acc[b - 1].name = "sai_disk_smart" /\ acc[b - 1].domain = acc[b].domain

(* The disk NewDiskInfoBySmartctlOutput reads from an output.             *)
OutputDisk(o) == DiskRecord(FindRegexpMatchAndSet(o, InfoTable))

(***************************************************************************)
(* When Gather returns, nil or the GetHWID error of one host, smartctl    *)
(* was run on every disk listed for every host it finished (all of them, *)
(* or all but the failing one), and every output that showed a valid     *)
(* disk has a sai_disk record with its WWN: an invalid disk skips only    *)
(* itself, and the early return never leaves a disk half-reported in the *)
(* accumulator Telegraf keeps.                                             *)
(***************************************************************************)
ListedDisksReported ==
    spc \in {"done", "failed"} =>
        /\ \A h \in {h0 \in DOMAIN listed : spc = "failed" => h0 # esxis[hx]} :
              \A n \in 1..Len(listed[h]) : \E t \in probed : t[1] = h /\ t[2] = listed[h][n]
        /\ \A t \in probed :
              IsValidDisk(OutputDisk(t[3])) =>
                  \E a \in 1..Len(acc) : acc[a].name = "sai_disk" /\ acc[a].domain = OutputDisk(t[3])["WWN"]

=============================================================================
