----------------------------- MODULE SmartGather -----------------------------
(***************************************************************************)
(* Smart.Gather of src/plugins/inputs/smart/smart.go on a Linux host: the *)
(* smartctl path, permission, agent and host-config checks, then          *)
(* getAttributes, which asks the host config for its disks               *)
(* (LinuxHostConfig.GetDisks runs GetLocalDisks on a fresh config every   *)
(* Gather) and calls gatherDisk on each disk returned, in order, on the   *)
(* smartctl output stored with the disk.  The two components are the      *)
(* modules LocalDisks and SmartctlProbe, composed by INSTANCE: the output *)
(* a probe of GetLocalDisks read, cut short by a timeout or not, is what  *)
(* gatherDisk parses.                                                      *)
(***************************************************************************)
EXTENDS SmartctlParser

CONSTANTS ScanOutput, DevNodes, ProbeOut, CcissMaxSlotNum,
          ArecaMaxEnclosureNum, ArecaMaxSlotNum, MaxFaults

VARIABLES
    gpc,       \* Smart.Gather: "start" | "resolve" | "disks" | "done" | "failed"
    x,         \* index of the next device of the getAttributes loop
    pc, headers, nodes, j, dl, k, seen, disks, full, faults, probed,  \* GetLocalDisks
    out, dpc, i, tagWwn, fields, info, acc                     \* gatherDisk

ldVars == <<pc, headers, nodes, j, dl, k, seen, disks, full, faults, probed>>
probeVars == <<out, dpc, i, tagWwn, fields, info, acc>>
vars == <<gpc, x, ldVars, probeVars>>

LD == INSTANCE LocalDisks

(* The outputs a probe of GetLocalDisks can store: a prefix of one.       *)
ProbedOutputs ==
    UNION {{SubSeq(ProbeOut[h], 1, n) : n \in 0..Len(ProbeOut[h])} : h \in DOMAIN ProbeOut}

P == INSTANCE SmartctlProbe WITH pc <- dpc, Outputs <- ProbedOutputs

(***************************************************************************)
(* The checks before getAttributes: GetCmdPathInOsPath or CheckCmdPath,   *)
(* checkSmartctlPermission, GetDcaiAgent and FetchAgentHostConfig; the    *)
(* first that fails ends Gather with its error.                           *)
(***************************************************************************)
Prepare ==
    /\ gpc = "start"
    /\ gpc' \in {"resolve", "failed"}
    /\ UNCHANGED <<x, ldVars, probeVars>>

(* h.GetDisks: one step of GetLocalDisks.                                 *)
ResolveStep ==
    /\ gpc = "resolve"
    /\ LD!Next
    /\ UNCHANGED <<gpc, x, probeVars>>

(* GetDisks returns: its error ends Gather, its list starts the loop.    *)
DisksReturned ==
    /\ gpc = "resolve"
    /\ pc \in {"done", "failed"}
    /\ gpc' = IF pc = "done" THEN "disks" ELSE "failed"
    /\ x' = 1
    /\ UNCHANGED <<ldVars, probeVars>>

(***************************************************************************)
(* gatherDisk(device): CollectSmartMetricsBySmartctlOutput starts on      *)
(* device.SmartctlOutput with fresh tags and fields.                       *)
(***************************************************************************)
GatherDisk ==
    /\ gpc = "disks"
    /\ dpc \in {"idle", "done"}
    /\ x <= Len(disks)
    /\ out' = disks[x].out
    /\ dpc' = "metrics"
    /\ i' = 1
    /\ tagWwn' = Nil
    /\ fields' = <<>>
    /\ x' = x + 1
    /\ UNCHANGED <<gpc, ldVars, info, acc>>

(* One step of gatherDisk: a line of either loop, or a measurement.      *)
DiskStep ==
    /\ gpc = "disks"
    /\ P!Next
    /\ UNCHANGED <<gpc, x, ldVars>>

(* Mutant: the loop ends one device early.                                *)
GatherDoneEarly ==
    /\ gpc = "disks"
    /\ dpc \in {"idle", "done"}
    /\ x >= Len(disks)
    /\ gpc' = "done"
    /\ UNCHANGED <<x, ldVars, probeVars>>

(* The loop of getAttributes ends; Gather returns nil.                    *)
GatherDone ==
    /\ gpc = "disks"
    /\ dpc \in {"idle", "done"}
    /\ x > Len(disks)
    /\ gpc' = "done"
    /\ UNCHANGED <<x, ldVars, probeVars>>

Init ==
    /\ gpc = "start"
    /\ x = 1
    /\ LD!Init
    /\ out = <<>>
    /\ dpc = "idle"
    /\ i = 1
    /\ tagWwn = Nil
    /\ fields = <<>>
    /\ info = ClearTargets(InfoTable)
    /\ acc = <<>>

Next ==
    \/ Prepare
    \/ ResolveStep
    \/ DisksReturned
    \/ GatherDisk
    \/ DiskStep
    \/ GatherDone

(* Gather is one sequential call whose commands all return.              *)
Spec == Init /\ [][Next]_vars /\ WF_vars(Next)

-----------------------------------------------------------------------------
TypeOK ==
    /\ LD!TypeOK
    /\ gpc \in {"start", "resolve", "disks", "done", "failed"}
    /\ x \in 1..(Len(disks) + 1)
    /\ dpc \in {"idle", "metrics", "event", "info", "done"}
    /\ i \in 1..(Len(out) + 1)
    /\ \A a \in 1..Len(acc) : acc[a].name \in {"sai_disk_smart", "sai_event", "sai_disk"}

(* GetLocalDisks' own properties, checked inside Gather: the disks       *)
(* returned are valid with distinct WWNs (spec 3), a disk some probe read *)
(* in full is among them, and a pass without failures returns exactly    *)
(* the attached disks (see LocalDisks).                                   *)
DisksIdentified == LD!DisksIdentified

ValidProbeReported == LD!ValidProbeReported

CleanPassComplete == LD!CleanPassComplete

FirstProbedWins == LD!FirstProbedWins

(* The disk_domain_id of every measurement named n, in order.            *)
Keys(n) == LET s == SelectSeq(acc, LAMBDA m : m.name = n) IN [a \in 1..Len(s) |-> s[a].domain]

(***************************************************************************)
(* Spec 3 carried to the output: when Gather returns nil it has added one *)
(* sai_disk_smart and one sai_disk per disk GetLocalDisks returned, in    *)
(* its order, each keyed by that disk's WWN, so the metrics loop re-read *)
(* the key the resolver deduplicated on, from the same (possibly          *)
(* timed-out) output, and no disk was skipped or gathered twice.         *)
(***************************************************************************)
MeasurementsKeyedByDisk ==
    gpc = "done" =>
        LET wwns == [n \in 1..Len(disks) |-> disks[n].rec["WWN"]] IN
        Keys("sai_disk_smart") = wwns /\ Keys("sai_disk") = wwns

=============================================================================
