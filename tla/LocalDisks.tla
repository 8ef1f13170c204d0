----------------------------- MODULE LocalDisks -----------------------------
(***************************************************************************)
(* GetLocalDisks of src/dcai/hardware/disk/disk.go: the disk headers of   *)
(* smartctl --scan-open, then those derived from the /dev/sg* nodes (a    *)
(* node that reports an HP storage array or an Areca controller expands   *)
(* into one header per controller slot), then one smartctl probe per     *)
(* header; valid disks are kept, the first disk of each WWN wins.         *)
(*                                                                         *)
(* Every command runs under a fixed timeout.  A command that times out    *)
(* returns the output it printed so far, a prefix of its full output;    *)
(* NewLocalDiskInfoBySmartctl ignores the error and parses the prefix.    *)
(* A probe may also fail outright when the sudo permission check fails.   *)
(* Each failure uses one unit of the MaxFaults budget.                     *)
(***************************************************************************)
EXTENDS SmartctlParser, FiniteSets

CONSTANTS
    ScanOutput,       \* lines of smartctl --scan-open, as [path, dt] records
    DevNodes,         \* the /dev/sg* nodes listed by ls, in order
    ProbeOut,         \* full smartctl --xall output of each header that reaches a device
    CcissMaxSlotNum,  \* CCISS_MAX_SLOT_NUM
    ArecaMaxEnclosureNum, \* ARECA_MAX_ENCLOSURE_NUM
    ArecaMaxSlotNum,  \* ARECA_MAX_SLOT_NUM
    MaxFaults         \* commands that may fail or time out in one pass

VARIABLES
    pc,        \* "start" | "scan" | "ls" | "classify" | "probe" | "done" | "failed"
    headers,   \* diskHeaderList
    nodes,     \* the devnode list of getLocalDiskListByDevNode
    j,         \* index into nodes
    dl,        \* disklist of getLocalDiskListByDevNode
    k,         \* index into headers
    seen,      \* the keys of diskMapBySN
    disks,     \* the result
    full,      \* indices of headers whose final probe returned its whole output
    faults,    \* failed or timed-out commands so far
    probed     \* history: probed[k] is what the probe of headers[k] returned, [ok, rec]

vars == <<pc, headers, nodes, j, dl, k, seen, disks, full, faults, probed>>

(* A header: device path and the -d device type (kind, slot, enclosure). *)
Dt(kind, a, b) == [kind |-> kind, a |-> a, b |-> b]
Header(path, dt) == [path |-> path, dt |-> dt]

(* The output of a probe of h that ran to completion.                     *)
FullOutput(h) == IF h \in DOMAIN ProbeOut THEN ProbeOut[h] ELSE <<>>

(* The disk a probe of h yields when it printed its first n lines.       *)
ProbeRecord(h, n) == DiskRecord(FindRegexpMatchAndSet(SubSeq(FullOutput(h), 1, n), InfoTable))

(***************************************************************************)
(* The outcomes of one NewLocalDiskInfoBySmartctl: the permission check   *)
(* fails ("err"), or smartctl prints n of its lines (n below the full     *)
(* length only on a timeout).  Failures are taken from the budget.       *)
(***************************************************************************)
Outcomes(h) ==
    {[err |-> FALSE, n |-> Len(FullOutput(h))]}
    \cup (IF faults < MaxFaults
          THEN {[err |-> TRUE, n |-> 0]}
               \cup {[err |-> FALSE, n |-> m] : m \in 0..(Len(FullOutput(h)) - 1)}
          ELSE {})

IsFault(o, h) == o.err \/ o.n < Len(FullOutput(h))

(* NewDiskHeaderFromSmartctlScan on every line; blank and comment lines   *)
(* have an empty text before the # and yield no header.                   *)
ScanHeaders == SelectSeq(ScanOutput, LAMBDA l : l.path # "")

(* Mutant: the cciss slots are numbered from 1.                           *)
GenerateDisklistByDevtypeFromOne(devpath, devtype) ==
    IF devtype = "cciss"
    THEN [s \in 1..CcissMaxSlotNum |-> Header(devpath, Dt("cciss", s, 0))]
    ELSE FlattenSeq([e \in 1..ArecaMaxEnclosureNum |->
                        [s \in 1..ArecaMaxSlotNum |-> Header(devpath, Dt("areca", s, e))]])

(* generateDisklistByDevtype: one header per slot, enclosure-major.       *)
GenerateDisklistByDevtype(devpath, devtype) ==
    IF devtype = "cciss"
    THEN [s \in 1..CcissMaxSlotNum |-> Header(devpath, Dt("cciss", s - 1, 0))]
    ELSE FlattenSeq([e \in 1..ArecaMaxEnclosureNum |->
                        [s \in 1..ArecaMaxSlotNum |-> Header(devpath, Dt("areca", s, e))]])

(* util.CheckCmdPath on the smartctl path.                                *)
CheckCmdPath ==
    /\ pc = "start"
    /\ \/ pc' = "scan"
       \/ pc' = "failed"
    /\ UNCHANGED <<headers, nodes, j, dl, k, seen, disks, full, faults, probed>>

(***************************************************************************)
(* getLocalDiskListBySmartctlScan and its append: on a permission or     *)
(* command error (a timeout included) the list is dropped.                *)
(***************************************************************************)
GetLocalDiskListBySmartctlScan ==
    /\ pc = "scan"
    /\ \/ headers' = headers \o ScanHeaders /\ UNCHANGED faults
       \/ faults < MaxFaults /\ faults' = faults + 1 /\ UNCHANGED headers
    /\ pc' = "ls"
    /\ UNCHANGED <<nodes, j, dl, k, seen, disks, full, probed>>

(* ls /dev/sg*: on error getLocalDiskListByDevNode returns nothing.       *)
ListDevNodes ==
    /\ pc = "ls"
    /\ \/ /\ nodes' = DevNodes /\ j' = 1 /\ dl' = <<>>
          /\ pc' = "classify" /\ UNCHANGED <<k, faults>>
       \/ /\ faults < MaxFaults /\ faults' = faults + 1
          /\ pc' = "probe" /\ k' = 1 /\ UNCHANGED <<nodes, j, dl>>
    /\ UNCHANGED <<headers, seen, disks, full, probed>>

(***************************************************************************)
(* One iteration of the loop of getLocalDiskListByDevNode: probe the node *)
(* as a scsi device and expand it by what it reports.                     *)
(***************************************************************************)
ClassifyNode ==
    /\ pc = "classify"
    /\ j <= Len(nodes)
    /\ LET dh == Header(nodes[j], Dt("scsi", 0, 0)) IN
       \E o \in Outcomes(dh) :
          /\ faults' = IF IsFault(o, dh) THEN faults + 1 ELSE faults
          /\ dl' = IF o.err THEN dl
                   ELSE LET d == ProbeRecord(dh, o.n) IN
                        CASE d["PeripheralDevtype"] = <<"storage array">> ->
                               IF d["Vendor"] = <<"HP">>
                               THEN dl \o GenerateDisklistByDevtype(nodes[j], "cciss") ELSE dl
                          [] d["PeripheralDevtype"] = <<"disk">> -> Append(dl, dh)
                          [] OTHER ->
                               IF d["Vendor"] = <<"Areca">>
                               THEN dl \o GenerateDisklistByDevtype(nodes[j], "areca") ELSE dl
    /\ j' = j + 1
    /\ UNCHANGED <<pc, headers, nodes, k, seen, disks, full, probed>>

(* Mutant: the loop restarts at index 0.                                  *)
FinishDevNodesZeroBased ==
    /\ pc = "classify"
    /\ j > Len(nodes)
    /\ headers' = headers \o dl
    /\ pc' = "probe"
    /\ k' = 0
    /\ UNCHANGED <<nodes, j, dl, seen, disks, full, faults, probed>>

(* getLocalDiskListByDevNode returns its list; GetLocalDisks appends it.  *)
FinishDevNodes ==
    /\ pc = "classify"
    /\ j > Len(nodes)
    /\ headers' = headers \o dl
    /\ pc' = "probe"
    /\ k' = 1
    /\ UNCHANGED <<nodes, j, dl, seen, disks, full, faults, probed>>

(* Mutant: the WWN map is not consulted.                                  *)
AdmitNoDedupe(d, err) == ~err /\ IsValidDisk(d)

(* The disk is appended: no error, valid, and its WWN not yet in the map. *)
Admit(d, err) == ~err /\ IsValidDisk(d) /\ d["WWN"] \notin seen

(* Mutant: every probed WWN enters the map before the validity check.     *)
MarkSeenBeforeValid(d, err) == IF ~err THEN seen \cup {d["WWN"]} ELSE seen

(* diskMapBySN[d.WWN] = d for an appended disk.                           *)
MarkSeen(d, err) == IF Admit(d, err) THEN seen \cup {d["WWN"]} ELSE seen

(* Mutant: a later valid disk of a WWN already in the map replaces the    *)
(* first one.                                                              *)
ProbeHeaderLastWins ==
    /\ pc = "probe"
    /\ k <= Len(headers)
    /\ LET h == headers[k] IN
       \E o \in Outcomes(h) :
          LET d == ProbeRecord(h, o.n)
              e == [hdr |-> h, rec |-> d, out |-> SubSeq(FullOutput(h), 1, o.n)]
          IN
          /\ faults' = IF IsFault(o, h) THEN faults + 1 ELSE faults
          /\ full' = IF IsFault(o, h) THEN full ELSE full \cup {k}
          /\ seen' = MarkSeen(d, o.err)
          /\ disks' = CASE Admit(d, o.err) -> Append(disks, e)
                         [] ~o.err /\ IsValidDisk(d) ->
                              [x \in DOMAIN disks |-> IF disks[x].rec["WWN"] = d["WWN"] THEN e ELSE disks[x]]
                         [] OTHER -> disks
          /\ probed' = SubSeq(probed, 1, k - 1) \o <<[ok |-> ~o.err, rec |-> d]>>
    /\ k' = k + 1
    /\ UNCHANGED <<pc, headers, nodes, j, dl>>

(***************************************************************************)
(* One iteration of the final loop of GetLocalDisks: probe the header;   *)
(* skip it on error or when the disk is not valid; keep the first disk   *)
(* of every WWN, with the output its probe read (its SmartctlOutput).    *)
(***************************************************************************)
ProbeHeader ==
    /\ pc = "probe"
    /\ k <= Len(headers)
    /\ LET h == headers[k] IN
       \E o \in Outcomes(h) :
          LET d == ProbeRecord(h, o.n) IN
          /\ faults' = IF IsFault(o, h) THEN faults + 1 ELSE faults
          /\ full' = IF IsFault(o, h) THEN full ELSE full \cup {k}
          /\ seen' = MarkSeen(d, o.err)
          /\ disks' = IF Admit(d, o.err)
                      THEN Append(disks, [hdr |-> h, rec |-> d, out |-> SubSeq(FullOutput(h), 1, o.n)])
                      ELSE disks
          /\ probed' = SubSeq(probed, 1, k - 1) \o <<[ok |-> ~o.err, rec |-> d]>>
    /\ k' = k + 1
    /\ UNCHANGED <<pc, headers, nodes, j, dl>>

FinishProbes ==
    /\ pc = "probe"
    /\ k > Len(headers)
    /\ pc' = "done"
    /\ UNCHANGED <<headers, nodes, j, dl, k, seen, disks, full, faults, probed>>

Init ==
    /\ pc = "start"
    /\ headers = <<>>
    /\ nodes = <<>>
    /\ j = 1
    /\ dl = <<>>
    /\ k = 1
    /\ seen = {}
    /\ disks = <<>>
    /\ full = {}
    /\ faults = 0
    /\ probed = <<>>

Next ==
    \/ CheckCmdPath
    \/ GetLocalDiskListBySmartctlScan
    \/ ListDevNodes
    \/ ClassifyNode
    \/ FinishDevNodes
    \/ ProbeHeader
    \/ FinishProbes

(* GetLocalDisks is one sequential call whose commands all return.       *)
Spec == Init /\ [][Next]_vars /\ WF_vars(Next)

-----------------------------------------------------------------------------
Phases == {"start", "scan", "ls", "classify", "probe", "done", "failed"}

TypeOK ==
    /\ pc \in Phases
    /\ k \in 1..(Len(headers) + 1)
    /\ j \in 1..(Len(nodes) + 1)
    /\ full \subseteq 1..Len(headers)
    /\ seen \subseteq Seq(STRING)
    /\ faults \in 0..MaxFaults

(* The WWNs of the disks GetLocalDisks returns.                            *)
Reported == {disks[x].rec["WWN"] : x \in 1..Len(disks)}

(* The disk a header reaches, as a complete probe reads it.               *)
FullRecord(h) == ProbeRecord(h, Len(FullOutput(h)))

(* The valid disks attached to the host, by WWN.                          *)
Expected == {FullRecord(h)["WWN"] : h \in {h0 \in DOMAIN ProbeOut : IsValidDisk(FullRecord(h0))}}

(***************************************************************************)
(* Spec 3: within one pass every disk GetLocalDisks returns has a        *)
(* non-empty WWN and a concrete SAS/SATA type, and no two share a WWN,   *)
(* although one device is reached through several headers (its scan     *)
(* entry and its /dev/sg node).                                           *)
(***************************************************************************)
DisksIdentified ==
    /\ \A x \in 1..Len(disks) : IsValidDisk(disks[x].rec)
    /\ \A x, y \in 1..Len(disks) : x # y => disks[x].rec["WWN"] # disks[y].rec["WWN"]

(***************************************************************************)
(* A timed-out probe does not hide a disk another probe read in full:     *)
(* when the final loop has probed a header to completion and it is a     *)
(* valid disk, that disk's WWN is among the result, whatever earlier      *)
(* partial probes of the same device returned.                            *)
(***************************************************************************)
ValidProbeReported ==
    pc = "done" =>
        \A x \in full : IsValidDisk(FullRecord(headers[x])) => FullRecord(headers[x])["WWN"] \in Reported

(***************************************************************************)
(* A pass in which no command fails or times out reports exactly the     *)
(* valid disks attached, those on the scan list and those behind the     *)
(* controllers the /dev/sg nodes report.                                  *)
(***************************************************************************)
CleanPassComplete ==
    pc = "done" /\ faults = 0 => Reported = Expected

(* A probe result that IsValidDisk accepts.                               *)
ValidProbe(p) == p.ok /\ IsValidDisk(p.rec)

(* Reference for the dedupe of spec 4.3: of the disks the probes returned, *)
(* in header order, each valid one whose WWN no earlier valid one had.     *)
FirstValidPerWwn(ps) ==
    LET firsts == SelectSeq([y \in 1..Len(ps) |-> y],
                    LAMBDA y : /\ ValidProbe(ps[y])
                               /\ \A z \in 1..(y - 1) :
                                     ValidProbe(ps[z]) => ps[z].rec["WWN"] # ps[y].rec["WWN"])
    IN [x \in 1..Len(firsts) |-> ps[firsts[x]].rec]

(***************************************************************************)
(* Spec 4.3 and 8: of the disks reached through several headers (a scan  *)
(* entry and its /dev/sg node), the record kept is the one of the first   *)
(* header whose probe yielded a valid disk, even when that probe was cut  *)
(* short by a timeout and a later probe read the device in full; the list *)
(* so far is always the first valid disk of each WWN, in probe order.     *)
(***************************************************************************)
FirstProbedWins ==
    [x \in 1..Len(disks) |-> disks[x].rec] = FirstValidPerWwn(probed)

=============================================================================
