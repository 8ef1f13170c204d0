---------------------------- MODULE SmartctlProbe ----------------------------
(***************************************************************************)
(* gatherDisk of plugins/inputs/smart/smart.go for one disk: the SMART    *)
(* metrics of CollectSmartMetricsBySmartctlOutput (one loop over the      *)
(* lines of the stored smartctl output), the monitoring event, then the   *)
(* sai_disk record of CollectSaiDiskBySmartctlOutput, which re-parses the *)
(* same output with NewDiskInfoBySmartctlOutput / FindRegexpMatchAndSet.  *)
(* Each iteration of either line loop is one step.  The two measurements  *)
(* are joined downstream on their disk_domain_id tag.                      *)
(***************************************************************************)
EXTENDS SmartctlParser, FiniteSets

CONSTANT Outputs    \* the smartctl outputs (sequences of lines) a disk may have

VARIABLES
    out,      \* device.SmartctlOutput
    pc,       \* "metrics" | "event" | "info" | "done"
    i,        \* index of the next line of the current loop
    tagWwn,   \* saidisksmarttags["disk_wwn"] (a missing key reads as "")
    fields,   \* saidisksmartfields (the numeric SMART fields)
    info,     \* the targets of FindRegexpMatchAndSet
    acc       \* measurements added to the Telegraf accumulator, in order

vars == <<out, pc, i, tagWwn, fields, info, acc>>

(* saidisksmartfields[n] = x.                                               *)
SetField(f, n, x) == [m \in DOMAIN f \cup {n} |-> IF m = n THEN x ELSE f[m]]

Init ==
    /\ out \in Outputs
    /\ pc = "metrics"
    /\ i = 1
    /\ tagWwn = Nil
    /\ fields = <<>>
    /\ info = ClearTargets(InfoTable)
    /\ acc = <<>>

(* Mutant: the SATA WWN is taken without removing its spaces.              *)
SmartWwnUnstripped(v) == v

(* The disk_wwn tag of a "LU WWN Device Id" line: spaces removed.           *)
SmartWwn(v) == StripSpaces(v)

(***************************************************************************)
(* The fields one line contributes.  Every numeric capture of these       *)
(* expressions is [0-9]+, so ParseInt succeeds; the raw value of an       *)
(* attribute line is stored when parseRawValue reports no error.  The two *)
(* error-counter rows (read, write) are kept as one field each.           *)
(***************************************************************************)
LineFields(f, line) ==
    CASE line.k = "temp"    -> SetField(f, "CurrentDriveTemperature_raw", IntValue(line.v))
      [] line.k = "trip"    -> SetField(f, "DriveTripTemperature_raw", IntValue(line.v))
      [] line.k = "defects" -> SetField(f, "ElementsInGrownDefectList_raw", IntValue(line.v))
      [] line.k = "poh"     -> SetField(f, "9_raw", IntValue(line.v))
      [] line.k = "attr"    -> IF ParseRawValue(line.v).ok
                               THEN SetField(f, line.id \o "_raw", ParseRawValue(line.v).val)
                               ELSE f
      [] line.k = "ecl" /\ line.id \in {"read", "write"}
                            -> SetField(f, "ErrorCounter_" \o line.id, line.v)
      [] OTHER              -> f

(* One iteration of the line loop of CollectSmartMetricsBySmartctlOutput. *)
ScanMetricLine ==
    /\ pc = "metrics"
    /\ i <= Len(out)
    /\ LET line == out[i] IN
       /\ tagWwn' = CASE line.k = "wwn"  -> SmartWwn(line.v)
                      [] line.k = "luid" -> line.v
                      [] OTHER           -> tagWwn
       /\ fields' = LineFields(fields, line)
    /\ i' = i + 1
    /\ UNCHANGED <<out, pc, info, acc>>

(* acc.AddFields("sai_disk_smart", ...): disk_domain_id is disk_wwn.       *)
AddSmartMetrics ==
    /\ pc = "metrics"
    /\ i > Len(out)
    /\ acc' = Append(acc, [name |-> "sai_disk_smart", domain |-> tagWwn,
                           fields |-> fields])
    /\ pc' = "event"
    /\ UNCHANGED <<out, i, tagWwn, fields, info>>

(***************************************************************************)
(* event.SendMetricsMonitoring: adds a sai_event, unless GetDcaiAgent or  *)
(* createSaiEventMetric fails; gatherDisk ignores the error.  Then        *)
(* CollectSaiDiskBySmartctlOutput starts: FindRegexpMatchAndSet clears    *)
(* its targets.                                                            *)
(***************************************************************************)
SendMetricsMonitoring ==
    /\ pc = "event"
    /\ \/ acc' = Append(acc, [name |-> "sai_event", domain |-> Nil, fields |-> <<>>])
       \/ UNCHANGED acc
    /\ pc' = "info"
    /\ i' = 1
    /\ info' = ClearTargets(InfoTable)
    /\ UNCHANGED <<out, tagWwn, fields>>

(* One iteration of the line loop of FindRegexpMatchAndSet.                *)
ScanInfoLine ==
    /\ pc = "info"
    /\ i <= Len(out)
    /\ info' = MatchLine(info, out[i], InfoTable)
    /\ i' = i + 1
    /\ UNCHANGED <<out, pc, tagWwn, fields, acc>>

(* The rest of NewDiskInfoBySmartctlOutput, then CreateSaiDiskDataPoint.  *)
AddSaiDisk ==
    /\ pc = "info"
    /\ i > Len(out)
    /\ LET d == DiskRecord(info) IN
       acc' = Append(acc, [name |-> "sai_disk", domain |-> d["WWN"], fields |-> d])
    /\ pc' = "done"
    /\ UNCHANGED <<out, i, tagWwn, fields, info>>

Next ==
    \/ ScanMetricLine
    \/ AddSmartMetrics
    \/ SendMetricsMonitoring
    \/ ScanInfoLine
    \/ AddSaiDisk

(* gatherDisk is sequential code; every step is taken.                    *)
Spec == Init /\ [][Next]_vars /\ WF_vars(Next)

-----------------------------------------------------------------------------
Line == [k : Kinds, id : STRING, v : Seq(STRING)]

TypeOK ==
    /\ out \in Outputs
    /\ pc \in {"metrics", "event", "info", "done"}
    /\ i \in 1..(Len(out) + 1)
    /\ \A j \in 1..Len(out) : out[j] \in Line
    /\ tagWwn \in Seq(STRING)
    /\ info \in [Targets -> Seq(STRING)]
    /\ \A n \in DOMAIN fields : fields[n] \in Int \cup Seq(STRING)
    /\ \A a \in 1..Len(acc) :
          /\ acc[a].name \in {"sai_disk_smart", "sai_event", "sai_disk"}
          /\ acc[a].domain \in Seq(STRING)

(***************************************************************************)
(* The last matching line wins (spec 4.1): while FindRegexpMatchAndSet    *)
(* runs, each target holds the capture of the last line read so far that *)
(* matches one of the target's expressions, and is empty when none did.   *)
(***************************************************************************)
LastMatch(lines, t) ==
    LET j == SelectLastInSeq(lines, LAMBDA l : \E p \in ToSet(InfoTable) : p.t = t /\ p.k = l.k)
    IN IF j = 0 THEN Nil ELSE lines[j].v

LastMatchWins ==
    pc = "info" => \A t \in Targets : info[t] = LastMatch(SubSeq(out, 1, i - 1), t)

(***************************************************************************)
(* Spec 4.2: the classifier picks the family by the rotation rate and     *)
(* refines it to SATA when there is a SATA version, else to SAS when the  *)
(* transport says SAS (SATA wins).                                         *)
(***************************************************************************)
SpecDiskType(sata, transport, rot) ==
    LET fam == IF Contains(rot, "rpm") THEN "HDD" ELSE IF Contains(rot, "Solid") THEN "SSD" ELSE "Unknown"
        ty  == [HDD |-> <<DiskTypeHDD, DiskTypeHDDSATA, DiskTypeHDDSAS>>,
                SSD |-> <<DiskTypeSSD, DiskTypeSSDSATA, DiskTypeSSDSAS>>]
    IN IF fam = "Unknown" THEN DiskTypeUnknown
       ELSE IF sata # Nil THEN ty[fam][2]
       ELSE IF Contains(transport, "SAS") THEN ty[fam][3]
       ELSE ty[fam][1]

ClassifierAsSpecified ==
    \A a \in 1..Len(acc) :
        acc[a].name = "sai_disk" =>
            acc[a].fields["Type"] = SpecDiskType(acc[a].fields["SataVersion"],
                                                 acc[a].fields["TransportProtocol"],
                                                 acc[a].fields["rotationrate"])

(***************************************************************************)
(* Spec 4.1 and 8: a raw value is an integer, or the +-joined duration    *)
(* <n>h, <n>m, <n>.<frac>s (each optional, in this order) summed to      *)
(* seconds; a token matching neither yields no field.                     *)
(***************************************************************************)
SpecDurationParts(parts) ==
    LET units == [j \in 1..Len(parts) |-> IF parts[j] = <<>> THEN "" ELSE Last(parts[j])]
        num(p) == IF Last(p) = "s" THEN SplitOn(Front(p), ".")[1] ELSE Front(p)
        frac(p) == IF Last(p) = "s" /\ Len(SplitOn(Front(p), ".")) = 2
                   THEN SplitOn(Front(p), ".")[2] ELSE <<"0">>
        rank == [u \in {"h", "m", "s"} |-> IF u = "h" THEN 1 ELSE IF u = "m" THEN 2 ELSE 3]
    IN /\ \A j \in 1..Len(parts) :
            /\ units[j] \in {"h", "m", "s"}
            /\ AllDigits(num(parts[j]))
            /\ Len(SplitOn(Front(parts[j]), ".")) <= (IF units[j] = "s" THEN 2 ELSE 1)
            /\ AllDigits(frac(parts[j]))
       /\ \A j \in 1..(Len(parts) - 1) : rank[units[j]] < rank[units[j + 1]]

SpecRawValue(raw) ==
    IF IsInt(raw) THEN [ok |-> TRUE, val |-> IntValue(raw)]
    ELSE IF SpecDurationParts(SplitOn(raw, "+"))
    THEN [ok |-> TRUE, val |-> SumSeconds(SplitOn(raw, "+"))]
    ELSE [ok |-> FALSE, val |-> 0]

RawFieldsAsSpecified ==
    \A a \in 1..Len(acc) :
        acc[a].name = "sai_disk_smart" =>
            \A j \in 1..Len(out) :
                out[j].k = "attr" /\ SpecRawValue(out[j].v).ok = FALSE =>
                    out[j].id \o "_raw" \notin DOMAIN acc[a].fields

=============================================================================
