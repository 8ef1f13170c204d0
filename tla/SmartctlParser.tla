--------------------------- MODULE SmartctlParser ---------------------------
(***************************************************************************)
(* The text-to-record functions of src/dcai/hardware/disk/disk.go and     *)
(* src/dcai/util/util.go, as operators.                                    *)
(*                                                                         *)
(* A line of smartctl output is abstracted to the regular expression of   *)
(* disk.go that it matches (its kind; the expressions are anchored on     *)
(* distinct prefixes, so a line matches at most one) and the text the     *)
(* expression captures.  Captured text is a sequence of symbols: single   *)
(* characters where the code works on characters (spaces of a WWN, the    *)
(* digits and units of a raw value) and whole words where the code only   *)
(* asks strings.Contains for that word ("rpm", "Solid", "SATA", "SAS").    *)
(***************************************************************************)
EXTENDS Integers, Sequences, SequencesExt

(* Line kinds, one per regular expression of disk.go lines 26-78.          *)
InfoKinds == {"fw", "rev", "model", "product", "sata", "sector", "lbs", "rot",
              "wwn", "luid", "serial", "cap", "health", "sashealth",
              "family", "vendor", "transport", "devtype"}
MetricKinds == {"temp", "trip", "defects", "poh", "attr", "ecl"}
Kinds == InfoKinds \cup MetricKinds \cup {"other"}

(***************************************************************************)
(* The pattern table of NewDiskInfoBySmartctlOutput, in the code's order: *)
(* the target field each expression sets.                                  *)
(***************************************************************************)
InfoTable ==
    << [t |-> "FirmwareVersion", k |-> "fw"], [t |-> "FirmwareVersion", k |-> "rev"],
       [t |-> "Model", k |-> "model"], [t |-> "Model", k |-> "product"],
       [t |-> "SataVersion", k |-> "sata"],
       [t |-> "SectorSize", k |-> "sector"], [t |-> "SectorSize", k |-> "lbs"],
       [t |-> "rotationrate", k |-> "rot"],
       [t |-> "WWN", k |-> "wwn"], [t |-> "WWN", k |-> "luid"],
       [t |-> "SerialNumber", k |-> "serial"], [t |-> "Size", k |-> "cap"],
       [t |-> "SmartHealthStatus", k |-> "health"],
       [t |-> "SmartHealthStatus", k |-> "sashealth"],
       [t |-> "Vendor", k |-> "family"], [t |-> "Vendor", k |-> "vendor"],
       [t |-> "TransportProtocol", k |-> "transport"],
       [t |-> "PeripheralDevtype", k |-> "devtype"] >>

Targets == {InfoTable[j].t : j \in 1..Len(InfoTable)}

(* The empty string.                                                       *)
Nil == <<>>

(* FindRegexpMatchAndSet, first loop: every target starts empty.           *)
ClearTargets(table) == [t \in {table[j].t : j \in 1..Len(table)} |-> Nil]

(* The patterns of the table that set target t from a line of kind k.     *)
Sets(table, t, k) == \E m \in 1..Len(table) : table[m].t = t /\ table[m].k = k

(* Mutant: a pattern sets its target only while the target is empty.     *)
MatchLineFirstWins(acc, line, table) ==
    [t \in DOMAIN acc |-> IF Sets(table, t, line.k) /\ acc[t] = Nil THEN line.v ELSE acc[t]]

(***************************************************************************)
(* One iteration of the line loop of FindRegexpMatchAndSet: every pattern *)
(* of the table that matches the line sets its target to the capture     *)
(* (the patterns of one target all capture the same line, so their order *)
(* within the line does not matter).                                       *)
(***************************************************************************)
MatchLine(acc, line, table) ==
    [t \in DOMAIN acc |-> IF Sets(table, t, line.k) THEN line.v ELSE acc[t]]

FindRegexpMatchAndSet(lines, table) ==
    LET after[m \in 0..Len(lines)] ==
            IF m = 0 THEN ClearTargets(table) ELSE MatchLine(after[m - 1], lines[m], table)
    IN after[Len(lines)]

(***************************************************************************)
(* The health code tables and lookupCode: the key whose value equals the  *)
(* token, 0 when none does.                                                *)
(***************************************************************************)
SmartHealthStatusTypesSATA == (0 :> <<"UNKNOWN">>) @@ (1 :> <<"PASSED">>) @@ (2 :> <<"FAILED">>)
SmartHealthStatusTypesSAS ==
    (0 :> <<"UNKNOWN">>) @@ (1 :> <<"OK">>) @@ (3 :> <<"WARNING">>) @@ (4 :> <<"CRITICAL">>)

LookupCode(t, m) == IF \E k \in DOMAIN m : m[k] = t THEN CHOOSE k \in DOMAIN m : m[k] = t ELSE 0

(* disk.Status: the SATA table, else the SAS table.                       *)
HealthStatus(t) ==
    IF LookupCode(t, SmartHealthStatusTypesSATA) # 0
    THEN LookupCode(t, SmartHealthStatusTypesSATA)
    ELSE LookupCode(t, SmartHealthStatusTypesSAS)

(* strings.Replace(s, " ", "", -1).                                        *)
StripSpaces(s) == SelectSeq(s, LAMBDA c : c # " ")

(* The WWN clean-up of NewDiskInfoBySmartctlOutput.                       *)
NormalizeWwn(w) == IF Contains(w, " ") THEN StripSpaces(w) ELSE w

(* dcaitype.DiskType codes.                                                 *)
DiskTypeUnknown == 0
DiskTypeHDD == 1
DiskTypeSSD == 2
DiskTypeSSDSAS == 4
DiskTypeSSDSATA == 5
DiskTypeHDDSAS == 6
DiskTypeHDDSATA == 7

(***************************************************************************)
(* diskTypeMatch: the rotation rate picks the family; a SATA version sets *)
(* the SATA type, and a SAS transport then overrides it.                   *)
(***************************************************************************)
DiskTypeMatch(sataversion, transportprotocol, rotationrate) ==
    LET refine(coarse, sata, sas) ==
            IF Contains(transportprotocol, "SAS") THEN sas
            ELSE IF Contains(sataversion, "SATA") THEN sata ELSE coarse
    IN CASE Contains(rotationrate, "rpm")   -> refine(DiskTypeHDD, DiskTypeHDDSATA, DiskTypeHDDSAS)
         [] Contains(rotationrate, "Solid") -> refine(DiskTypeSSD, DiskTypeSSDSATA, DiskTypeSSDSAS)
         [] OTHER                           -> DiskTypeUnknown

(* NewDiskInfoBySmartctlOutput after the pattern loop.                     *)
DiskRecord(f) ==
    [f EXCEPT !["WWN"] = NormalizeWwn(f["WWN"])]
    @@ [Status |-> HealthStatus(f["SmartHealthStatus"]),
        Type |-> DiskTypeMatch(f["SataVersion"], f["TransportProtocol"], f["rotationrate"])]

(* IsValidDisk.                                                            *)
IsValidDisk(d) ==
    d["WWN"] # Nil /\ d["Type"] \in {DiskTypeSSDSAS, DiskTypeHDDSAS, DiskTypeSSDSATA, DiskTypeHDDSATA}

-----------------------------------------------------------------------------
(***************************************************************************)
(* parseRawValue and parseInt, on the characters of the token.             *)
(***************************************************************************)
Digits == [c \in {"0", "1", "2", "3", "4", "5", "6", "7", "8", "9"} |->
             CASE c = "0" -> 0 [] c = "1" -> 1 [] c = "2" -> 2 [] c = "3" -> 3
               [] c = "4" -> 4 [] c = "5" -> 5 [] c = "6" -> 6 [] c = "7" -> 7
               [] c = "8" -> 8 [] OTHER -> 9]

AllDigits(s) == s # <<>> /\ \A i \in 1..Len(s) : s[i] \in DOMAIN Digits

RECURSIVE DecimalValue(_)
DecimalValue(s) == IF s = <<>> THEN 0 ELSE 10 * DecimalValue(Front(s)) + Digits[Last(s)]

(* strconv.ParseInt(s, 10, 64) succeeds: an optional sign and digits.     *)
IsInt(s) ==
    \/ AllDigits(s)
    \/ Len(s) > 1 /\ s[1] \in {"+", "-"} /\ AllDigits(Tail(s))

IntValue(s) ==
    CASE AllDigits(s) -> DecimalValue(s)
      [] s[1] = "-"   -> -DecimalValue(Tail(s))
      [] OTHER        -> DecimalValue(Tail(s))

(* parseInt: ParseInt, or 0 when it fails.                                 *)
ParseIntOrZero(s) == IF IsInt(s) THEN IntValue(s) ELSE 0

(* strings.Split(s, sep): n separators give n + 1 parts.                   *)
RECURSIVE SplitOn(_, _)
SplitOn(s, sep) ==
    IF s = <<>> THEN << <<>> >>
    ELSE LET parts == SplitOn(Front(s), sep) IN
         IF Last(s) = sep THEN Append(parts, <<>>)
         ELSE [parts EXCEPT ![Len(parts)] = Append(@, Last(s))]

(* The unit expression on one part (a prefix, then h, m or s at the end), *)
(* and the seconds added for it.                                           *)
PartSeconds(part) ==
    IF part = <<>> \/ Last(part) \notin {"h", "m", "s"} THEN 0
    ELSE LET num == Front(part) IN
         CASE Last(part) = "h" -> ParseIntOrZero(num) * 3600
           [] Last(part) = "m" -> ParseIntOrZero(num) * 60
           [] OTHER            -> ParseIntOrZero(SplitOn(num, ".")[1])

(* The loop of parseRawValue over the parts.                               *)
RECURSIVE SumSeconds(_)
SumSeconds(parts) == IF parts = <<>> THEN 0 ELSE PartSeconds(Head(parts)) + SumSeconds(Tail(parts))

(***************************************************************************)
(* parseRawValue: an integer, else the sum over the +-separated parts.    *)
(* It never returns an error: strings.Split never yields zero parts.       *)
(***************************************************************************)
ParseRawValue(raw) ==
    IF IsInt(raw) THEN [ok |-> TRUE, val |-> IntValue(raw)]
    ELSE LET parts == SplitOn(raw, "+") IN
         IF Len(parts) = 0 THEN [ok |-> FALSE, val |-> 0]
         ELSE [ok |-> TRUE,
               val |-> SumSeconds(parts)]

=============================================================================
