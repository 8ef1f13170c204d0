----------------------------- MODULE MCSmartGather -----------------------------
(***************************************************************************)
(* A Linux host for TLC: a SATA disk on the scan list that is also      *)
(* /dev/sg0, a SAS SSD in slot 0 of an HP array at /dev/sg1, and a SATA  *)
(* SSD in slot 2 of enclosure 1 of an Areca controller at /dev/sg2.      *)
(***************************************************************************)
EXTENDS SmartGather

(* The header and device-type records of LocalDisks (Header, Dt).        *)
Hdr(path, dt) == [path |-> path, dt |-> dt]
DevType(kind, a, b) == [kind |-> kind, a |-> a, b |-> b]

L(kind, v) == [k |-> kind, id |-> "", v |-> v]

(* smartctl --xall of each disk: identity lines come before the          *)
(* classifier's lines, so a timeout can cut a disk after its WWN.         *)
SataHdd == << L("wwn", <<"5", " ", "a">>), L("rot", <<"7200", "rpm">>), L("sata", <<"SATA", "3.2">>) >>
SasSsd  == << L("luid", <<"5", "c">>), L("rot", <<"Solid", "State">>), L("transport", <<"SAS", "(SPL-3)">>) >>
SataSsd == << L("wwn", <<"5", " ", "d">>), L("rot", <<"Solid", "State">>), L("sata", <<"SATA", "3.1">>) >>

Scsi == DevType("scsi", 0, 0)

MCScanOutput == << Hdr("/dev/sda", DevType("sat", 0, 0)), Hdr("", Scsi) >>

MCDevNodes == << "/dev/sg0", "/dev/sg1", "/dev/sg2" >>

MCProbeOut ==
    (Hdr("/dev/sda", DevType("sat", 0, 0)) :> SataHdd)
    @@ (Hdr("/dev/sg0", Scsi) :> (<< L("devtype", <<"disk">>) >> \o SataHdd))
    @@ (Hdr("/dev/sg1", Scsi) :> << L("devtype", <<"storage array">>), L("vendor", <<"HP">>) >>)
    @@ (Hdr("/dev/sg1", DevType("cciss", 0, 0)) :> SasSsd)
    @@ (Hdr("/dev/sg2", Scsi) :> << L("devtype", <<"enclosure">>), L("vendor", <<"Areca">>) >>)
    @@ (Hdr("/dev/sg2", DevType("areca", 2, 1)) :> SataSsd)

=============================================================================
