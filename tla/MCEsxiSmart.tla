----------------------------- MODULE MCEsxiSmart -----------------------------
(***************************************************************************)
(* Two ESXi hosts for TLC.  esx2 lists a SAS disk C, then an NVMe device *)
(* (neither naa. nor t10.), an offline SAS disk D and a SAS disk E; esx1 *)
(* lists a SATA disk A and a t10. device.  smartctl on A may print any   *)
(* output of up to four key lines, so the parsing properties are        *)
(* checked on every such output, a timed-out prefix included.            *)
(***************************************************************************)
EXTENDS EsxiSmart

Dev(name, id, sas, offline) == [name |-> name, id |-> id, sas |-> sas, offline |-> offline]

MCVspheres == << [full |-> TRUE, host |-> "esx2"], [full |-> TRUE, host |-> "esx1"] >>

MCDevices ==
    ("esx1" :> << Dev("naa", "naa.A", "false", "false"), Dev("t10", "t10.B", "false", "false") >>)
    @@ ("esx2" :> << Dev("naa", "naa.C", "true", "false"), Dev("eui", "eui.X", "false", "false"),
                     Dev("naa", "naa.D", "true", "true"), Dev("naa", "naa.E", "true", "false") >>)

L(kind, v) == [k |-> kind, id |-> "", v |-> v]

(* Every sequence over S of length at most n.                              *)
SeqsUpTo(S, n) == UNION {[1..m -> S] : m \in 0..n}

(***************************************************************************)
(* Line shapes of one disk: a SATA WWN printed with spaces and a SAS      *)
(* logical unit id, the classifier's three texts, both health formats, a *)
(* temperature and a line no expression matches.                          *)
(***************************************************************************)
KeyLines ==
    { L("wwn", <<"5", " ", "a">>), L("luid", <<"5", "b">>),
      L("rot", <<"7200", "rpm">>), L("rot", <<"Solid", "State">>),
      L("sata", <<"SATA", "3.2">>), L("transport", <<"SAS", "(SPL-3)">>),
      L("health", <<"PASSED">>), L("sashealth", <<"OK">>),
      L("temp", <<"3", "7">>), L("other", <<>>) }

SasHdd == << L("luid", <<"5", "e">>), L("rot", <<"10000", "rpm">>), L("transport", <<"SAS", "(SPL-3)">>) >>

(* smartctl -d sat on a SAS disk reads no identity.                       *)
MCRawOutputs ==
    (Header("naa.A", "sat") :> SeqsUpTo(KeyLines, 4))
    @@ (Header("naa.C", "sat") :> { << L("other", <<>>) >> })
    @@ (Header("naa.C", "scsi") :> { SasHdd })
    @@ (Header("naa.E", "scsi") :> { SasHdd, SubSeq(SasHdd, 1, 2) })

=============================================================================
