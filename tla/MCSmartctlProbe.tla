--------------------------- MODULE MCSmartctlProbe ---------------------------
(***************************************************************************)
(* Smartctl outputs for TLC: every raw-value token up to a length, and    *)
(* one output holding all three texts the classifier reads.              *)
(***************************************************************************)
EXTENDS SmartctlProbe

(* Every sequence over S of length at most n.                              *)
SeqsUpTo(S, n) == UNION {[1..m -> S] : m \in 0..n}

(***************************************************************************)
(* Raw-value tokens: the attribute expression captures [\w+.]+, so a      *)
(* token is drawn from digits, unit letters, a dot and a plus.            *)
(***************************************************************************)
MaxTokenLen == 5
RawChars == {"1", "h", "m", "s", ".", "+"}

MCOutputsRaw ==
    { << [k |-> "attr", id |-> "9", v |-> tok] >> :
        tok \in SeqsUpTo(RawChars, MaxTokenLen) \ {<<>>} }

(* The classifier's inputs on one output: every combination of texts.    *)
MCOutputsClassify ==
    { << [k |-> "sata", id |-> "", v |-> <<"SATA", "3.2">>],
         [k |-> "transport", id |-> "", v |-> <<"SAS", "(SPL-3)">>],
         [k |-> "rot", id |-> "", v |-> <<"7200", "rpm">>] >> }

=============================================================================
