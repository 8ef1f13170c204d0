\* The classifier on a disk whose output carries a SATA version and a SAS transport.
\* gatherDisk returns after the sai_disk record: the final state is terminal.
CONSTANT Outputs <- MCOutputsClassify
SPECIFICATION Spec
INVARIANT ClassifierAsSpecified
CHECK_DEADLOCK FALSE
