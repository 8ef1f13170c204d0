\* parseRawValue on every raw-value token of up to five characters.
\* gatherDisk returns after the sai_disk record: the final state is terminal.
CONSTANT Outputs <- MCOutputsRaw
SPECIFICATION Spec
INVARIANT RawFieldsAsSpecified
CHECK_DEADLOCK FALSE
