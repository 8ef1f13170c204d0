\* vspheresmart Gather over two ESXi hosts with at most one failed ssh command.
\* Gather returns: its final states (done, failed) are terminal.
CONSTANTS
    Vspheres <- MCVspheres
    Devices <- MCDevices
    RawOutputs <- MCRawOutputs
    MaxFaults = 1
SPECIFICATION Spec
INVARIANT TypeOK LastMatchWins DiskKeyAgreement ListedDisksReported
CHECK_DEADLOCK FALSE
