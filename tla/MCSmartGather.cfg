\* Smart.Gather on one host with up to MaxFaults failed or timed-out commands in GetLocalDisks.
\* Gather returns: its final states (done, failed) are terminal.
CONSTANTS
    ScanOutput <- MCScanOutput
    DevNodes <- MCDevNodes
    ProbeOut <- MCProbeOut
    CcissMaxSlotNum = 2
    ArecaMaxEnclosureNum = 1
    ArecaMaxSlotNum = 2
    MaxFaults = 2
SPECIFICATION Spec
INVARIANT TypeOK DisksIdentified ValidProbeReported CleanPassComplete FirstProbedWins MeasurementsKeyedByDisk
CHECK_DEADLOCK FALSE
