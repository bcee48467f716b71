CONSTANTS
    MaxToken = 3
    Ambients <- AmbientStacks
SPECIFICATION ProbeSpec
INVARIANTS
    ProbeTypeOK
    PartitionSound
CHECK_DEADLOCK FALSE
