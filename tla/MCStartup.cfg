\* Every pair of configurations of a host and a VM agent: what comes up and what
\* is heard.
SPECIFICATION LiveSpec
CONSTANTS
    HostConfigs <- MCHostConfigs
    VmConfigs <- MCVmConfigs
    Nothing = Nothing
    ours = ours
    theirs = theirs
INVARIANTS TypeOK WholeOrNothing OnlyCompatible
PROPERTY CompatibleStream
CHECK_DEADLOCK FALSE
