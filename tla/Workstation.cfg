SPECIFICATION Spec
CONSTANTS
    k1 = k1
    k2 = k2
    kr = kr
    krssh = krssh
    Kr = kr
    Krds = {k1, k2}
    Clients = {kr, krssh}
    Editors <- MCEditors
    Versions <- MCVersions
    MaxCommands = 2
    MaxFaults = 1
    NoFile = NoFile
    Stale = Stale
SYMMETRY KrdSymmetry
CHECK_DEADLOCK FALSE
INVARIANTS
    TypeOK
    LinesKept
    NoSecondBlock
    IdentityAgentSupported
    SerialDialsConnect
    OneDaemonServes
    GitKeepsCommitting
