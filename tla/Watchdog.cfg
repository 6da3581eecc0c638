CONSTANTS
    Providers <- MCProviders
    CodexNames <- MCCodex
    ClaudeNames <- MCClaude
    Ceilings <- MCCeilings
    Commands = {"c1", "c2"}
    Usages <- MCUsages
    Seeds <- MCSeeds
    MaxInvocations = 2
    MaxCommands = 4
SPECIFICATION Spec
CHECK_DEADLOCK FALSE
INVARIANTS
    TypeOK
    LiveCaps
    OwnFailures
    CallCeiling
    RunCapsStop
PROPERTIES
    ProtocolSpec
