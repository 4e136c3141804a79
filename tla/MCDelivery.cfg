SPECIFICATION SideBySide
CONSTANTS
    Events = {e1, e2, e3}
    Relayers = {r1, r2}
    Stable = {r1}
    BatchSize = 2
    MaxFaults = 1
    AuditEvents = {a1, a2, a3, a4}
    NoEvent = NoEvent
    Capacity = 2
    MaxRetries = 1
    MaxInsertFaults = 3
INVARIANTS
    TypeOK
    OneJobPerRelayedEvent
    AuditTypeOK
    NoSilentLoss
    InOrder
    ShutdownDrains
PROPERTIES
    DeliverySpec
    EveryEventRelayed
    ShutdownEnds
CHECK_DEADLOCK FALSE
