CONSTANTS
    Replicas = {r1, r2}
    Nobody = Nobody
    Migrations = 2
    BootName = "boot"
    ProfileInputs <- MCProfileInputs
    MaxFallbacks = 1
    MaxId = 4
    MaxEdits = 2
    MaxFaults = 1
SPECIFICATION Spec
INVARIANT
    MigrationsApplyOnce
PROPERTIES
    DefaultIsKept
    SecretsAreKept
    ReplicasServe
CHECK_DEADLOCK FALSE
