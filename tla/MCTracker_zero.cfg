\* A configured lockout_period of 0 with a non-zero default: config.Load makes the block temporary.
CONSTANTS
    i1 = i1  i2 = i2  d1 = d1  d2 = d2  invalid = invalid
    Timeout = Timeout  Permanent = Permanent  Never = Never  Absent = Absent
    IP <- MCIP
    Domain <- MCDomain
    Configured <- MCZeroConfigured
    RawLockout <- MCZeroRawLockout
    DomainExcuse <- MCZeroDomainExcuse
    Reason <- MCReason
    DefaultLockout = 1
    DefaultExcuse = FALSE
    Cap = 1
    MaxShards = 3
    KernelFaults = TRUE
    StoreFaults = FALSE
    MaxTime = 3
    FailUntil = 3
    MaxStrikes = 4
SPECIFICATION Spec
INVARIANT BlockKindFollowsPolicy
