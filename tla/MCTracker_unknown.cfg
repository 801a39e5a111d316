\* An unconfigured domain with a non-zero default lockout gets a permanent block.
CONSTANTS
    i1 = i1  i2 = i2  d1 = d1  d2 = d2  invalid = invalid
    Timeout = Timeout  Permanent = Permanent  Never = Never  Absent = Absent
    IP <- MCIP
    Domain <- MCDomain
    Configured <- MCConfigured
    RawLockout <- MCRawLockout
    DomainExcuse <- MCDomainExcuse
    Reason <- MCReason
    DefaultLockout = 1
    DefaultExcuse = FALSE
    Cap = 1
    MaxShards = 3
    KernelFaults = TRUE
    StoreFaults = FALSE
    MaxTime = 3
    FailUntil = 3
    MaxStrikes = 4
SPECIFICATION Spec
INVARIANT BlockKindFollowsPolicy
