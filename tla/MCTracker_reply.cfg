\* No tool or store failure: after a restart a spill lands in an existing full shard and the reply still says blocked.
CONSTANTS
    i1 = i1  i2 = i2  d1 = d1  d2 = d2  invalid = invalid
    Timeout = Timeout  Permanent = Permanent  Never = Never  Absent = Absent
    IP <- MCIP2
    Domain <- MCDomain1
    Configured <- MCConfigured
    RawLockout <- MCRawLockout
    DomainExcuse <- MCDomainExcuse
    Reason <- MCReason
    DefaultLockout = 1
    DefaultExcuse = FALSE
    Cap = 1
    MaxShards = 3
    KernelFaults = FALSE
    StoreFaults = FALSE
    MaxTime = 3
    FailUntil = 3
    MaxStrikes = 4
SPECIFICATION Spec
INVARIANT BlockedReplyMeansBlocked
