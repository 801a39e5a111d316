\* No tool or store failure, failures stop at minute 1: temporary shards must end empty.
CONSTANTS
    i1 = i1  i2 = i2  d1 = d1  d2 = d2  invalid = invalid
    Timeout = Timeout  Permanent = Permanent  Never = Never  Absent = Absent
    IP <- MCIP
    Domain <- MCDomain1
    Configured <- MCConfigured
    RawLockout <- MCRawLockout
    DomainExcuse <- MCDomainExcuse
    Reason <- MCReason
    DefaultLockout = 1
    DefaultExcuse = FALSE
    Cap = 1
    MaxShards = 3
    KernelFaults = FALSE
    StoreFaults = FALSE
    MaxTime = 4
    FailUntil = 1
    MaxStrikes = 4
SPECIFICATION FairSpec
PROPERTY TemporaryBlocksLifted
