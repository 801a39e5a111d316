\* A blacklist file with a temporary and a permanent line for the address, loaded at
\* every start; tool failures, restarts: kernel-backed rows, the shard cursor, the
\* store mirroring the index.
CONSTANTS
    i1 = i1  i2 = i2  d1 = d1  d2 = d2  invalid = invalid
    Timeout = Timeout  Permanent = Permanent  Never = Never  Absent = Absent
    IP <- MCIP
    Blacklist <- MCBlacklist
    Domain <- MCDomain
    Configured <- MCConfigured
    RawLockout <- MCRawLockout
    DomainExcuse <- MCDomainExcuse
    Reason <- MCReason
    DefaultLockout = 1
    DefaultExcuse = FALSE
    Cap = 1
    MaxShards = 3
    KernelFaults = TRUE
    StoreFaults = FALSE
    MaxTime = 3
    FailUntil = 3
    MaxStrikes = 4
SPECIFICATION StartupSpec
INVARIANTS TypeOK BlockRowBacked ShardIndexInRange StrikeStoreConsistent
