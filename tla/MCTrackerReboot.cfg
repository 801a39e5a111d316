\* No failure of tool or store: after a host reboot, a live blocked_ips row
\* names a set that no longer holds its address.
CONSTANTS
    i1 = i1  i2 = i2  d1 = d1  d2 = d2  invalid = invalid
    Timeout = Timeout  Permanent = Permanent  Never = Never  Absent = Absent
    IP <- MCIP
    Domain <- MCDomain
    Configured <- MCConfigured
    RawLockout <- MCRawLockout
    DomainExcuse <- MCDomainExcuse
    Reason <- MCReason
    DefaultLockout = 1
    DefaultExcuse = FALSE
    Cap = 1
    MaxShards = 3
    KernelFaults = FALSE
    StoreFaults = FALSE
    MaxTime = 3
    FailUntil = 3
    MaxStrikes = 4
SPECIFICATION RebootSpec
INVARIANTS BlockRowBacked
