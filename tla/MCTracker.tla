------------------------------ MODULE MCTracker ------------------------------
(* Instances of Tracker for TLC: two addresses, one configured domain with *)
(* a one-minute lockout and timeout excusal, one domain the config does    *)
(* not list, shards of capacity 1 so that spills happen with two addresses. *)
EXTENDS Tracker, TLC

CONSTANTS i1, i2, d1, d2, invalid

MCIP == {i1}
MCDomain == {d1, d2}
MCConfigured == {d1}
MCRawLockout == [d \in MCConfigured |-> 1]
MCDomainExcuse == [d \in MCConfigured |-> TRUE]
MCReason == {Timeout, invalid}

(* Two addresses and the configured domain only. *)
MCIP2 == {i1, i2}
MCDomain1 == {d1}

(* A domain listed with lockout_period 0 while the default is not 0. *)
MCZeroConfigured == {d1, d2}
MCZeroRawLockout == [d \in MCZeroConfigured |-> IF d = d1 THEN 1 ELSE 0]
MCZeroDomainExcuse == [d \in MCZeroConfigured |-> FALSE]

=============================================================================
