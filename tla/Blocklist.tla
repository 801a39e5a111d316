------------------------------ MODULE Blocklist ------------------------------
(***************************************************************************)
(* The Blocklist Manager of ukabu-trackerd (pkg/ipset/manager.go) together *)
(* with the kernel-resident address sets it drives through the Firewall    *)
(* Driver (pkg/ipset/firewall.go).                                         *)
(*                                                                         *)
(* The manager keeps the slice temporarySets and the cursor nextTempSet    *)
(* under its own mutex.  Since temporarySets is only ever appended with    *)
(* the name TemporarySetPrefix + len(temporarySets), its i-th element is   *)
(* always the shard numbered i, and the slice is represented by its length *)
(* nTemp.  The kernel side is the membership of every set (kernel), the    *)
(* sets that exist (created) and the sets a DROP rule refers to (rules).   *)
(* Kernel state survives a restart of the daemon; the manager's does not.  *)
(*                                                                         *)
(* This module only defines the state and the operations; the Strike       *)
(* Tracker (Tracker.tla) calls them inside its own atomic steps, because   *)
(* every call happens under the Tracker's lock.                            *)
(***************************************************************************)
EXTENDS Naturals, FiniteSets

CONSTANTS
    IP,            \* client addresses
    Permanent,     \* the set "ukabu-permanent"
    Cap,           \* MaxIPsPerTemporarySet (20000 in the code)
    MaxShards,     \* model bound: shards 0 .. MaxShards-1 may be created
    KernelFaults   \* TRUE: any ipset/iptables invocation may fail

ASSUME BlocklistAssumption ==
    /\ Cap \in Nat \ {0}
    /\ MaxShards \in Nat \ {0}
    /\ Permanent \notin Nat
    /\ KernelFaults \in BOOLEAN

(* Temporary shard i stands for the set named TemporarySetPrefix + i; the  *)
(* name is injective in i, which is all the code relies on.                *)
Shard == 0 .. MaxShards - 1
SetName == {Permanent} \cup Shard

VARIABLES
    kernel,        \* kernel[s]: members of ipset s
    created,       \* ipsets that exist in the kernel
    rules,         \* ipsets a DROP rule in the INPUT path refers to
    nTemp,         \* len(m.temporarySets)
    nextTempSet    \* m.nextTempSet

blocklistVars == <<kernel, created, rules, nTemp, nextTempSet>>

(* The outcomes of one invocation of an external tool. *)
KernelOK == IF KernelFaults THEN BOOLEAN ELSE {TRUE}

(* Mutant: Initialize no longer creates temporary_0. *)
InitializeManagerNoShard ==
    /\ created' = created \cup {Permanent}
    /\ rules' = rules \cup {Permanent}
    /\ nTemp' = 0
    /\ nextTempSet' = 0

(***************************************************************************)
(* Manager.Initialize at daemon start: CreateIPSet with -exist keeps any   *)
(* set and its members that a previous run left in the kernel, so only     *)
(* `created' and `rules' grow; temporarySets restarts as [temporary_0].    *)
(* A failure of any step is fatal (the daemon refuses to start), so a      *)
(* daemon that runs has all of them done.  The whitelist and search-engine *)
(* sets are created too but never written by the core and are omitted.    *)
(***************************************************************************)
InitializeManager ==
    /\ created' = created \cup {Permanent, 0}
    /\ rules' = rules \cup {Permanent, 0}
    /\ nTemp' = 1
    /\ nextTempSet' = 0

(***************************************************************************)
(* Manager.GetAvailableTemporarySet, as the set of its possible outcomes:  *)
(* records giving the returned shard and the manager's and kernel's new    *)
(* state.  The size lookup may fail (err != nil: keep the current shard);  *)
(* the creation of a new shard may fail (fall back to shard 0); the error  *)
(* of InstallFirewallRules for the new shard is ignored.  A shard reached  *)
(* by advancing the cursor into an existing slot is returned without its   *)
(* size being looked at.                                                   *)
(***************************************************************************)
Outcome(set, n, next, cr, rs) ==
    [set |-> set, nTemp |-> n, next |-> next, created |-> cr, rules |-> rs]

(* Mutant: a failed shard creation keeps the advanced cursor. *)
AvailableTemporarySetNoReset ==
    LET cur  == nextTempSet
        nxt  == nextTempSet + 1
        stay == Outcome(cur, nTemp, cur, created, rules)
        full == Cardinality(kernel[cur]) >= Cap
        grow(rs) == Outcome(nxt, nTemp + 1, nxt, created \cup {nTemp}, rs)
    IN  (IF KernelFaults THEN {stay} ELSE {})
        \cup (IF ~full THEN {stay}
              ELSE IF nxt < nTemp THEN {Outcome(nxt, nTemp, nxt, created, rules)}
              ELSE {grow(rules \cup {nTemp})}
                   \cup (IF KernelFaults
                         THEN {grow(rules), Outcome(0, nTemp, nxt, created, rules)}
                         ELSE {}))

AvailableTemporarySet ==
    LET cur  == nextTempSet
        nxt  == nextTempSet + 1
        stay == Outcome(cur, nTemp, cur, created, rules)
        full == Cardinality(kernel[cur]) >= Cap
        grow(rs) == Outcome(nxt, nTemp + 1, nxt, created \cup {nTemp}, rs)
    IN  (IF KernelFaults THEN {stay} ELSE {})
        \cup (IF ~full THEN {stay}
              ELSE IF nxt < nTemp THEN {Outcome(nxt, nTemp, nxt, created, rules)}
              ELSE {grow(rules \cup {nTemp})}
                   \cup (IF KernelFaults
                         THEN {grow(rules), Outcome(0, nTemp, 0, created, rules)}
                         ELSE {}))

(* The permanent set is chosen without consulting the manager. *)
PermanentOutcome == Outcome(Permanent, nTemp, nextTempSet, created, rules)

(***************************************************************************)
(* FirewallManager.AddIPToSet: `ipset add s ip -exist'.  It fails if the   *)
(* set does not exist or is full (hash:net maxelem) and the address is not *)
(* already in it, or on a tool error.  The permanent set's maxelem (50000) *)
(* is never reached by the addresses of a model.                           *)
(***************************************************************************)
AddIPOutcomes(s, ip, cr) ==
    IF /\ s \in cr
       /\ \/ ip \in kernel[s]
          \/ s = Permanent
          \/ Cardinality(kernel[s]) < Cap
    THEN KernelOK
    ELSE {FALSE}

=============================================================================
