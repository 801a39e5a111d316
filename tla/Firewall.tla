------------------------------ MODULE Firewall ------------------------------
(***************************************************************************)
(* The Firewall Driver of ukabu-trackerd (pkg/ipset/firewall.go): the     *)
(* kernel objects it drives through the ipset, iptables and nft tools,    *)
(* for the backend NewFirewallManager detects.                             *)
(*                                                                         *)
(* Addresses always go into ipsets (`ipset add').  The iptables backend    *)
(* inserts, per set, a rule in INPUT matching that ipset.  The nftables    *)
(* backend creates the table inet ukabu, an nft set of the same name and a *)
(* rule `ip saddr @name drop': @name denotes the nft set of the table, a   *)
(* kernel object distinct from the ipset, and nothing ever adds to it.    *)
(* Each action is one driver function, whole, with every tool invocation   *)
(* it makes; any invocation may fail when ToolFaults is TRUE.  The         *)
(* callers (Blocklist Manager) are the environment: any function, any      *)
(* arguments, in any order.                                                *)
(***************************************************************************)
EXTENDS Naturals, Sequences, Functions

CONSTANTS
    SetName,       \* ipset names the daemon uses
    IP,            \* addresses
    InstallArg,    \* argument lists of InstallFirewallRules
    NftAvailable,  \* `nft list tables' succeeds on the host
    IptAvailable,  \* `iptables -L -n' succeeds on the host
    ToolFaults,    \* TRUE: any tool invocation may fail
    MaxRules       \* model bound on the rules of a chain

ASSUME FirewallAssumption ==
    /\ InstallArg \subseteq Seq(SetName)
    /\ NftAvailable \in BOOLEAN /\ IptAvailable \in BOOLEAN
    /\ NftAvailable \/ IptAvailable     \* else the daemon refuses to start
    /\ ToolFaults \in BOOLEAN
    /\ MaxRules \in Nat

(* NewFirewallManager: nftables is preferred whenever `nft' works. *)
Backend == IF NftAvailable THEN "nftables" ELSE "iptables"

VARIABLES
    ipsets,     \* ipsets that exist
    ipMembers,  \* ipMembers[s]: the members of ipset s
    iptRules,   \* INPUT chain: the ipsets its DROP rules match, first rule first
    nftTable,   \* table inet ukabu with its input chain exists
    nftSets,    \* nft sets of that table (always without members)
    nftRules,   \* its input chain: the nft sets its drop rules match, in order
    lastCall,   \* the last call of the driver, with its arguments
    lastOk      \* it returned nil

firewallVars ==
    <<ipsets, ipMembers, iptRules, nftTable, nftSets, nftRules, lastCall, lastOk>>

(* Outcomes of one tool invocation. *)
Runs == IF ToolFaults THEN BOOLEAN ELSE {TRUE}

Init ==
    /\ ipsets = {}
    /\ ipMembers = [s \in SetName |-> {}]
    /\ iptRules = << >>
    /\ nftTable = FALSE
    /\ nftSets = {}
    /\ nftRules = << >>
    /\ lastCall = <<"none">>
    /\ lastOk = TRUE

(* CreateIPSet: `ipset create name hash:net maxelem n -exist' keeps an    *)
(* existing set and its members.                                           *)
CreateIPSet(s) ==
    /\ lastCall' = <<"create", s>>
    /\ \E r \in Runs :
          /\ ipsets' = IF r THEN ipsets \cup {s} ELSE ipsets
          /\ lastOk' = r
    /\ UNCHANGED <<ipMembers, iptRules, nftTable, nftSets, nftRules>>

(* Mutant: the address is recorded even in a set that does not exist. *)
AddIPToSetAnySet(s, ip) ==
    /\ lastCall' = <<"add", s, ip>>
    /\ \E r \in Runs :
          /\ ipMembers' = IF r THEN [ipMembers EXCEPT ![s] = @ \cup {ip}] ELSE ipMembers
          /\ lastOk' = r
    /\ UNCHANGED <<ipsets, iptRules, nftTable, nftSets, nftRules>>

(* AddIPToSet: `ipset add s ip -exist'; it fails on a missing set. *)
AddIPToSet(s, ip) ==
    /\ lastCall' = <<"add", s, ip>>
    /\ \E r \in Runs :
          LET done == r /\ s \in ipsets IN
          /\ ipMembers' = IF done THEN [ipMembers EXCEPT ![s] = @ \cup {ip}] ELSE ipMembers
          /\ lastOk' = done
    /\ UNCHANGED <<ipsets, iptRules, nftTable, nftSets, nftRules>>

(* RemoveIPFromSet: `ipset del s ip -exist'; it fails on a missing set. *)
RemoveIPFromSet(s, ip) ==
    /\ lastCall' = <<"remove", s, ip>>
    /\ \E r \in Runs :
          LET done == r /\ s \in ipsets IN
          /\ ipMembers' = IF done THEN [ipMembers EXCEPT ![s] = @ \ {ip}] ELSE ipMembers
          /\ lastOk' = done
    /\ UNCHANGED <<ipsets, iptRules, nftTable, nftSets, nftRules>>

-----------------------------------------------------------------------------
(***************************************************************************)
(* installIPTablesRules, one set of the loop: `iptables -C' checks for the *)
(* rule; if the check fails (no rule, or a tool error) `iptables -I INPUT 1'*)
(* inserts it, which fails for a missing ipset; the first failure ends the *)
(* loop with that error.  o is the loop state [rules, ok].                 *)
(***************************************************************************)
(* Mutant: the rule is inserted without checking for it first. *)
IptStepNoCheck(o, s) ==
    IF ~o.ok THEN {o}
    ELSE {IF ins THEN [rules |-> <<s>> \o o.rules, ok |-> TRUE]
                 ELSE [rules |-> o.rules, ok |-> FALSE] :
          ins \in IF s \in ipsets THEN Runs ELSE {FALSE}}

(* Mutant: a failed insertion is logged and the loop goes on, as in the    *)
(* nftables path.                                                          *)
IptStepIgnoreError(o, s) ==
    IF ~o.ok THEN {o}
    ELSE LET checkFails == IF s \in Range(o.rules)
                           THEN (IF ToolFaults THEN BOOLEAN ELSE {FALSE})
                           ELSE {TRUE}
         IN  UNION {IF ~cf THEN {o}
                    ELSE {[rules |-> IF ins THEN <<s>> \o o.rules ELSE o.rules,
                           ok |-> TRUE] :
                          ins \in IF s \in ipsets THEN Runs ELSE {FALSE}} :
                    cf \in checkFails}

IptStep(o, s) ==
    IF ~o.ok THEN {o}
    ELSE LET checkFails == IF s \in Range(o.rules)
                           THEN (IF ToolFaults THEN BOOLEAN ELSE {FALSE})
                           ELSE {TRUE}
         IN  UNION {IF ~cf THEN {o}
                    ELSE {IF ins THEN [rules |-> <<s>> \o o.rules, ok |-> TRUE]
                                 ELSE [rules |-> o.rules, ok |-> FALSE] :
                          ins \in IF s \in ipsets THEN Runs ELSE {FALSE}} :
                    cf \in checkFails}

(* The outcomes of the whole loop over S. *)
IptOutcomes(S) ==
    LET f[i \in 0 .. Len(S)] ==
            IF i = 0 THEN {[rules |-> iptRules, ok |-> TRUE]}
            ELSE UNION {IptStep(o, S[i]) : o \in f[i - 1]}
    IN  f[Len(S)]

(***************************************************************************)
(* installNFTablesRules, one set of the loop: `nft add set' (its error,    *)
(* taken for "already exists", is ignored), then `nft add rule ... @name   *)
(* drop', which appends a rule and fails only if the nft set is missing;   *)
(* its error is ignored too.  o is the loop state [rules, sets].           *)
(***************************************************************************)
NftStep(o, s) ==
    {LET sets == IF rs THEN o.sets \cup {s} ELSE o.sets
     IN  [sets |-> sets,
          rules |-> IF rr /\ s \in sets THEN Append(o.rules, s) ELSE o.rules] :
     rs \in Runs, rr \in Runs}

NftOutcomes(S) ==
    LET f[i \in 0 .. Len(S)] ==
            IF i = 0 THEN {[rules |-> nftRules, sets |-> nftSets]}
            ELSE UNION {NftStep(o, S[i]) : o \in f[i - 1]}
    IN  f[Len(S)]

(* InstallFirewallRules(setNames) on the detected backend.  The nftables   *)
(* path runs the table script when `nft list table' fails (the script is   *)
(* idempotent); a failure of the script is returned, and otherwise nil is *)
(* returned whatever the loop met.  tableOk: the table is there after the *)
(* check, by the listing or by the script.                                 *)
InstallFirewallRules(S) ==
    /\ Len(iptRules) + Len(nftRules) + Len(S) <= MaxRules
    /\ lastCall' = <<"install", S>>
    /\ IF Backend = "iptables"
       THEN /\ \E o \in IptOutcomes(S) : iptRules' = o.rules /\ lastOk' = o.ok
            /\ UNCHANGED <<ipsets, ipMembers, nftTable, nftSets, nftRules>>
       ELSE /\ \E tableOk \in IF nftTable /\ ~ToolFaults THEN {TRUE} ELSE Runs :
                 IF tableOk
                 THEN /\ \E o \in NftOutcomes(S) : nftRules' = o.rules /\ nftSets' = o.sets
                      /\ nftTable' = TRUE
                      /\ lastOk' = TRUE
                 ELSE /\ lastOk' = FALSE
                      /\ UNCHANGED <<nftTable, nftSets, nftRules>>
            /\ UNCHANGED <<ipsets, ipMembers, iptRules>>

(* The host restarts: sets, tables and rules are gone. *)
Reboot ==
    /\ ipsets' = {}
    /\ ipMembers' = [s \in SetName |-> {}]
    /\ iptRules' = << >>
    /\ nftTable' = FALSE
    /\ nftSets' = {}
    /\ nftRules' = << >>
    /\ lastCall' = <<"reboot">>
    /\ lastOk' = TRUE

Next ==
    \/ \E s \in SetName : CreateIPSet(s)
    \/ \E s \in SetName, ip \in IP : AddIPToSet(s, ip) \/ RemoveIPFromSet(s, ip)
    \/ \E S \in InstallArg : InstallFirewallRules(S)
    \/ Reboot

Spec == Init /\ [][Next]_firewallVars

-----------------------------------------------------------------------------
(* Every variable has its type, and only existing ipsets have members. *)
TypeOK ==
    /\ ipsets \subseteq SetName
    /\ ipMembers \in [SetName -> SUBSET IP]
    /\ \A s \in SetName \ ipsets : ipMembers[s] = {}
    /\ iptRules \in Seq(SetName)
    /\ nftTable \in BOOLEAN
    /\ nftSets \subseteq SetName
    /\ nftRules \in Seq(SetName)
    /\ lastCall \in {<<"none">>, <<"reboot">>} \cup {<<"create", s>> : s \in SetName}
                  \cup {<<op, s, ip>> : op \in {"add", "remove"}, s \in SetName, ip \in IP}
                  \cup {<<"install", S>> : S \in InstallArg}
    /\ lastOk \in BOOLEAN

(***************************************************************************)
(* The design (4.1): install_drop_rules is idempotent, re-running it must *)
(* not duplicate rules.  The daemon runs it for the same sets at every     *)
(* start, so no two rules of the chain it uses match the same set.        *)
(***************************************************************************)
ActiveRules == IF Backend = "iptables" THEN iptRules ELSE nftRules

RulesNotDuplicated == IsInjective(ActiveRules)

(***************************************************************************)
(* The ipsets whose members a rule drops: the iptables rules match ipsets  *)
(* by name; an nft rule matches an nft set, which is not an ipset.         *)
(***************************************************************************)
MatchedIpsets == IF Backend = "iptables" THEN Range(iptRules) ELSE {}

(***************************************************************************)
(* The driver implements its design (4.1): under the mapping of the ipsets *)
(* to the sets and of the matched ipsets to the dropping sets, every step  *)
(* is a step of FirewallSpec.  In particular a nil from                    *)
(* InstallFirewallRules means the members of every named set are dropped.  *)
(***************************************************************************)
Abstract == INSTANCE FirewallSpec
                WITH exists <- ipsets, members <- ipMembers,
                     dropping <- MatchedIpsets, ok <- lastOk,
                call <- IF lastCall[1] = "install"
                        THEN <<"install", Range(lastCall[2])>> ELSE lastCall,
                     InstallArg <- {Range(S) : S \in InstallArg}

DriverRefinesSpec == Abstract!Spec

=============================================================================
