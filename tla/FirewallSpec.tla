---------------------------- MODULE FirewallSpec ----------------------------
(***************************************************************************)
(* What the Firewall Driver promises its callers (the design, 4.1): named  *)
(* address sets that can be created idempotently, filled and emptied, and  *)
(* install_drop_rules(set_names), after whose success the packets of every *)
(* member of every named set are dropped in the input path.  Every         *)
(* operation reports success or an error; a failed operation may have     *)
(* done part of its work.  A host reboot empties the kernel.               *)
(*                                                                         *)
(* `dropping' is the sets whose members are dropped; `call' is the last    *)
(* operation with its arguments and `ok' its result.                       *)
(***************************************************************************)
CONSTANTS SetName, IP, InstallArg

VARIABLES exists, members, dropping, call, ok

fwVars == <<exists, members, dropping, call, ok>>

Init ==
    /\ exists = {}
    /\ members = [s \in SetName |-> {}]
    /\ dropping = {}
    /\ call = <<"none">>
    /\ ok = TRUE

(* create_set(name): success means the set exists, with its members. *)
Create(s) ==
    /\ call' = <<"create", s>>
    /\ \/ /\ exists' = exists \cup {s} /\ ok' = TRUE
          /\ UNCHANGED <<members, dropping>>
       \/ /\ ok' = FALSE /\ UNCHANGED <<exists, members, dropping>>

(* add(set, ip) and remove(set, ip): idempotent on an existing set. *)
Add(s, ip) ==
    /\ call' = <<"add", s, ip>>
    /\ \/ /\ s \in exists
          /\ members' = [members EXCEPT ![s] = @ \cup {ip}] /\ ok' = TRUE
          /\ UNCHANGED <<exists, dropping>>
       \/ /\ ok' = FALSE /\ UNCHANGED <<exists, members, dropping>>

Remove(s, ip) ==
    /\ call' = <<"remove", s, ip>>
    /\ \/ /\ s \in exists
          /\ members' = [members EXCEPT ![s] = @ \ {ip}] /\ ok' = TRUE
          /\ UNCHANGED <<exists, dropping>>
       \/ /\ ok' = FALSE /\ UNCHANGED <<exists, members, dropping>>

(* install_drop_rules(names): on success every named set is dropping; on  *)
(* an error some of them may be.                                           *)
Install(S) ==
    /\ call' = <<"install", S>>
    /\ \/ /\ dropping' = dropping \cup S /\ ok' = TRUE
       \/ /\ \E done \in SUBSET S : dropping' = dropping \cup done
          /\ ok' = FALSE
    /\ UNCHANGED <<exists, members>>

(* The host restarts: no set, member or rule survives. *)
Reboot ==
    /\ exists' = {}
    /\ members' = [s \in SetName |-> {}]
    /\ dropping' = {}
    /\ call' = <<"reboot">>
    /\ ok' = TRUE

Next ==
    \/ \E s \in SetName : Create(s)
    \/ \E s \in SetName, ip \in IP : Add(s, ip) \/ Remove(s, ip)
    \/ \E S \in InstallArg : Install(S)
    \/ Reboot

Spec == Init /\ [][Next]_fwVars

=============================================================================
