----------------------------- MODULE MCFirewall -----------------------------
(* Model values and argument lists for checking the Firewall Driver.      *)
EXTENDS Firewall, TLC

CONSTANTS P, T0, T1, i1

(* Initialize installs rules for the permanent set and temporary_0       *)
(* (manager.go:70-71); a new shard installs its own (manager.go:126).     *)
MCSetName == {P, T0, T1}
MCInstallArg == {<<P, T0>>, <<T1>>}
MCIP == {i1}

=============================================================================
