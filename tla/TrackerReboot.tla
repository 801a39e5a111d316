---------------------------- MODULE TrackerReboot ----------------------------
(***************************************************************************)
(* The tracker on a host that may reboot.  A reboot empties the kernel:    *)
(* ipsets and rules are gone, while the SQLite file survives.  The daemon  *)
(* then starts as after any restart (main.go): Manager.Initialize creates  *)
(* the permanent set and temporary_0 afresh with their rules, and          *)
(* NewTracker reloads the unexpired strike rows.  Nothing reads            *)
(* blocked_ips at start.                                                   *)
(***************************************************************************)
EXTENDS Tracker

HostReboot ==
    /\ kernel' = [s \in SetName |-> {}]
    /\ created' = {Permanent, 0}
    /\ rules' = {Permanent, 0}
    /\ nTemp' = 1
    /\ nextTempSet' = 0
    /\ \E loaded \in StoreOK :
         index' = [k \in Key |-> IF loaded /\ Loadable(strikeRows[k])
                                 THEN strikeRows[k] ELSE Absent]
    /\ reply' = NoReply
    /\ UNCHANGED <<strikeRows, blockRows, now>>

RebootNext == Next \/ HostReboot

RebootSpec == Init /\ [][RebootNext]_vars

=============================================================================
