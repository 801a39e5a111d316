--------------------------- MODULE MCTrackerReboot ---------------------------
(* The instances of MCTracker, on a host that may reboot. *)
EXTENDS MCTracker, TrackerReboot

=============================================================================
