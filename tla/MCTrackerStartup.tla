--------------------------- MODULE MCTrackerStartup ---------------------------
(* The instances of MCTracker with a blacklist file. *)
EXTENDS MCTracker, TrackerStartup

(* A temporary line and a later permanent line for the same address, as *)
(* a file appended to by hand can hold.                                   *)
MCBlacklist == << [ip |-> i1, lockout |-> 60], [ip |-> i1, lockout |-> 0] >>

(* One temporary line, as a previous run's block would be written. *)
MCBlacklistTemp == << [ip |-> i1, lockout |-> 60] >>

=============================================================================
