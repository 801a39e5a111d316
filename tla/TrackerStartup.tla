---------------------------- MODULE TrackerStartup ----------------------------
(***************************************************************************)
(* The tracker with a non-empty static blacklist file.  At every start,    *)
(* between Manager.Initialize and NewTracker (main.go), LoadBlacklist reads *)
(* the file line by line: an entry with lockout_period 0 goes to the       *)
(* permanent set, any other to the set GetAvailableTemporarySet returns    *)
(* at that moment; an AddIP error is logged and the loop goes on.  No      *)
(* blocked_ips row is written.  Tracker alone is the case of an absent or  *)
(* empty file.                                                             *)
(*                                                                         *)
(* One LoadEntry step is one iteration of the loop.  Nothing else runs     *)
(* during the load (the tracker and the socket do not exist yet), so the   *)
(* loop as a sequence of steps allows exactly the outcomes of the call.    *)
(* Blank and malformed lines are skipped and are left out of Blacklist.   *)
(***************************************************************************)
EXTENDS Tracker, Sequences

CONSTANT Blacklist   \* the parsed lines of ip_blacklist.conf, in file order

ASSUME BlacklistAssumption ==
    Blacklist \in Seq([ip : IP, lockout : Nat])

VARIABLE loadPos     \* index of the next line to load; past the end: done

startupVars == <<vars, loadPos>>

Loading == loadPos <= Len(Blacklist)

StartupInit == Init /\ loadPos = 1

(* LoadBlacklist, one line: lockout_period 0 selects the permanent set,  *)
(* any other value GetAvailableTemporarySet; AddIP's error is ignored.    *)
LoadEntry ==
    /\ Loading
    /\ nTemp < MaxShards
    /\ LET e == Blacklist[loadPos] IN
       \E o \in IF e.lockout = 0 THEN {PermanentOutcome} ELSE AvailableTemporarySet :
          /\ nTemp' = o.nTemp
          /\ nextTempSet' = o.next
          /\ created' = o.created
          /\ rules' = o.rules
          /\ \E added \in AddIPOutcomes(o.set, e.ip, o.created) :
               kernel' = IF added THEN [kernel EXCEPT ![o.set] = @ \cup {e.ip}]
                         ELSE kernel
    /\ loadPos' = loadPos + 1
    /\ UNCHANGED trackerVars

(* A restart loads the file again once Initialize has run. *)
StartupNext ==
    \/ LoadEntry
    \/ /\ ~Loading
       /\ \/ /\ \/ \E ip \in IP, d \in Domain, r \in Reason : RecordFailure(ip, d, r)
                \/ \E ip \in IP, d \in Domain : RecordSuccess(ip, d)
                \/ CleanupExpired
                \/ Tick
             /\ UNCHANGED loadPos
          \/ Restart /\ loadPos' = 1

StartupSpec == StartupInit /\ [][StartupNext]_startupVars

StartupFairSpec ==
    StartupSpec /\ WF_startupVars(LoadEntry)
    /\ WF_startupVars(~Loading /\ CleanupExpired /\ UNCHANGED loadPos)
    /\ WF_startupVars(~Loading /\ Tick /\ UNCHANGED loadPos)

=============================================================================
