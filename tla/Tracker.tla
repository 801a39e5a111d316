------------------------------- MODULE Tracker -------------------------------
(***************************************************************************)
(* The Strike Tracker of ukabu-trackerd (pkg/strikes/tracker.go), composed *)
(* with the Blocklist Manager and kernel sets (Blocklist.tla), the SQLite  *)
(* store, the domain policy (pkg/config/config.go), the 60-second sweeper  *)
(* goroutine and daemon restarts (main.go).                                *)
(*                                                                         *)
(* RecordFailure, RecordSuccess and CleanupExpired each run entirely under *)
(* the Tracker's exclusive lock, including every call into the manager,    *)
(* the kernel and the store, so each is one atomic step here; the intake   *)
(* handlers and the sweeper interleave only at the granularity of these    *)
(* steps.  A restart discards the in-memory index and the manager's state  *)
(* and keeps the store and the kernel sets.  Failing store writes are      *)
(* logged and ignored by the code; they are enabled by StoreFaults.        *)
(* Timestamps are whole minutes; first_failure, last_failure, blocked_at   *)
(* and reason are written but never read by a decision and are omitted.   *)
(***************************************************************************)
EXTENDS Blocklist

CONSTANTS
    Domain,          \* domains named in requests
    Configured,      \* domains present in the "domains" map of the config
    RawLockout,      \* lockout_period (minutes) as written in the config file
    DomainExcuse,    \* excuse_first_timeout as written in the config file
    DefaultLockout,  \* default.lockout_period
    DefaultExcuse,   \* default.excuse_first_timeout
    Reason,          \* failure reasons sent by the front-end
    Timeout,         \* the reason "timeout"
    Never,           \* a NULL expires_at / lockout_expires
    Absent,          \* no entry for a key (map miss, missing row)
    StoreFaults,     \* TRUE: any SQLite statement may fail
    MaxTime,         \* model bound on the clock
    FailUntil,       \* model bound: no failure is reported after this time
    MaxStrikes       \* model bound on a strike count

ASSUME TrackerAssumption ==
    /\ Configured \subseteq Domain
    /\ RawLockout \in [Configured -> Nat]
    /\ DomainExcuse \in [Configured -> BOOLEAN]
    /\ DefaultLockout \in Nat
    /\ DefaultExcuse \in BOOLEAN
    /\ Timeout \in Reason
    /\ Never \notin Nat
    /\ Absent \notin Nat \cup {Never}
    /\ StoreFaults \in BOOLEAN
    /\ MaxTime \in Nat
    /\ FailUntil \in Nat
    /\ MaxStrikes \in Nat

Key == IP \X Domain                  \* the map key ip + ":" + domain
Expiry == Nat \cup {Never}
StrikeRec == [count : Nat, excused : BOOLEAN, exp : Expiry]
BlockRec == [set : SetName, exp : Expiry, domain : Domain]
NoReply == [ip |-> Absent, blocked |-> FALSE]

VARIABLES
    index,       \* t.strikes, the in-memory map of strike records
    strikeRows,  \* the strikes table
    blockRows,   \* the blocked_ips table
    now,         \* time.Now() in minutes
    reply        \* the answer (address, blocked) of the step just taken

trackerVars == <<index, strikeRows, blockRows, now, reply>>
vars == <<blocklistVars, trackerVars>>

(* Outcomes of one SQLite statement. *)
StoreOK == IF StoreFaults THEN BOOLEAN ELSE {TRUE}

(* The rows, among S, whose DELETE fails. *)
FailedDeletes(S) == IF StoreFaults THEN SUBSET S ELSE {{}}

(***************************************************************************)
(* config.Load replaces a lockout_period of 0 by the default one; the     *)
(* excuse flag is taken as written.                                        *)
(***************************************************************************)
LoadedLockout(d) == IF RawLockout[d] = 0 THEN DefaultLockout ELSE RawLockout[d]

(* RecordFailure's policy: the domain's, else one built from the default. *)
FailureLockout(d) == IF d \in Configured THEN LoadedLockout(d) ELSE DefaultLockout
FailureExcuse(d) == IF d \in Configured THEN DomainExcuse[d] ELSE DefaultExcuse

(* blockIP's policy: GetDomainConfig's result, the zero DomainConfig for a *)
(* domain that is not configured.                                          *)
BlockLockout(d) == IF d \in Configured THEN LoadedLockout(d) ELSE 0

(* ExpiresAt.Before(now) and lockout_expires < now, NULL never expiring. *)
Expired(e) == e # Never /\ e < now

(* loadStrikes: WHERE expires_at IS NULL OR expires_at > now *)
Loadable(r) == r # Absent /\ (r.exp = Never \/ r.exp > now)

NewStrike == [count |-> 0, excused |-> FALSE, exp |-> Never]

-----------------------------------------------------------------------------
(* The first start of the daemon on an empty store and empty kernel. *)
Init ==
    /\ kernel = [s \in SetName |-> {}]
    /\ created = {Permanent, 0}
    /\ rules = {Permanent, 0}
    /\ nTemp = 1
    /\ nextTempSet = 0
    /\ index = [k \in Key |-> Absent]
    /\ strikeRows = [k \in Key |-> Absent]
    /\ blockRows = [i \in IP |-> Absent]
    /\ now = 0
    /\ reply = NoReply

(***************************************************************************)
(* blockIP(ip, domain): choose the set, add the address to it, and only if *)
(* that succeeded write the blocked_ips row (INSERT OR REPLACE).  Every    *)
(* error is logged and swallowed.                                          *)
(***************************************************************************)
(* Mutant: the row is written even when AddIP failed. *)
BlockIPRowDespiteFailure(ip, d) ==
    LET L == BlockLockout(d) IN
    \E o \in IF L = 0 THEN {PermanentOutcome} ELSE AvailableTemporarySet :
       /\ nTemp' = o.nTemp
       /\ nextTempSet' = o.next
       /\ created' = o.created
       /\ rules' = o.rules
       /\ \E added \in AddIPOutcomes(o.set, ip, o.created) :
            /\ kernel' = IF added THEN [kernel EXCEPT ![o.set] = @ \cup {ip}] ELSE kernel
            /\ blockRows' = [blockRows EXCEPT ![ip] =
                               [set |-> o.set,
                                exp |-> IF L = 0 THEN Never ELSE now + L,
                                domain |-> d]]

BlockIP(ip, d) ==
    LET L == BlockLockout(d) IN
    \E o \in IF L = 0 THEN {PermanentOutcome} ELSE AvailableTemporarySet :
       /\ nTemp' = o.nTemp
       /\ nextTempSet' = o.next
       /\ created' = o.created
       /\ rules' = o.rules
       /\ \E added \in AddIPOutcomes(o.set, ip, o.created) :
            IF added
            THEN /\ kernel' = [kernel EXCEPT ![o.set] = @ \cup {ip}]
                 /\ \E ok \in StoreOK :
                      blockRows' = IF ok
                                   THEN [blockRows EXCEPT ![ip] =
                                          [set |-> o.set,
                                           exp |-> IF L = 0 THEN Never ELSE now + L,
                                           domain |-> d]]
                                   ELSE blockRows
            ELSE UNCHANGED <<kernel, blockRows>>

(***************************************************************************)
(* RecordFailure(ip, domain, reason), the whole handler: fetch or create   *)
(* the record, excuse the first timeout, count, push the expiry forward,   *)
(* saveStrike, and on a count of 3 or more take the block path.  It        *)
(* answers (count, true) whenever the count is 3 or more.                  *)
(***************************************************************************)
RecordFailure(ip, d, reason) ==
    LET k   == <<ip, d>>
        old == IF index[k] = Absent THEN NewStrike ELSE index[k]
        excuse == reason = Timeout /\ FailureExcuse(d) /\ ~old.excused
        new == [count   |-> IF excuse THEN old.count ELSE old.count + 1,
                excused |-> old.excused \/ excuse,
                exp     |-> IF FailureLockout(d) > 0
                            THEN now + FailureLockout(d) ELSE old.exp]
    IN  /\ now <= FailUntil
        /\ old.count < MaxStrikes
        /\ nTemp < MaxShards
        /\ index' = [index EXCEPT ![k] = new]
        /\ \E ok \in StoreOK :
             strikeRows' = IF ok THEN [strikeRows EXCEPT ![k] = new] ELSE strikeRows
        /\ reply' = [ip |-> ip, blocked |-> new.count >= 3]
        /\ IF new.count >= 3
           THEN BlockIP(ip, d)
           ELSE UNCHANGED <<blocklistVars, blockRows>>
        /\ UNCHANGED now

(* RecordSuccess(ip, domain): drop the record and its row; silent if absent. *)
(* Mutant: the strikes row is not deleted. *)
RecordSuccessMemoryOnly(ip, d) ==
    LET k == <<ip, d>> IN
    /\ index[k] # Absent
    /\ index' = [index EXCEPT ![k] = Absent]
    /\ reply' = NoReply
    /\ UNCHANGED <<blocklistVars, strikeRows, blockRows, now>>

RecordSuccess(ip, d) ==
    LET k == <<ip, d>> IN
    /\ index[k] # Absent
    /\ index' = [index EXCEPT ![k] = Absent]
    /\ \E ok \in StoreOK :
         strikeRows' = IF ok THEN [strikeRows EXCEPT ![k] = Absent] ELSE strikeRows
    /\ reply' = NoReply
    /\ UNCHANGED <<blocklistVars, blockRows, now>>

(***************************************************************************)
(* CleanupExpired, run by the sweeper every 60 s: delete every expired     *)
(* in-memory strike and its row (each DELETE may fail), then for every     *)
(* expired blocked_ips row remove the address from the row's set (`ipset   *)
(* del' may fail, its error ignored) and DELETE the row.  That DELETE runs *)
(* while the SELECT's cursor is still open: database/sql gives it a second *)
(* connection of the pool, whose commit cannot take SQLite's EXCLUSIVE    *)
(* lock while the cursor's SHARED lock is held, so after the busy timeout  *)
(* it fails, and its error is not checked.  No expired row is ever        *)
(* deleted; the next sweep selects it again.                               *)
(***************************************************************************)
CleanupExpired ==
    LET gone  == {k \in Key : index[k] # Absent /\ Expired(index[k].exp)}
        stale == {i \in IP : blockRows[i] # Absent /\ Expired(blockRows[i].exp)}
    IN  \E keptRows \in FailedDeletes(gone),
           notRemoved \in (IF KernelFaults THEN SUBSET stale ELSE {{}}) :
          /\ index' = [k \in Key |-> IF k \in gone THEN Absent ELSE index[k]]
          /\ strikeRows' = [k \in Key |-> IF k \in gone \ keptRows
                                          THEN Absent ELSE strikeRows[k]]
          /\ kernel' = [s \in SetName |->
                         kernel[s] \ {i \in stale \ notRemoved : blockRows[i].set = s}]
          /\ reply' = NoReply
          /\ UNCHANGED <<blockRows, created, rules, nTemp, nextTempSet, now>>

(***************************************************************************)
(* The daemon stops (signal or crash) and starts again: Manager.Initialize *)
(* and then NewTracker's loadStrikes, whose failing query only logs a      *)
(* warning and leaves the index empty.                                     *)
(***************************************************************************)
Restart ==
    /\ InitializeManager
    /\ \E loaded \in StoreOK :
         index' = [k \in Key |-> IF loaded /\ Loadable(strikeRows[k])
                                 THEN strikeRows[k] ELSE Absent]
    /\ reply' = NoReply
    /\ UNCHANGED <<kernel, strikeRows, blockRows, now>>

(* A minute passes. *)
Tick ==
    /\ now < MaxTime
    /\ now' = now + 1
    /\ reply' = NoReply
    /\ UNCHANGED <<blocklistVars, index, strikeRows, blockRows>>

Next ==
    \/ \E ip \in IP, d \in Domain, r \in Reason : RecordFailure(ip, d, r)
    \/ \E ip \in IP, d \in Domain : RecordSuccess(ip, d)
    \/ CleanupExpired
    \/ Restart
    \/ Tick

(* The sweeper's ticker and the clock never stop; requests and restarts   *)
(* come from outside and may stop.                                         *)
Fairness == WF_vars(CleanupExpired) /\ WF_vars(Tick)

Spec == Init /\ [][Next]_vars
FairSpec == Spec /\ Fairness

-----------------------------------------------------------------------------
(* Every variable has its type. *)
TypeOK ==
    /\ kernel \in [SetName -> SUBSET IP]
    /\ created \subseteq SetName
    /\ rules \subseteq SetName
    /\ nTemp \in 1 .. MaxShards
    /\ nextTempSet \in Nat
    /\ index \in [Key -> StrikeRec \cup {Absent}]
    /\ strikeRows \in [Key -> StrikeRec \cup {Absent}]
    /\ blockRows \in [IP -> BlockRec \cup {Absent}]
    /\ now \in Nat
    /\ reply \in [ip : IP \cup {Absent}, blocked : BOOLEAN]

(***************************************************************************)
(* A blocked_ips row is backed by the kernel: the address is a member of  *)
(* the set the row names, unless the row has expired (the sweeper may     *)
(* have removed the address and then failed to delete the row).  It is    *)
(* about blockIP writing the row only after AddIP succeeded and about the  *)
(* sweeper, restarts and re-blocks into other shards never removing a     *)
(* member that a live row names.                                           *)
(***************************************************************************)
BlockRowBacked ==
    \A i \in IP :
        blockRows[i] # Absent =>
            \/ i \in kernel[blockRows[i].set]
            \/ Expired(blockRows[i].exp)

(***************************************************************************)
(* GetAvailableTemporarySet's cursor always indexes m.temporarySets: the  *)
(* expression m.temporarySets[m.nextTempSet] never panics, whatever mix   *)
(* of spills, failed shard creations and restarts came before.            *)
(***************************************************************************)
ShardIndexInRange == nextTempSet < nTemp

(***************************************************************************)
(* With a store that does not fail, the strikes table mirrors the index:  *)
(* every in-memory record has an identical row, and every row without a   *)
(* record has expired (it was left behind by a restart).  It is about     *)
(* saveStrike after every mutation, RecordSuccess and the sweeper deleting *)
(* both copies, and loadStrikes restoring exactly what was saved.         *)
(***************************************************************************)
StrikeStoreConsistent ==
    \A k \in Key :
        /\ index[k] # Absent => strikeRows[k] = index[k]
        /\ (strikeRows[k] # Absent /\ index[k] = Absent) =>
               strikeRows[k].exp # Never /\ strikeRows[k].exp <= now

(***************************************************************************)
(* The spec (4.4, Block path, and 3): a block is permanent exactly when   *)
(* the lockout_period that applies to the domain is 0, the default policy *)
(* applying to a domain the config does not list.  It is about blockIP's  *)
(* and config.Load's reading of the policy.                               *)
(***************************************************************************)
SpecLockout(d) == IF d \in Configured THEN RawLockout[d] ELSE DefaultLockout

BlockKindFollowsPolicy ==
    \A i \in IP :
        blockRows[i] # Absent =>
            (blockRows[i].exp = Never <=> SpecLockout(blockRows[i].domain) = 0)

(***************************************************************************)
(* The spec (4.4, Block path, step 3): when the address could not be added *)
(* to a set the IP is not declared blocked upstream.  So a reply           *)
(* blocked = true means the address is in a set that a DROP rule refers to.*)
(***************************************************************************)
BlockedReplyMeansBlocked ==
    reply.blocked => \E s \in rules : reply.ip \in kernel[s]

(***************************************************************************)
(* The spec (1, 3): temporary blocks expire.  Once failures stop, every   *)
(* temporary shard is eventually empty for good, given the sweeper runs   *)
(* and the clock advances.  It is about re-blocks that move an address to *)
(* another shard and about rows lost between the kernel and the store.    *)
(***************************************************************************)
TemporaryBlocksLifted ==
    <>[](\A s \in Shard : kernel[s] = {})

(***************************************************************************)
(* The spec (4.4, Startup): strikes that have expired at load time are not *)
(* loaded and "the sweeper will finish cleaning them": every expired row  *)
(* of the strikes table is eventually deleted.                            *)
(***************************************************************************)
StrikeRowsEventuallyReaped ==
    <>[](\A k \in Key : strikeRows[k] # Absent => ~Expired(strikeRows[k].exp))

=============================================================================
