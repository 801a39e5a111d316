---------------------------- MODULE TrackerProofs ----------------------------
(***************************************************************************)
(* Proofs about the Strike Tracker, for every value of the constants that *)
(* satisfies BlocklistAssumption and TrackerAssumption.                   *)
(*                                                                         *)
(* TypeOK alone is not inductive: the shard that GetAvailableTemporarySet *)
(* returns is a member of SetName only because the cursor indexes the     *)
(* slice (ShardIndexInRange), so the two are proved together as IInv.     *)
(***************************************************************************)
EXTENDS Tracker, TLAPS

IInv == TypeOK /\ ShardIndexInRange

USE BlocklistAssumption, TrackerAssumption

(***************************************************************************)
(* What GetAvailableTemporarySet, or the choice of the permanent set, can *)
(* return when the cursor is in range and there is room for one more shard.*)
(***************************************************************************)
LEMMA OutcomeType ==
    ASSUME IInv, nTemp < MaxShards,
           NEW o \in AvailableTemporarySet \cup {PermanentOutcome}
    PROVE  /\ o.set \in SetName
           /\ o.nTemp \in 1 .. MaxShards
           /\ o.next \in Nat
           /\ o.next < o.nTemp
           /\ o.created \subseteq SetName
           /\ o.rules \subseteq SetName
<1>1. /\ nextTempSet \in Shard
      /\ nextTempSet + 1 <= nTemp
      /\ nTemp \in Shard
  BY DEF IInv, TypeOK, ShardIndexInRange, Shard
<1>2. CASE o = PermanentOutcome
  BY <1>2 DEF PermanentOutcome, Outcome, IInv, TypeOK, ShardIndexInRange, SetName
<1>3. CASE o \in AvailableTemporarySet
  BY <1>1, <1>3 DEF AvailableTemporarySet, Outcome, IInv, TypeOK, SetName, Shard
<1>. QED  BY <1>2, <1>3

(* The new record RecordFailure writes has the type of a strike record. *)
LEMMA NewStrikeType ==
    ASSUME TypeOK, NEW ip \in IP, NEW d \in Domain, NEW r \in Reason
    PROVE  LET k   == <<ip, d>>
               old == IF index[k] = Absent THEN NewStrike ELSE index[k]
               excuse == r = Timeout /\ FailureExcuse(d) /\ ~old.excused
           IN  [count   |-> IF excuse THEN old.count ELSE old.count + 1,
                excused |-> old.excused \/ excuse,
                exp     |-> IF FailureLockout(d) > 0
                            THEN now + FailureLockout(d) ELSE old.exp] \in StrikeRec
<1>1. FailureLockout(d) \in Nat
  BY DEF FailureLockout, LoadedLockout
<1>2. <<ip, d>> \in Key
  BY DEF Key
<1>. QED  BY <1>1, <1>2 DEF TypeOK, StrikeRec, NewStrike, Expiry

-----------------------------------------------------------------------------
LEMMA InitIInv == Init => IInv
BY DEF Init, IInv, TypeOK, ShardIndexInRange, NoReply, SetName, Shard

LEMMA BlockIPIInv ==
    ASSUME IInv, nTemp < MaxShards, NEW ip \in IP, NEW d \in Domain,
           BlockIP(ip, d), UNCHANGED now
    PROVE  /\ kernel' \in [SetName -> SUBSET IP]
           /\ created' \subseteq SetName
           /\ rules' \subseteq SetName
           /\ nTemp' \in 1 .. MaxShards
           /\ nextTempSet' \in Nat
           /\ nextTempSet' < nTemp'
           /\ blockRows' \in [IP -> BlockRec \cup {Absent}]
<1>1. PICK o \in IF BlockLockout(d) = 0 THEN {PermanentOutcome} ELSE AvailableTemporarySet :
        /\ nTemp' = o.nTemp
        /\ nextTempSet' = o.next
        /\ created' = o.created
        /\ rules' = o.rules
        /\ \E added \in AddIPOutcomes(o.set, ip, o.created) :
             IF added
             THEN /\ kernel' = [kernel EXCEPT ![o.set] = @ \cup {ip}]
                  /\ \E ok \in StoreOK :
                       blockRows' = IF ok
                                    THEN [blockRows EXCEPT ![ip] =
                                           [set |-> o.set,
                                            exp |-> IF BlockLockout(d) = 0 THEN Never
                                                    ELSE now + BlockLockout(d),
                                            domain |-> d]]
                                    ELSE blockRows
             ELSE UNCHANGED <<kernel, blockRows>>
  BY DEF BlockIP
<1>2. /\ o.set \in SetName
      /\ o.nTemp \in 1 .. MaxShards
      /\ o.next \in Nat
      /\ o.next < o.nTemp
      /\ o.created \subseteq SetName
      /\ o.rules \subseteq SetName
  BY <1>1, OutcomeType
<1>3. BlockLockout(d) \in Nat
  BY DEF BlockLockout, LoadedLockout
<1>. QED
  BY <1>1, <1>2, <1>3 DEF IInv, TypeOK, BlockRec, Expiry

LEMMA NextIInv == IInv /\ [Next]_vars => IInv'
<1> SUFFICES ASSUME IInv, [Next]_vars PROVE IInv'
  OBVIOUS
<1>1. CASE \E ip \in IP, d \in Domain, r \in Reason : RecordFailure(ip, d, r)
  <2>1. PICK ip \in IP, d \in Domain, r \in Reason : RecordFailure(ip, d, r)
    BY <1>1
  <2>2. nTemp < MaxShards /\ UNCHANGED now
    BY <2>1 DEF RecordFailure
  <2>3. /\ index' \in [Key -> StrikeRec \cup {Absent}]
        /\ strikeRows' \in [Key -> StrikeRec \cup {Absent}]
        /\ reply' \in [ip : IP \cup {Absent}, blocked : BOOLEAN]
    BY <2>1, NewStrikeType DEF RecordFailure, IInv, TypeOK, Key
  <2>4. CASE BlockIP(ip, d)
    BY <2>2, <2>3, <2>4, BlockIPIInv DEF IInv, TypeOK, ShardIndexInRange
  <2>5. CASE UNCHANGED <<blocklistVars, blockRows>>
    BY <2>2, <2>3, <2>5 DEF IInv, TypeOK, ShardIndexInRange, blocklistVars
  <2>. QED  BY <2>1, <2>4, <2>5 DEF RecordFailure
<1>2. CASE \E ip \in IP, d \in Domain : RecordSuccess(ip, d)
  <2>1. PICK ip \in IP, d \in Domain : RecordSuccess(ip, d)
    BY <1>2
  <2>2. <<ip, d>> \in Key
    BY DEF Key
  <2>. QED
    BY <2>1, <2>2 DEF RecordSuccess, IInv, TypeOK, ShardIndexInRange, blocklistVars, NoReply
<1>3. CASE CleanupExpired
  BY <1>3 DEF CleanupExpired, IInv, TypeOK, ShardIndexInRange, NoReply
<1>4. CASE Restart
  BY <1>4 DEF Restart, InitializeManager, IInv, TypeOK, ShardIndexInRange,
              NoReply, SetName, Shard
<1>5. CASE Tick
  BY <1>5 DEF Tick, IInv, TypeOK, ShardIndexInRange, blocklistVars, NoReply
<1>6. CASE UNCHANGED vars
  BY <1>6 DEF vars, blocklistVars, trackerVars, IInv, TypeOK, ShardIndexInRange
<1>. QED  BY <1>1, <1>2, <1>3, <1>4, <1>5, <1>6 DEF Next

(***************************************************************************)
(* Type correctness of the tracker and the manager, and the cursor of     *)
(* GetAvailableTemporarySet always indexing m.temporarySets, for every    *)
(* instance of the constants.                                             *)
(***************************************************************************)
THEOREM TypeCorrect == Spec => []IInv
BY InitIInv, NextIInv, PTL DEF Spec

(* GetAvailableTemporarySet never indexes past the end of temporarySets. *)
THEOREM CursorInRange == Spec => []ShardIndexInRange
BY TypeCorrect, PTL DEF IInv


(* Every variable of the tracker and the manager has its type. *)
THEOREM TypeOKHolds == Spec => []TypeOK
BY TypeCorrect, PTL DEF IInv

-----------------------------------------------------------------------------
(***************************************************************************)
(* BlockRowBacked is inductive relative to IInv: the block path adds to   *)
(* the kernel before it writes the row that names the set, the sweeper    *)
(* only removes addresses whose row has expired, and time only moves on.  *)
(***************************************************************************)
LEMMA BlockIPBacked ==
    ASSUME IInv, BlockRowBacked, nTemp < MaxShards, NEW ip \in IP, NEW d \in Domain,
           BlockIP(ip, d), UNCHANGED now
    PROVE  BlockRowBacked'
<1>1. PICK o \in IF BlockLockout(d) = 0 THEN {PermanentOutcome} ELSE AvailableTemporarySet :
        \E added \in AddIPOutcomes(o.set, ip, o.created) :
           IF added
           THEN /\ kernel' = [kernel EXCEPT ![o.set] = @ \cup {ip}]
                /\ \E ok \in StoreOK :
                     blockRows' = IF ok
                                  THEN [blockRows EXCEPT ![ip] =
                                         [set |-> o.set,
                                          exp |-> IF BlockLockout(d) = 0 THEN Never
                                                  ELSE now + BlockLockout(d),
                                          domain |-> d]]
                                  ELSE blockRows
           ELSE UNCHANGED <<kernel, blockRows>>
  BY DEF BlockIP
<1>2. o.set \in SetName
  BY <1>1, OutcomeType
<1>3. PICK added \in AddIPOutcomes(o.set, ip, o.created) :
           IF added
           THEN /\ kernel' = [kernel EXCEPT ![o.set] = @ \cup {ip}]
                /\ \E ok \in StoreOK :
                     blockRows' = IF ok
                                  THEN [blockRows EXCEPT ![ip] =
                                         [set |-> o.set,
                                          exp |-> IF BlockLockout(d) = 0 THEN Never
                                                  ELSE now + BlockLockout(d),
                                          domain |-> d]]
                                  ELSE blockRows
           ELSE UNCHANGED <<kernel, blockRows>>
  BY <1>1
<1>4. CASE added
  <2>1. kernel' = [kernel EXCEPT ![o.set] = @ \cup {ip}]
    BY <1>3, <1>4
  <2>2. \A s \in SetName : kernel[s] \subseteq kernel'[s]
    BY <2>1 DEF IInv, TypeOK
  <2>3. ip \in kernel'[o.set]
    BY <1>2, <2>1 DEF IInv, TypeOK
  <2>4. PICK ok \in StoreOK :
          blockRows' = IF ok
                       THEN [blockRows EXCEPT ![ip] =
                              [set |-> o.set,
                               exp |-> IF BlockLockout(d) = 0 THEN Never
                                       ELSE now + BlockLockout(d),
                               domain |-> d]]
                       ELSE blockRows
    BY <1>3, <1>4
  <2>5. SUFFICES ASSUME NEW i \in IP, blockRows'[i] # Absent
                 PROVE  (i \in kernel[blockRows[i].set] \/ Expired(blockRows[i].exp))'
    BY DEF BlockRowBacked
  <2>6. CASE ok /\ i = ip
    BY <2>3, <2>4, <2>6 DEF IInv, TypeOK
  <2>7. CASE ~(ok /\ i = ip)
    <3>1. blockRows'[i] = blockRows[i]
      BY <2>4, <2>7 DEF IInv, TypeOK
    <3>2. blockRows[i].set \in SetName
      BY <2>5, <3>1 DEF IInv, TypeOK, BlockRec
    <3>. QED
      BY <2>2, <2>5, <3>1, <3>2 DEF BlockRowBacked, Expired
  <2>. QED  BY <2>6, <2>7
<1>5. CASE ~added
  BY <1>3, <1>5 DEF BlockRowBacked, Expired
<1>. QED  BY <1>4, <1>5

LEMMA CleanupBacked ==
    ASSUME IInv, BlockRowBacked, CleanupExpired
    PROVE  BlockRowBacked'
<1> DEFINE stale == {i \in IP : blockRows[i] # Absent /\ Expired(blockRows[i].exp)}
<1>1. PICK keptRows \in FailedDeletes({k \in Key : index[k] # Absent /\ Expired(index[k].exp)}),
           notRemoved \in (IF KernelFaults THEN SUBSET stale ELSE {{}}) :
          /\ kernel' = [s \in SetName |->
                         kernel[s] \ {i \in stale \ notRemoved : blockRows[i].set = s}]
          /\ UNCHANGED <<blockRows, now>>
  BY Zenon DEF CleanupExpired
<1>2. SUFFICES ASSUME NEW i \in IP, blockRows[i] # Absent
               PROVE  (i \in kernel[blockRows[i].set] \/ Expired(blockRows[i].exp))'
  BY <1>1 DEF BlockRowBacked
<1>3. CASE i \in stale
  BY <1>1, <1>3 DEF Expired
<1>4. CASE i \notin stale
  <2>1. i \in kernel[blockRows[i].set]
    BY <1>2, <1>4 DEF BlockRowBacked
  <2>2. blockRows[i].set \in SetName
    BY <1>2 DEF IInv, TypeOK, BlockRec
  <2>. QED  BY <1>1, <1>4, <2>1, <2>2
<1>. QED  BY <1>3, <1>4

LEMMA NextBacked == IInv /\ BlockRowBacked /\ [Next]_vars => BlockRowBacked'
<1> SUFFICES ASSUME IInv, BlockRowBacked, [Next]_vars PROVE BlockRowBacked'
  OBVIOUS
<1>1. CASE \E ip \in IP, d \in Domain, r \in Reason : RecordFailure(ip, d, r)
  <2>1. PICK ip \in IP, d \in Domain, r \in Reason : RecordFailure(ip, d, r)
    BY <1>1
  <2>2. nTemp < MaxShards /\ UNCHANGED now
    BY <2>1 DEF RecordFailure
  <2>3. CASE BlockIP(ip, d)
    BY <2>2, <2>3, BlockIPBacked
  <2>4. CASE UNCHANGED <<blocklistVars, blockRows>>
    BY <2>2, <2>4 DEF BlockRowBacked, Expired, blocklistVars
  <2>. QED  BY <2>1, <2>3, <2>4 DEF RecordFailure
<1>2. CASE \E ip \in IP, d \in Domain : RecordSuccess(ip, d)
  BY <1>2 DEF RecordSuccess, BlockRowBacked, Expired, blocklistVars
<1>3. CASE CleanupExpired
  BY <1>3, CleanupBacked
<1>4. CASE Restart
  BY <1>4 DEF Restart, BlockRowBacked, Expired
<1>5. CASE Tick
  <2>1. now \in Nat /\ now' = now + 1
    BY <1>5 DEF Tick, IInv, TypeOK
  <2>2. \A e \in Expiry : Expired(e) => Expired(e)'
    BY <2>1 DEF Expired, Expiry
  <2>3. \A i \in IP : blockRows[i] # Absent => blockRows[i].exp \in Expiry
    BY DEF IInv, TypeOK, BlockRec
  <2>. QED  BY <1>5, <2>2, <2>3 DEF Tick, BlockRowBacked, blocklistVars
<1>6. CASE UNCHANGED vars
  BY <1>6 DEF vars, blocklistVars, trackerVars, BlockRowBacked, Expired
<1>. QED  BY <1>1, <1>2, <1>3, <1>4, <1>5, <1>6 DEF Next

(***************************************************************************)
(* Every blocked_ips row names a set that holds the address, unless the   *)
(* row has expired: blockIP never records a block the kernel did not take,*)
(* and neither a re-block, a restart nor the sweeper takes an address out *)
(* of the set a live row names.                                           *)
(***************************************************************************)
THEOREM RowsBackedByKernel == Spec => []BlockRowBacked
<1>1. Init => BlockRowBacked
  BY DEF Init, BlockRowBacked
<1>2. IInv /\ BlockRowBacked /\ [Next]_vars => (IInv /\ BlockRowBacked)'
  BY NextIInv, NextBacked
<1>. QED  BY <1>1, <1>2, InitIInv, PTL DEF Spec

=============================================================================
