-------------------------- MODULE TrackerStoreProofs --------------------------
(***************************************************************************)
(* Proofs about the strikes table and the in-memory index, for every      *)
(* value of the constants, when SQLite statements do not fail             *)
(* (StoreFaults = FALSE): a failed saveStrike is only logged, so with     *)
(* faults the table may lag behind the index and the property fails.      *)
(*                                                                         *)
(* StrikeStoreConsistent is inductive relative to TypeOK.                 *)
(***************************************************************************)
EXTENDS TrackerProofs

USE BlocklistAssumption, TrackerAssumption

(* One step of Next keeps the table a mirror of the index. *)
LEMMA NextStoreConsistent ==
    ASSUME ~StoreFaults, TypeOK, StrikeStoreConsistent, [Next]_vars
    PROVE  StrikeStoreConsistent'
<1>1. StoreOK = {TRUE} /\ \A S : FailedDeletes(S) = {{}}
  BY DEF StoreOK, FailedDeletes
<1>2. CASE \E ip \in IP, d \in Domain, r \in Reason : RecordFailure(ip, d, r)
  <2>1. PICK ip \in IP, d \in Domain, r \in Reason : RecordFailure(ip, d, r)
    BY <1>2
  <2>2. PICK new : /\ index' = [index EXCEPT ![<<ip, d>>] = new]
                   /\ strikeRows' = [strikeRows EXCEPT ![<<ip, d>>] = new]
                   /\ now' = now
    BY <1>1, <2>1 DEF RecordFailure
  <2>3. <<ip, d>> \in Key
    BY DEF Key
  <2>. QED  BY <2>2, <2>3 DEF StrikeStoreConsistent, TypeOK
<1>3. CASE \E ip \in IP, d \in Domain : RecordSuccess(ip, d)
  <2>1. PICK ip \in IP, d \in Domain : RecordSuccess(ip, d)
    BY <1>3
  <2>2. /\ index' = [index EXCEPT ![<<ip, d>>] = Absent]
        /\ strikeRows' = [strikeRows EXCEPT ![<<ip, d>>] = Absent]
        /\ now' = now
    BY <1>1, <2>1 DEF RecordSuccess
  <2>3. <<ip, d>> \in Key
    BY DEF Key
  <2>. QED  BY <2>2, <2>3 DEF StrikeStoreConsistent, TypeOK
<1>4. CASE CleanupExpired
  <2> DEFINE gone == {k \in Key : index[k] # Absent /\ Expired(index[k].exp)}
  <2>1. /\ index' = [k \in Key |-> IF k \in gone THEN Absent ELSE index[k]]
        /\ strikeRows' = [k \in Key |-> IF k \in gone THEN Absent ELSE strikeRows[k]]
        /\ now' = now
    BY <1>1, <1>4 DEF CleanupExpired
  <2>. QED  BY <2>1 DEF StrikeStoreConsistent
<1>5. CASE Restart
  <2>1. /\ index' = [k \in Key |-> IF Loadable(strikeRows[k])
                                  THEN strikeRows[k] ELSE Absent]
        /\ UNCHANGED <<strikeRows, now>>
    BY <1>1, <1>5 DEF Restart
  <2>2. SUFFICES ASSUME NEW k \in Key
                 PROVE  StrikeStoreConsistent!(k)'
    BY DEF StrikeStoreConsistent
  <2>3. CASE Loadable(strikeRows[k])
    BY <2>1, <2>3 DEF Loadable
  <2>4. CASE ~Loadable(strikeRows[k])
    <3>1. strikeRows[k] # Absent => strikeRows[k].exp \in Nat \cup {Never}
      BY DEF TypeOK, StrikeRec, Expiry
    <3>. QED  BY <2>1, <2>4, <3>1 DEF Loadable, TypeOK
  <2>. QED  BY <2>3, <2>4
<1>6. CASE Tick
  <2>1. /\ UNCHANGED <<index, strikeRows>>
        /\ now \in Nat /\ now' = now + 1
    BY <1>6 DEF Tick, TypeOK
  <2>2. \A k \in Key : strikeRows[k] # Absent => strikeRows[k].exp \in Nat \cup {Never}
    BY DEF TypeOK, StrikeRec, Expiry
  <2>. QED  BY <2>1, <2>2 DEF StrikeStoreConsistent
<1>7. CASE UNCHANGED vars
  BY <1>7 DEF vars, trackerVars, StrikeStoreConsistent
<1>. QED  BY <1>2, <1>3, <1>4, <1>5, <1>6, <1>7 DEF Next

(***************************************************************************)
(* With a store that does not fail, the strikes table mirrors the index:  *)
(* saveStrike follows every change of a record, RecordSuccess and the     *)
(* sweeper delete both copies, and loadStrikes restores exactly the rows  *)
(* that have not expired.                                                 *)
(***************************************************************************)
THEOREM StoreMirrorsIndex ==
    ASSUME ~StoreFaults
    PROVE  Spec => []StrikeStoreConsistent
<1>1. Init => StrikeStoreConsistent
  BY DEF Init, StrikeStoreConsistent
<1>2. TypeOK /\ StrikeStoreConsistent /\ [Next]_vars => StrikeStoreConsistent'
  BY NextStoreConsistent
<1>. QED  BY <1>1, <1>2, TypeOKHolds, PTL DEF Spec

=============================================================================
