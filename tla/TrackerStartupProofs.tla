------------------------- MODULE TrackerStartupProofs -------------------------
(***************************************************************************)
(* The tracker's invariants for the daemon with a blacklist file           *)
(* (TrackerStartup), for every value of the constants and every file.     *)
(*                                                                         *)
(* A step of StartupNext is a step of Next or one LoadEntry; so each       *)
(* proof reuses the step lemma proved for Next and adds the LoadEntry      *)
(* case: it only adds to the kernel, through the same shard choice as     *)
(* blockIP, and leaves the tracker's variables alone.                     *)
(***************************************************************************)
EXTENDS TrackerStartup, TrackerStoreProofs, SequenceTheorems

USE BlocklistAssumption, TrackerAssumption, BlacklistAssumption

(* The position in the file is always a line number or one past the end. *)
StartupIInv == IInv /\ loadPos \in Nat \ {0}

(* Every step of the startup spec is a step of Next, or a LoadEntry.  *)
LEMMA StartupStep ==
    [StartupNext]_startupVars => [Next]_vars \/ LoadEntry
<1> SUFFICES ASSUME [StartupNext]_startupVars, ~LoadEntry PROVE [Next]_vars
  OBVIOUS
<1>. QED  BY DEF StartupNext, startupVars, Next

(* What one LoadEntry step does to the manager and the kernel. *)
LEMMA LoadEntryEffect ==
    ASSUME StartupIInv, LoadEntry
    PROVE  /\ IInv'
           /\ \A s \in SetName : kernel[s] \subseteq kernel'[s]
           /\ UNCHANGED trackerVars
           /\ loadPos' \in Nat \ {0}
<1> DEFINE e == Blacklist[loadPos]
<1>1. e.ip \in IP /\ e.lockout \in Nat
  <2>1. loadPos \in 1 .. Len(Blacklist)
    BY DEF LoadEntry, Loading, StartupIInv
  <2>2. e \in [ip : IP, lockout : Nat]
    BY <2>1, ElementOfSeq
  <2>. QED  BY <2>2
<1>2. PICK o \in IF e.lockout = 0 THEN {PermanentOutcome} ELSE AvailableTemporarySet :
          /\ nTemp' = o.nTemp
          /\ nextTempSet' = o.next
          /\ created' = o.created
          /\ rules' = o.rules
          /\ \E added \in AddIPOutcomes(o.set, e.ip, o.created) :
               kernel' = IF added THEN [kernel EXCEPT ![o.set] = @ \cup {e.ip}]
                         ELSE kernel
  BY DEF LoadEntry
<1>3. /\ o.set \in SetName
      /\ o.nTemp \in 1 .. MaxShards
      /\ o.next \in Nat
      /\ o.next < o.nTemp
      /\ o.created \subseteq SetName
      /\ o.rules \subseteq SetName
  BY <1>2, OutcomeType DEF LoadEntry, StartupIInv
<1>4. /\ kernel' \in [SetName -> SUBSET IP]
      /\ \A s \in SetName : kernel[s] \subseteq kernel'[s]
  BY <1>1, <1>2, <1>3 DEF StartupIInv, IInv, TypeOK
<1>5. UNCHANGED trackerVars /\ loadPos' = loadPos + 1
  BY DEF LoadEntry
<1>. QED
  BY <1>2, <1>3, <1>4, <1>5
  DEF StartupIInv, IInv, TypeOK, ShardIndexInRange, trackerVars

LEMMA StartupInitIInv == StartupInit => StartupIInv
BY InitIInv DEF StartupInit, StartupIInv

LEMMA StartupIInvInductive ==
    StartupIInv /\ [StartupNext]_startupVars => StartupIInv'
<1> SUFFICES ASSUME StartupIInv, [StartupNext]_startupVars PROVE StartupIInv'
  OBVIOUS
<1>1. CASE LoadEntry
  BY <1>1, LoadEntryEffect DEF StartupIInv
<1>2. CASE [Next]_vars
  <2>1. IInv'
    BY <1>2, NextIInv DEF StartupIInv
  <2>2. loadPos' \in Nat \ {0}
    BY DEF StartupNext, startupVars, StartupIInv, LoadEntry
  <2>. QED  BY <2>1, <2>2 DEF StartupIInv
<1>. QED  BY <1>1, <1>2, StartupStep

(***************************************************************************)
(* Type correctness and the shard cursor in range hold also when a        *)
(* blacklist file fills the sets at every start: LoadBlacklist asks       *)
(* GetAvailableTemporarySet for shards as blockIP does.                   *)
(***************************************************************************)
THEOREM StartupTypeCorrect == StartupSpec => []IInv
<1>. QED  BY StartupInitIInv, StartupIInvInductive, PTL DEF StartupSpec, StartupIInv

(***************************************************************************)
(* Every blocked_ips row is backed by the kernel, with a blacklist file   *)
(* loaded at every start: the load only adds addresses to sets and never *)
(* writes a row.                                                          *)
(***************************************************************************)
THEOREM StartupRowsBacked == StartupSpec => []BlockRowBacked
<1>1. StartupInit => BlockRowBacked
  BY DEF StartupInit, Init, BlockRowBacked
<1>2. StartupIInv /\ BlockRowBacked /\ [StartupNext]_startupVars => BlockRowBacked'
  <2> SUFFICES ASSUME StartupIInv, BlockRowBacked, [StartupNext]_startupVars
               PROVE  BlockRowBacked'
    OBVIOUS
  <2>1. CASE LoadEntry
    <3>1. /\ \A s \in SetName : kernel[s] \subseteq kernel'[s]
          /\ UNCHANGED <<blockRows, now>>
      BY <2>1, LoadEntryEffect DEF trackerVars
    <3>2. \A i \in IP : blockRows[i] # Absent => blockRows[i].set \in SetName
      BY DEF StartupIInv, IInv, TypeOK, BlockRec
    <3>. QED  BY <3>1, <3>2 DEF BlockRowBacked, Expired
  <2>2. CASE [Next]_vars
    BY <2>2, NextBacked DEF StartupIInv
  <2>. QED  BY <2>1, <2>2, StartupStep
<1>. QED
  BY <1>1, <1>2, StartupInitIInv, StartupIInvInductive, PTL DEF StartupSpec

(***************************************************************************)
(* With a store that does not fail, the strikes table mirrors the index   *)
(* also when a blacklist file is loaded at every start.                   *)
(***************************************************************************)
THEOREM StartupStoreMirrorsIndex ==
    ASSUME ~StoreFaults
    PROVE  StartupSpec => []StrikeStoreConsistent
<1>1. StartupInit => StrikeStoreConsistent
  BY DEF StartupInit, Init, StrikeStoreConsistent
<1>2. StartupIInv /\ StrikeStoreConsistent /\ [StartupNext]_startupVars
        => StrikeStoreConsistent'
  <2> SUFFICES ASSUME StartupIInv, StrikeStoreConsistent, [StartupNext]_startupVars
               PROVE  StrikeStoreConsistent'
    OBVIOUS
  <2>1. CASE LoadEntry
    BY <2>1, LoadEntryEffect DEF trackerVars, StrikeStoreConsistent
  <2>2. CASE [Next]_vars
    BY <2>2, NextStoreConsistent DEF StartupIInv, IInv
  <2>. QED  BY <2>1, <2>2, StartupStep
<1>. QED
  BY <1>1, <1>2, StartupInitIInv, StartupIInvInductive, PTL DEF StartupSpec

=============================================================================
