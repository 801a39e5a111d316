------------------------- MODULE TrackerRebootProofs -------------------------
(***************************************************************************)
(* The tracker's invariants on a host that may reboot (TrackerReboot), for *)
(* every value of the constants.  A reboot loses the kernel sets and the  *)
(* rules but not the SQLite file, and the daemon starts as after a        *)
(* restart; so the type, the shard cursor and the strikes table          *)
(* mirroring the index all survive it.  What does not                     *)
(* survive is BlockRowBacked: host_reboot_unbacked shows a live           *)
(* blocked_ips row naming an emptied set.                                  *)
(***************************************************************************)
EXTENDS TrackerReboot, TrackerStoreProofs

USE BlocklistAssumption, TrackerAssumption

(* A reboot keeps the tracker's state well typed and the cursor in range. *)
LEMMA RebootIInv == IInv /\ HostReboot => IInv'
<1> SUFFICES ASSUME IInv, HostReboot PROVE IInv'
  OBVIOUS
<1>1. PICK loaded \in StoreOK :
        index' = [k \in Key |-> IF loaded /\ Loadable(strikeRows[k])
                                THEN strikeRows[k] ELSE Absent]
  BY DEF HostReboot
<1>2. index' \in [Key -> StrikeRec \cup {Absent}]
  BY <1>1 DEF IInv, TypeOK
<1>3. reply' \in [ip : IP \cup {Absent}, blocked : BOOLEAN]
  BY DEF HostReboot, NoReply
<1>. QED
  BY <1>2, <1>3
  DEF HostReboot, IInv, TypeOK, ShardIndexInRange, SetName, Shard

LEMMA RebootNextIInv == IInv /\ [RebootNext]_vars => IInv'
<1> SUFFICES ASSUME IInv, [RebootNext]_vars PROVE IInv'
  OBVIOUS
<1>1. CASE HostReboot
  BY <1>1, RebootIInv
<1>2. CASE [Next]_vars
  BY <1>2, NextIInv
<1>. QED  BY <1>1, <1>2 DEF RebootNext

(***************************************************************************)
(* Every variable keeps its type and GetAvailableTemporarySet's cursor    *)
(* indexes temporarySets also across host reboots, which reset the        *)
(* manager to [temporary_0] whatever the cursor was.                      *)
(***************************************************************************)
THEOREM RebootTypeCorrect == RebootSpec => []IInv
BY InitIInv, RebootNextIInv, PTL DEF RebootSpec

(***************************************************************************)
(* With a store that does not fail, the strikes table mirrors the index   *)
(* across host reboots: the file survives, and the index is rebuilt from  *)
(* its unexpired rows exactly as at a restart.                            *)
(***************************************************************************)
THEOREM RebootStoreMirrorsIndex ==
    ASSUME ~StoreFaults
    PROVE  RebootSpec => []StrikeStoreConsistent
<1>1. Init => StrikeStoreConsistent
  BY DEF Init, StrikeStoreConsistent
<1>2. IInv /\ StrikeStoreConsistent /\ [RebootNext]_vars => StrikeStoreConsistent'
  <2> SUFFICES ASSUME IInv, StrikeStoreConsistent, [RebootNext]_vars
               PROVE  StrikeStoreConsistent'
    OBVIOUS
  <2>1. CASE HostReboot
    <3>1. /\ index' = [k \in Key |-> IF Loadable(strikeRows[k])
                                    THEN strikeRows[k] ELSE Absent]
          /\ UNCHANGED <<strikeRows, now>>
      BY <2>1 DEF HostReboot, StoreOK
    <3>2. \A k \in Key : strikeRows[k] # Absent
                           => strikeRows[k].exp \in Nat \cup {Never}
      BY DEF IInv, TypeOK, StrikeRec, Expiry
    <3>3. SUFFICES ASSUME NEW k \in Key
                   PROVE  StrikeStoreConsistent!(k)'
      BY DEF StrikeStoreConsistent
    <3>4. CASE Loadable(strikeRows[k])
      BY <3>1, <3>4 DEF Loadable
    <3>5. CASE ~Loadable(strikeRows[k])
      BY <3>1, <3>2, <3>5 DEF Loadable, IInv, TypeOK
    <3>. QED  BY <3>4, <3>5
  <2>2. CASE [Next]_vars
    BY <2>2, NextStoreConsistent DEF IInv
  <2>. QED  BY <2>1, <2>2 DEF RebootNext
<1>. QED  BY <1>1, <1>2, InitIInv, RebootNextIInv, PTL DEF RebootSpec

=============================================================================
