---------------------------- MODULE FirewallProofs ----------------------------
(***************************************************************************)
(* Proofs about the Firewall Driver, for every value of the constants     *)
(* that satisfies FirewallAssumption.                                     *)
(*                                                                         *)
(* The install loops are folds: IptOutcomes(S) and NftOutcomes(S) are the *)
(* last value of a function f on 0 .. Len(S) defined by recursion on the  *)
(* position in S.  The prover sees f only as CHOOSE f : f = [...], so the *)
(* first lemmas show that such a function exists (by a least-counterexample*)
(* argument over the naturals, WFMin with the well-foundedness of <), and *)
(* then what every loop state f[i] satisfies, by the same argument.       *)
(***************************************************************************)
EXTENDS Firewall, SequenceTheorems, WellFoundedInduction, TLAPS

USE FirewallAssumption

(* The least element of a non-empty set of naturals. *)
LEMMA LeastNat ==
    ASSUME NEW T \in SUBSET Nat, T # {}
    PROVE  \E m \in T : \A n \in T : ~(n < m)
<1>1. PICK m \in T : \A n \in T : ~(<<n, m>> \in OpToRel(<, Nat))
  BY NatLessThanWellFounded, WFMin
<1>. QED  BY <1>1 DEF OpToRel

(* Prepending a set name to a chain: the rule `iptables -I INPUT 1'. *)
LEMMA PrependRule ==
    ASSUME NEW r \in Seq(SetName), NEW s \in SetName
    PROVE  /\ <<s>> \o r \in Seq(SetName)
           /\ Range(<<s>> \o r) = {s} \cup Range(r)
           /\ IsInjective(r) /\ s \notin Range(r) => IsInjective(<<s>> \o r)
<1>1. /\ <<s>> \o r \in Seq(SetName)
      /\ Len(<<s>> \o r) = Len(r) + 1
      /\ \A i \in 1 .. Len(r) + 1 : (<<s>> \o r)[i] = IF i <= 1 THEN s ELSE r[i - 1]
  BY ConcatProperties
<1>2. DOMAIN (<<s>> \o r) = 1 .. Len(r) + 1 /\ DOMAIN r = 1 .. Len(r)
  BY <1>1
<1>3. Range(<<s>> \o r) = {s} \cup Range(r)
  <2>1. ASSUME NEW i \in 1 .. Len(r) + 1 PROVE (<<s>> \o r)[i] \in {s} \cup Range(r)
    <3>1. CASE i = 1
      BY <1>1, <3>1
    <3>2. CASE i # 1
      <4>1. i - 1 \in DOMAIN r
        BY <1>2, <3>2
      <4>. QED  BY <1>1, <3>2, <4>1 DEF Range
    <3>. QED  BY <3>1, <3>2
  <2>2. s \in Range(<<s>> \o r)
    BY <1>1, <1>2 DEF Range
  <2>3. ASSUME NEW j \in DOMAIN r PROVE r[j] \in Range(<<s>> \o r)
    <3>1. j + 1 \in 1 .. Len(r) + 1 /\ (<<s>> \o r)[j + 1] = r[j]
      BY <1>1, <1>2
    <3>. QED  BY <1>2, <3>1 DEF Range
  <2>. QED  BY <1>2, <2>1, <2>2, <2>3 DEF Range
<1>4. IsInjective(r) /\ s \notin Range(r) => IsInjective(<<s>> \o r)
  BY <1>1, <1>2 DEF IsInjective, Range
<1>. QED  BY <1>1, <1>3, <1>4

(* Appending a set name to a chain: `nft add rule'. *)
LEMMA AppendRule ==
    ASSUME NEW r \in Seq(SetName), NEW s \in SetName
    PROVE  Append(r, s) \in Seq(SetName)
BY AppendProperties

-----------------------------------------------------------------------------
(***************************************************************************)
(* The iptables loop as a fold: IptBody is the right-hand side of the     *)
(* recursive definition of f in IptOutcomes, IptFold(S) the function the  *)
(* definition denotes.                                                    *)
(***************************************************************************)
IptBody(g, S, i) ==
    IF i = 0 THEN {[rules |-> iptRules, ok |-> TRUE]}
    ELSE UNION {IptStep(o, S[i]) : o \in g[i - 1]}

IsIptFold(g, S, m) == g = [i \in 0 .. m |-> IptBody(g, S, i)]

IptFold(S) == CHOOSE g : IsIptFold(g, S, Len(S))

LEMMA IptOutcomesIsFold ==
    ASSUME NEW S
    PROVE  IptOutcomes(S) = IptFold(S)[Len(S)]
BY DEF IptOutcomes, IptFold, IsIptFold, IptBody

(* The recursion defines a function on every prefix of the loop. *)
LEMMA IptFoldExists ==
    ASSUME NEW S \in Seq(SetName)
    PROVE  \E g : IsIptFold(g, S, Len(S))
<1> DEFINE T == {m \in 0 .. Len(S) : ~\E g : IsIptFold(g, S, m)}
<1>1. SUFFICES ASSUME T # {} PROVE FALSE
  OBVIOUS
<1>2. PICK m \in T : \A n \in T : ~(n < m)
  <2>1. T \in SUBSET Nat
    OBVIOUS
  <2>. QED  BY <1>1, <2>1, LeastNat
<1>3. CASE m = 0
  <2> DEFINE g == [i \in 0 .. 0 |-> {[rules |-> iptRules, ok |-> TRUE]}]
  <2>1. IsIptFold(g, S, 0)
    BY DEF IsIptFold, IptBody
  <2>. QED  BY <1>2, <1>3, <2>1
<1>4. CASE m # 0
  <2>1. m - 1 \in 0 .. Len(S) /\ m - 1 \notin T
    BY <1>2, <1>4
  <2>2. PICK g : IsIptFold(g, S, m - 1)
    BY <2>1
  <2> DEFINE h == [i \in 0 .. m |-> IF i < m THEN g[i] ELSE IptBody(g, S, m)]
  <2>3. ASSUME NEW i \in 0 .. m PROVE h[i] = IptBody(h, S, i)
    <3>1. CASE i = 0
      BY <1>4, <2>2, <3>1 DEF IsIptFold, IptBody
    <3>2. CASE i # 0
      <4>1. h[i - 1] = g[i - 1]
        BY <3>2
      <4>2. IptBody(h, S, i) = IptBody(g, S, i)
        BY <3>2, <4>1 DEF IptBody
      <4>3. i < m => g[i] = IptBody(g, S, i)
        BY <2>2 DEF IsIptFold
      <4>. QED  BY <4>2, <4>3
    <3>. QED  BY <3>1, <3>2
  <2>4. IsIptFold(h, S, m)
    BY <2>3 DEF IsIptFold
  <2>. QED  BY <1>2, <2>4
<1>. QED  BY <1>3, <1>4

(* IptFold(S) satisfies its recursive definition. *)
LEMMA IptFoldDef ==
    ASSUME NEW S \in Seq(SetName)
    PROVE  \A i \in 0 .. Len(S) : IptFold(S)[i] = IptBody(IptFold(S), S, i)
<1>1. IsIptFold(IptFold(S), S, Len(S))
  BY IptFoldExists DEF IptFold
<1>. QED  BY <1>1 DEF IsIptFold

(***************************************************************************)
(* What the iptables loop keeps after its first i sets: the chain only    *)
(* grows, by names of S[1..i]; while no invocation has failed every one   *)
(* of them has a rule; and, without tool faults, no rule is inserted for  *)
(* a set that already has one.                                            *)
(***************************************************************************)
IptLoopInv(o, S, i) ==
    /\ o.rules \in Seq(SetName)
    /\ o.ok \in BOOLEAN
    /\ Range(iptRules) \subseteq Range(o.rules)
    /\ Range(o.rules) \subseteq Range(iptRules) \cup {S[j] : j \in 1 .. i}
    /\ o.ok => {S[j] : j \in 1 .. i} \subseteq Range(o.rules)
    /\ ~ToolFaults /\ IsInjective(iptRules) => IsInjective(o.rules)

(* One pass of the loop body keeps IptLoopInv. *)
LEMMA IptStepInv ==
    ASSUME iptRules \in Seq(SetName), NEW S \in Seq(SetName), NEW i \in 1 .. Len(S),
           NEW o, IptLoopInv(o, S, i - 1), NEW o2 \in IptStep(o, S[i])
    PROVE  IptLoopInv(o2, S, i)
<1> DEFINE s == S[i]
           Prev == {S[j] : j \in 1 .. i - 1}
           Cur == {S[j] : j \in 1 .. i}
<1>1. s \in SetName /\ Cur = Prev \cup {s}
  BY ElementOfSeq
<1>2. CASE ~o.ok
  <2>1. o2 = o
    BY <1>2 DEF IptStep
  <2>. QED  BY <1>1, <1>2, <2>1 DEF IptLoopInv
<1>3. CASE o.ok
  <2> DEFINE checkFails == IF s \in Range(o.rules)
                           THEN (IF ToolFaults THEN BOOLEAN ELSE {FALSE})
                           ELSE {TRUE}
  <2>1. PICK cf \in checkFails :
          o2 \in IF ~cf THEN {o}
                 ELSE {IF ins THEN [rules |-> <<s>> \o o.rules, ok |-> TRUE]
                              ELSE [rules |-> o.rules, ok |-> FALSE] :
                       ins \in IF s \in ipsets THEN Runs ELSE {FALSE}}
    BY <1>3 DEF IptStep
  <2>2. CASE ~cf
    <3>1. o2 = o /\ s \in Range(o.rules)
      BY <2>1, <2>2
    <3>. QED  BY <1>1, <3>1 DEF IptLoopInv
  <2>3. CASE cf
    <3>1. PICK ins \in BOOLEAN :
            o2 = IF ins THEN [rules |-> <<s>> \o o.rules, ok |-> TRUE]
                 ELSE [rules |-> o.rules, ok |-> FALSE]
      BY <2>1, <2>3 DEF Runs
    <3>2. ~ToolFaults => s \notin Range(o.rules)
      BY <2>1, <2>3
    <3>3. CASE ins
      <4>1. /\ <<s>> \o o.rules \in Seq(SetName)
            /\ Range(<<s>> \o o.rules) = {s} \cup Range(o.rules)
            /\ IsInjective(o.rules) /\ s \notin Range(o.rules)
                 => IsInjective(<<s>> \o o.rules)
        BY <1>1, PrependRule DEF IptLoopInv
      <4>2. o2 = [rules |-> <<s>> \o o.rules, ok |-> TRUE]
        BY <3>1, <3>3
      <4>3. Prev \subseteq Range(o.rules)
        BY <1>3 DEF IptLoopInv
      <4>. QED  BY <1>1, <3>2, <4>1, <4>2, <4>3 DEF IptLoopInv
    <3>4. CASE ~ins
      BY <1>1, <3>1, <3>4 DEF IptLoopInv
    <3>. QED  BY <3>3, <3>4
  <2>. QED  BY <2>2, <2>3
<1>. QED  BY <1>2, <1>3

(* Every state the iptables loop can reach satisfies IptLoopInv. *)
LEMMA IptFoldInv ==
    ASSUME iptRules \in Seq(SetName), NEW S \in Seq(SetName)
    PROVE  \A i \in 0 .. Len(S) : \A o \in IptFold(S)[i] : IptLoopInv(o, S, i)
<1> DEFINE F == IptFold(S)
           T == {i \in 0 .. Len(S) : ~\A o \in F[i] : IptLoopInv(o, S, i)}
<1>1. SUFFICES ASSUME T # {} PROVE FALSE
  OBVIOUS
<1>2. PICK m \in T : \A n \in T : ~(n < m)
  <2>1. T \in SUBSET Nat
    OBVIOUS
  <2>. QED  BY <1>1, <2>1, LeastNat
<1>3. \A i \in 0 .. Len(S) : F[i] = IptBody(F, S, i)
  BY IptFoldDef
<1>4. CASE m = 0
  <2>0. 0 \in 0 .. Len(S)
    BY LenProperties
  <2>1. F[0] = {[rules |-> iptRules, ok |-> TRUE]}
    BY <1>3, <2>0 DEF IptBody
  <2>2. IptLoopInv([rules |-> iptRules, ok |-> TRUE], S, 0)
    BY DEF IptLoopInv
  <2>. QED  BY <1>2, <1>4, <2>1, <2>2
<1>5. CASE m # 0
  <2>1. m - 1 \in 0 .. Len(S) /\ m - 1 \notin T /\ m \in 1 .. Len(S)
    BY <1>2, <1>5
  <2>2. \A o \in F[m - 1] : IptLoopInv(o, S, m - 1)
    BY <2>1
  <2>3. F[m] = UNION {IptStep(o, S[m]) : o \in F[m - 1]}
    BY <1>3, <1>5, <2>1 DEF IptBody
  <2>4. \A o \in F[m - 1] : \A o2 \in IptStep(o, S[m]) : IptLoopInv(o2, S, m)
    BY <2>1, <2>2, IptStepInv
  <2>. QED  BY <1>2, <2>3, <2>4
<1>. QED  BY <1>4, <1>5

(* What InstallFirewallRules(S) can leave in the INPUT chain. *)
LEMMA IptOutcomesInv ==
    ASSUME iptRules \in Seq(SetName), NEW S \in Seq(SetName),
           NEW o \in IptOutcomes(S)
    PROVE  /\ o.rules \in Seq(SetName)
           /\ o.ok \in BOOLEAN
           /\ Range(iptRules) \subseteq Range(o.rules)
           /\ Range(o.rules) \subseteq Range(iptRules) \cup Range(S)
           /\ o.ok => Range(S) \subseteq Range(o.rules)
           /\ ~ToolFaults /\ IsInjective(iptRules) => IsInjective(o.rules)
<1>1. Len(S) \in 0 .. Len(S) /\ o \in IptFold(S)[Len(S)]
  BY IptOutcomesIsFold
<1>2. IptLoopInv(o, S, Len(S))
  BY <1>1, IptFoldInv
<1>3. {S[j] : j \in 1 .. Len(S)} = Range(S)
  BY DEF Range
<1>. QED  BY <1>2, <1>3 DEF IptLoopInv

-----------------------------------------------------------------------------
(* The nftables loop as a fold, as the iptables one above. *)
NftBody(g, S, i) ==
    IF i = 0 THEN {[rules |-> nftRules, sets |-> nftSets]}
    ELSE UNION {NftStep(o, S[i]) : o \in g[i - 1]}

IsNftFold(g, S, m) == g = [i \in 0 .. m |-> NftBody(g, S, i)]

NftFold(S) == CHOOSE g : IsNftFold(g, S, Len(S))

LEMMA NftOutcomesIsFold ==
    ASSUME NEW S
    PROVE  NftOutcomes(S) = NftFold(S)[Len(S)]
BY DEF NftOutcomes, NftFold, IsNftFold, NftBody

LEMMA NftFoldExists ==
    ASSUME NEW S \in Seq(SetName)
    PROVE  \E g : IsNftFold(g, S, Len(S))
<1> DEFINE T == {m \in 0 .. Len(S) : ~\E g : IsNftFold(g, S, m)}
<1>1. SUFFICES ASSUME T # {} PROVE FALSE
  OBVIOUS
<1>2. PICK m \in T : \A n \in T : ~(n < m)
  <2>1. T \in SUBSET Nat
    OBVIOUS
  <2>. QED  BY <1>1, <2>1, LeastNat
<1>3. CASE m = 0
  <2> DEFINE g == [i \in 0 .. 0 |-> {[rules |-> nftRules, sets |-> nftSets]}]
  <2>1. IsNftFold(g, S, 0)
    BY DEF IsNftFold, NftBody
  <2>. QED  BY <1>2, <1>3, <2>1
<1>4. CASE m # 0
  <2>1. m - 1 \in 0 .. Len(S) /\ m - 1 \notin T
    BY <1>2, <1>4
  <2>2. PICK g : IsNftFold(g, S, m - 1)
    BY <2>1
  <2> DEFINE h == [i \in 0 .. m |-> IF i < m THEN g[i] ELSE NftBody(g, S, m)]
  <2>3. ASSUME NEW i \in 0 .. m PROVE h[i] = NftBody(h, S, i)
    <3>1. CASE i = 0
      BY <1>4, <2>2, <3>1 DEF IsNftFold, NftBody
    <3>2. CASE i # 0
      <4>1. h[i - 1] = g[i - 1]
        BY <3>2
      <4>2. NftBody(h, S, i) = NftBody(g, S, i)
        BY <3>2, <4>1 DEF NftBody
      <4>3. i < m => g[i] = NftBody(g, S, i)
        BY <2>2 DEF IsNftFold
      <4>. QED  BY <4>2, <4>3
    <3>. QED  BY <3>1, <3>2
  <2>4. IsNftFold(h, S, m)
    BY <2>3 DEF IsNftFold
  <2>. QED  BY <1>2, <2>4
<1>. QED  BY <1>3, <1>4

(* The nftables loop only ever holds names of SetName. *)
NftLoopInv(o) == o.rules \in Seq(SetName) /\ o.sets \subseteq SetName

LEMMA NftFoldInv ==
    ASSUME nftRules \in Seq(SetName), nftSets \subseteq SetName, NEW S \in Seq(SetName)
    PROVE  \A i \in 0 .. Len(S) : \A o \in NftFold(S)[i] : NftLoopInv(o)
<1> DEFINE F == NftFold(S)
           T == {i \in 0 .. Len(S) : ~\A o \in F[i] : NftLoopInv(o)}
<1>1. SUFFICES ASSUME T # {} PROVE FALSE
  OBVIOUS
<1>2. PICK m \in T : \A n \in T : ~(n < m)
  <2>1. T \in SUBSET Nat
    OBVIOUS
  <2>. QED  BY <1>1, <2>1, LeastNat
<1>3. IsNftFold(F, S, Len(S))
  BY NftFoldExists DEF NftFold
<1>4. CASE m = 0
  <2>1. 0 \in 0 .. Len(S)
    BY LenProperties
  <2>2. F[0] = {[rules |-> nftRules, sets |-> nftSets]}
    BY <1>3, <2>1 DEF IsNftFold, NftBody
  <2>. QED  BY <1>2, <1>4, <2>2 DEF NftLoopInv
<1>5. CASE m # 0
  <2>1. m - 1 \in 0 .. Len(S) /\ m - 1 \notin T /\ m \in 1 .. Len(S)
    BY <1>2, <1>5
  <2>2. F[m] = UNION {NftStep(o, S[m]) : o \in F[m - 1]}
    BY <1>3, <1>5, <2>1 DEF IsNftFold, NftBody
  <2>3. S[m] \in SetName
    BY <2>1, ElementOfSeq
  <2>4. ASSUME NEW o \in F[m - 1], NEW o2 \in NftStep(o, S[m]) PROVE NftLoopInv(o2)
    <3>1. NftLoopInv(o)
      BY <2>1
    <3>2. o.rules \in Seq(SetName) => Append(o.rules, S[m]) \in Seq(SetName)
      BY <2>3, AppendRule
    <3>3. PICK rs \in Runs, rr \in Runs :
            LET sets == IF rs THEN o.sets \cup {S[m]} ELSE o.sets
            IN  o2 = [sets |-> sets,
                      rules |-> IF rr /\ S[m] \in sets THEN Append(o.rules, S[m])
                                ELSE o.rules]
      BY DEF NftStep
    <3>. QED  BY <2>3, <3>1, <3>2, <3>3 DEF NftLoopInv
  <2>. QED  BY <1>2, <2>2, <2>4
<1>. QED  BY <1>4, <1>5

LEMMA NftOutcomesType ==
    ASSUME nftRules \in Seq(SetName), nftSets \subseteq SetName, NEW S \in Seq(SetName),
           NEW o \in NftOutcomes(S)
    PROVE  o.rules \in Seq(SetName) /\ o.sets \subseteq SetName
<1>1. Len(S) \in 0 .. Len(S) /\ o \in NftFold(S)[Len(S)]
  BY NftOutcomesIsFold, LenProperties
<1>. QED  BY <1>1, NftFoldInv DEF NftLoopInv

-----------------------------------------------------------------------------
LEMMA InitTypeOK == Init => TypeOK
<1> SUFFICES ASSUME Init PROVE TypeOK
  OBVIOUS
<1>1. lastCall \in {<<"none">>, <<"reboot">>}
  BY DEF Init
<1>2. ipMembers \in [SetName -> SUBSET IP]
  BY DEF Init
<1>3. iptRules \in Seq(SetName) /\ nftRules \in Seq(SetName)
  BY DEF Init
<1>4. lastCall \in {<<"none">>, <<"reboot">>} \cup {<<"create", s>> : s \in SetName}
                  \cup {<<op, s, ip>> : op \in {"add", "remove"}, s \in SetName, ip \in IP}
                  \cup {<<"install", S>> : S \in InstallArg}
  BY <1>1
<1>5. \A s \in SetName \ ipsets : ipMembers[s] = {}
  BY DEF Init
<1>6. ipsets \subseteq SetName /\ nftSets \subseteq SetName
  BY DEF Init
<1>7. nftTable \in BOOLEAN /\ lastOk \in BOOLEAN
  BY DEF Init
<1>. QED  BY <1>2, <1>3, <1>4, <1>5, <1>6, <1>7 DEF TypeOK

(* TypeOK of the next state, from its conjuncts. *)
LEMMA TypeOKPrime ==
    ASSUME ipsets' \subseteq SetName,
           ipMembers' \in [SetName -> SUBSET IP],
           \A s \in SetName \ ipsets' : ipMembers'[s] = {},
           iptRules' \in Seq(SetName),
           nftTable' \in BOOLEAN,
           nftSets' \subseteq SetName,
           nftRules' \in Seq(SetName),
           lastCall' \in {<<"none">>, <<"reboot">>} \cup {<<"create", s>> : s \in SetName}
                  \cup {<<op, s, ip>> : op \in {"add", "remove"}, s \in SetName, ip \in IP}
                  \cup {<<"install", S>> : S \in InstallArg},
           lastOk' \in BOOLEAN
    PROVE  TypeOK'
BY DEF TypeOK

(* InstallFirewallRules leaves every variable with its type. *)
LEMMA InstallTypeOK ==
    ASSUME TypeOK, NEW A \in InstallArg, InstallFirewallRules(A)
    PROVE  TypeOK'
<1>1. A \in Seq(SetName)
  OBVIOUS
<1>2. lastCall' \in {<<"install", S2>> : S2 \in InstallArg}
  BY DEF InstallFirewallRules
<1>3. CASE Backend = "iptables"
  <2>1. PICK o \in IptOutcomes(A) : iptRules' = o.rules /\ lastOk' = o.ok
    BY <1>3 DEF InstallFirewallRules
  <2>2. o.rules \in Seq(SetName) /\ o.ok \in BOOLEAN
    BY <1>1, IptOutcomesInv DEF TypeOK
  <2>. QED  BY <1>2, <1>3, <2>1, <2>2 DEF InstallFirewallRules, TypeOK
<1>4. CASE Backend # "iptables"
  <2>1. PICK tableOk \in BOOLEAN :
          IF tableOk
          THEN /\ \E o \in NftOutcomes(A) : nftRules' = o.rules /\ nftSets' = o.sets
               /\ nftTable' = TRUE
               /\ lastOk' = TRUE
          ELSE /\ lastOk' = FALSE
               /\ UNCHANGED <<nftTable, nftSets, nftRules>>
    BY <1>4 DEF InstallFirewallRules, Runs
  <2>2. CASE tableOk
    <3>1. PICK o \in NftOutcomes(A) : nftRules' = o.rules /\ nftSets' = o.sets
      BY <2>1, <2>2
    <3>2. o.rules \in Seq(SetName) /\ o.sets \subseteq SetName
      BY <1>1, NftOutcomesType DEF TypeOK
    <3>. QED  BY <1>2, <1>4, <2>1, <2>2, <3>1, <3>2 DEF InstallFirewallRules, TypeOK
  <2>3. CASE ~tableOk
    <3>1. lastOk' = FALSE /\ UNCHANGED <<nftTable, nftSets, nftRules>>
      BY <2>1, <2>3
    <3>2. UNCHANGED <<ipsets, ipMembers, iptRules>>
      BY <1>4 DEF InstallFirewallRules
    <3>3. lastCall' \in {<<"none">>, <<"reboot">>} \cup {<<"create", s>> : s \in SetName}
                  \cup {<<op, s, ip>> : op \in {"add", "remove"}, s \in SetName, ip \in IP}
                  \cup {<<"install", S2>> : S2 \in InstallArg}
      BY <1>2
    <3>4. /\ ipsets' \subseteq SetName
          /\ ipMembers' \in [SetName -> SUBSET IP]
          /\ iptRules' \in Seq(SetName)
      BY <3>2 DEF TypeOK
    <3>5. \A s \in SetName \ ipsets' : ipMembers'[s] = {}
      BY <3>2 DEF TypeOK
    <3>6. nftSets' \subseteq SetName /\ nftRules' \in Seq(SetName)
      BY <3>1 DEF TypeOK
    <3>7. nftTable' \in BOOLEAN
      BY <3>1 DEF TypeOK
    <3>8. lastOk' \in BOOLEAN
      BY <3>1
    <3>. QED  BY <3>3, <3>4, <3>5, <3>6, <3>7, <3>8, TypeOKPrime
  <2>. QED  BY <2>2, <2>3
<1>. QED  BY <1>3, <1>4

LEMMA NextTypeOK == TypeOK /\ [Next]_firewallVars => TypeOK'
<1> SUFFICES ASSUME TypeOK, [Next]_firewallVars PROVE TypeOK'
  OBVIOUS
<1>1. CASE \E s \in SetName : CreateIPSet(s)
  <2>1. PICK s \in SetName : CreateIPSet(s)
    BY <1>1
  <2>2. lastCall' \in {<<"create", x>> : x \in SetName}
    BY <2>1 DEF CreateIPSet
  <2>3. PICK r \in BOOLEAN : ipsets' = (IF r THEN ipsets \cup {s} ELSE ipsets) /\ lastOk' = r
    BY <2>1 DEF CreateIPSet, Runs
  <2>. QED  BY <2>1, <2>2, <2>3 DEF CreateIPSet, TypeOK
<1>2. CASE \E s \in SetName, ip \in IP : AddIPToSet(s, ip)
  <2>1. PICK s \in SetName, ip \in IP : AddIPToSet(s, ip)
    BY <1>2
  <2>2. lastCall' \in {<<op, x, y>> : op \in {"add", "remove"}, x \in SetName, y \in IP}
    BY <2>1 DEF AddIPToSet
  <2>3. PICK done \in BOOLEAN :
          /\ done => s \in ipsets
          /\ ipMembers' = IF done THEN [ipMembers EXCEPT ![s] = @ \cup {ip}] ELSE ipMembers
          /\ lastOk' = done
    BY <2>1 DEF AddIPToSet, Runs
  <2>. QED  BY <2>1, <2>2, <2>3 DEF AddIPToSet, TypeOK
<1>3. CASE \E s \in SetName, ip \in IP : RemoveIPFromSet(s, ip)
  <2>1. PICK s \in SetName, ip \in IP : RemoveIPFromSet(s, ip)
    BY <1>3
  <2>2. lastCall' \in {<<op, x, y>> : op \in {"add", "remove"}, x \in SetName, y \in IP}
    BY <2>1 DEF RemoveIPFromSet
  <2>3. PICK done \in BOOLEAN :
          /\ done => s \in ipsets
          /\ ipMembers' = IF done THEN [ipMembers EXCEPT ![s] = @ \ {ip}] ELSE ipMembers
          /\ lastOk' = done
    BY <2>1 DEF RemoveIPFromSet, Runs
  <2>. QED  BY <2>1, <2>2, <2>3 DEF RemoveIPFromSet, TypeOK
<1>4. CASE \E S \in InstallArg : InstallFirewallRules(S)
  BY <1>4, InstallTypeOK
<1>5. CASE Reboot
  <2>1. lastCall' \in {<<"none">>, <<"reboot">>}
    BY <1>5 DEF Reboot
  <2>2. /\ ipsets' = {} /\ nftSets' = {}
        /\ ipMembers' = [s \in SetName |-> {}]
        /\ iptRules' = << >> /\ nftRules' = << >>
        /\ nftTable' = FALSE /\ lastOk' = TRUE
    BY <1>5 DEF Reboot
  <2>3. /\ ipMembers' \in [SetName -> SUBSET IP]
        /\ iptRules' \in Seq(SetName) /\ nftRules' \in Seq(SetName)
    BY <2>2
  <2>4. nftTable' \in BOOLEAN /\ lastOk' \in BOOLEAN
    BY <2>2, Zenon
  <2>5. \A s \in SetName \ ipsets' : ipMembers'[s] = {}
    BY <2>2
  <2>6. ipsets' \subseteq SetName /\ nftSets' \subseteq SetName
    BY <2>2
  <2>7. lastCall' \in {<<"none">>, <<"reboot">>} \cup {<<"create", s>> : s \in SetName}
                  \cup {<<op, s, ip>> : op \in {"add", "remove"}, s \in SetName, ip \in IP}
                  \cup {<<"install", S>> : S \in InstallArg}
    BY <2>1
  <2>. QED  BY <2>3, <2>4, <2>5, <2>6, <2>7, TypeOKPrime
<1>6. CASE UNCHANGED firewallVars
  BY <1>6 DEF firewallVars, TypeOK
<1>. QED  BY <1>1, <1>2, <1>3, <1>4, <1>5, <1>6 DEF Next

(***************************************************************************)
(* Every variable of the driver has its type, and only an existing ipset  *)
(* has members, whatever the tools return: `ipset add' on a missing set   *)
(* fails, and the install loops only ever put names of SetName in a chain.*)
(***************************************************************************)
THEOREM DriverTypeCorrect == Spec => []TypeOK
BY InitTypeOK, NextTypeOK, PTL DEF Spec

-----------------------------------------------------------------------------
(***************************************************************************)
(* On the iptables backend and with tools that do not fail, the INPUT     *)
(* chain never holds two rules for the same ipset: installIPTablesRules   *)
(* checks with `iptables -C' before every insertion, and a reboot empties *)
(* the chain.  (With the nftables backend every install appends a rule,   *)
(* and a faulty `iptables -C' makes the loop insert a second one.)        *)
(***************************************************************************)
THEOREM IptRulesNotDuplicated ==
    ASSUME ~NftAvailable, ~ToolFaults
    PROVE  Spec => []RulesNotDuplicated
<1>1. Backend = "iptables" /\ RulesNotDuplicated = IsInjective(iptRules)
  BY DEF Backend, RulesNotDuplicated, ActiveRules
<1>2. Init => RulesNotDuplicated
  BY <1>1 DEF Init, IsInjective
<1>3. TypeOK /\ RulesNotDuplicated /\ [Next]_firewallVars => RulesNotDuplicated'
  <2> SUFFICES ASSUME TypeOK, IsInjective(iptRules), [Next]_firewallVars
               PROVE  IsInjective(iptRules')
    BY <1>1 DEF RulesNotDuplicated, ActiveRules, Backend
  <2>1. CASE \E S \in InstallArg : InstallFirewallRules(S)
    <3>1. PICK S \in InstallArg : InstallFirewallRules(S)
      BY <2>1
    <3>2. PICK o \in IptOutcomes(S) : iptRules' = o.rules
      BY <1>1, <3>1 DEF InstallFirewallRules
    <3>. QED  BY <3>2, IptOutcomesInv DEF TypeOK
  <2>2. CASE Reboot
    BY <2>2 DEF Reboot, IsInjective
  <2>3. CASE ~(\E S \in InstallArg : InstallFirewallRules(S)) /\ ~Reboot
    <3>1. UNCHANGED iptRules
      BY <2>3 DEF Next, firewallVars, CreateIPSet, AddIPToSet, RemoveIPFromSet
    <3>. QED  BY <3>1
  <2>. QED  BY <2>1, <2>2, <2>3
<1>. QED  BY <1>2, <1>3, DriverTypeCorrect, PTL DEF Spec

-----------------------------------------------------------------------------
(***************************************************************************)
(* The refinement, on the iptables backend.  Under the mapping of          *)
(* Abstract, each driver function is the FirewallSpec operation of the     *)
(* same name with the same arguments: a failing tool makes the abstract   *)
(* operation fail, and an install that stops at its first error has put   *)
(* rules for a part of the named sets.                                    *)
(***************************************************************************)
AbsCall == IF lastCall[1] = "install" THEN <<"install", Range(lastCall[2])>> ELSE lastCall

LEMMA InstallRefines ==
    ASSUME ~NftAvailable, TypeOK, NEW S \in InstallArg, InstallFirewallRules(S)
    PROVE  Abstract!Install(Range(S))
<1>1. Backend = "iptables" /\ MatchedIpsets = Range(iptRules)
      /\ MatchedIpsets' = Range(iptRules')
  BY DEF Backend, MatchedIpsets
<1>2. PICK o \in IptOutcomes(S) : iptRules' = o.rules /\ lastOk' = o.ok
  BY <1>1 DEF InstallFirewallRules
<1>3. /\ o.ok \in BOOLEAN
      /\ Range(iptRules) \subseteq Range(o.rules)
      /\ Range(o.rules) \subseteq Range(iptRules) \cup Range(S)
      /\ o.ok => Range(S) \subseteq Range(o.rules)
  BY IptOutcomesInv DEF TypeOK
<1>4. AbsCall' = <<"install", Range(S)>>
  BY DEF InstallFirewallRules, AbsCall
<1>5. UNCHANGED <<ipsets, ipMembers>>
  BY <1>1 DEF InstallFirewallRules
<1>6. CASE o.ok
  <2>1. MatchedIpsets' = MatchedIpsets \cup Range(S) /\ lastOk' = TRUE
    BY <1>1, <1>2, <1>3, <1>6
  <2>. QED  BY <1>4, <1>5, <2>1 DEF Abstract!Install, AbsCall
<1>7. CASE ~o.ok
  <2>1. /\ Range(o.rules) \cap Range(S) \in SUBSET Range(S)
        /\ MatchedIpsets' = MatchedIpsets \cup (Range(o.rules) \cap Range(S))
        /\ lastOk' = FALSE
    BY <1>1, <1>2, <1>3, <1>7
  <2>. QED  BY <1>4, <1>5, <2>1 DEF Abstract!Install, AbsCall
<1>. QED  BY <1>3, <1>6, <1>7

(***************************************************************************)
(* On the iptables backend the driver implements its design (4.1), tool   *)
(* failures included: every behaviour of Spec, seen through the mapping,  *)
(* is a behaviour of FirewallSpec.  In particular a nil from              *)
(* InstallFirewallRules means a DROP rule matches every named ipset.      *)
(***************************************************************************)
THEOREM IptDriverRefinesSpec ==
    ASSUME ~NftAvailable
    PROVE  Spec => DriverRefinesSpec
<1>1. Backend = "iptables" /\ MatchedIpsets = Range(iptRules)
      /\ MatchedIpsets' = Range(iptRules')
  BY DEF Backend, MatchedIpsets
<1>2. Init => Abstract!Init
  BY <1>1 DEF Init, Abstract!Init, Range
<1>3. TypeOK /\ [Next]_firewallVars => [Abstract!Next]_Abstract!fwVars
  <2> SUFFICES ASSUME TypeOK, [Next]_firewallVars
               PROVE  [Abstract!Next]_Abstract!fwVars
    OBVIOUS
  <2>1. CASE \E s \in SetName : CreateIPSet(s)
    <3>1. PICK s \in SetName : CreateIPSet(s)
      BY <2>1
    <3>2. AbsCall' = <<"create", s>> /\ UNCHANGED <<ipMembers, MatchedIpsets>>
      BY <1>1, <3>1 DEF CreateIPSet, AbsCall
    <3>3. Abstract!Create(s)
      BY <3>1, <3>2 DEF CreateIPSet, Runs, Abstract!Create, AbsCall
    <3>. QED  BY <3>3 DEF Abstract!Next
  <2>2. CASE \E s \in SetName, ip \in IP : AddIPToSet(s, ip)
    <3>1. PICK s \in SetName, ip \in IP : AddIPToSet(s, ip)
      BY <2>2
    <3>2. AbsCall' = <<"add", s, ip>> /\ UNCHANGED <<ipsets, MatchedIpsets>>
      BY <1>1, <3>1 DEF AddIPToSet, AbsCall
    <3>3. Abstract!Add(s, ip)
      BY <3>1, <3>2 DEF AddIPToSet, Runs, Abstract!Add, AbsCall
    <3>. QED  BY <3>3 DEF Abstract!Next
  <2>3. CASE \E s \in SetName, ip \in IP : RemoveIPFromSet(s, ip)
    <3>1. PICK s \in SetName, ip \in IP : RemoveIPFromSet(s, ip)
      BY <2>3
    <3>2. AbsCall' = <<"remove", s, ip>> /\ UNCHANGED <<ipsets, MatchedIpsets>>
      BY <1>1, <3>1 DEF RemoveIPFromSet, AbsCall
    <3>3. Abstract!Remove(s, ip)
      BY <3>1, <3>2 DEF RemoveIPFromSet, Runs, Abstract!Remove, AbsCall
    <3>. QED  BY <3>3 DEF Abstract!Next
  <2>4. CASE \E S \in InstallArg : InstallFirewallRules(S)
    <3>1. PICK S \in InstallArg : InstallFirewallRules(S)
      BY <2>4
    <3>2. Abstract!Install(Range(S)) /\ Range(S) \in {Range(S2) : S2 \in InstallArg}
      BY <3>1, InstallRefines
    <3>. QED  BY <3>2 DEF Abstract!Next
  <2>5. CASE Reboot
    <3>1. Abstract!Reboot
      BY <1>1, <2>5 DEF Reboot, Abstract!Reboot, AbsCall, Range
    <3>. QED  BY <3>1 DEF Abstract!Next
  <2>6. CASE UNCHANGED firewallVars
    BY <1>1, <2>6 DEF firewallVars, Abstract!fwVars
  <2>. QED  BY <2>1, <2>2, <2>3, <2>4, <2>5, <2>6 DEF Next
<1>. QED  BY <1>2, <1>3, DriverTypeCorrect, PTL DEF Spec, DriverRefinesSpec, Abstract!Spec

=============================================================================
