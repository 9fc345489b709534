------------------------ MODULE PolicyAdmissionProofs ------------------------
(***************************************************************************)
(* Theorems about PolicyAdmission and the merge of policies: merging       *)
(* obeys every policy taken alone, adding a policy relaxes nothing, and    *)
(* what the controller leaves behind when it has nothing left to do is     *)
(* current.                                                                *)
(*                                                                         *)
(* What the loop of MergePolicies computes is found by induction over the  *)
(* list, here with the least number of a set of naturals.                  *)
(***************************************************************************)
EXTENDS PolicyAdmission, FiniteSetTheorems, WellFoundedInduction, TLAPS

-----------------------------------------------------------------------------
(* Induction.                                                              *)

LEMMA LeastNumber ==
  ASSUME NEW T, T \subseteq Nat, T # {}
  PROVE  \E n \in T : \A m \in T : n <= m
<1>1. IsWellFoundedOn(OpToRel(<, Nat), Nat)
  BY NatLessThanWellFounded
<1>2. PICK n \in T : \A m \in T : ~(<<m, n>> \in OpToRel(<, Nat))
  BY <1>1, WFMin, Zenon
<1>3. \A m \in Nat : m < n => <<m, n>> \in OpToRel(<, Nat)
  BY DEF OpToRel
<1>4. \A m \in T : ~(m < n)
  BY <1>2, <1>3
<1>5. QED
  BY <1>4

\* What is true of 0 and passes on to the next number is true up to N.
LEMMA UpTo ==
  ASSUME NEW N \in Nat, NEW S, 0 \in S, \A n \in 0 .. N - 1 : n \in S => n + 1 \in S
  PROVE  \A n \in 0 .. N : n \in S
<1> DEFINE T == {n \in 0 .. N : n \notin S}
<1> SUFFICES ASSUME T # {} PROVE FALSE
  BY DEF T
<1>1. T \subseteq Nat
  OBVIOUS
<1>2. PICK n \in T : \A m \in T : n <= m
  BY <1>1, LeastNumber
<1>3. n # 0 /\ n \in 0 .. N /\ n - 1 \in 0 .. N - 1
  BY <1>2
<1>4. n - 1 \notin T
  BY <1>2, <1>3
<1>5. QED
  BY <1>2, <1>3, <1>4

-----------------------------------------------------------------------------
(* The loop of MergePolicies.                                              *)

\* eff is what the loop makes of the first N policies of the list.
Loop(eff, list, N) ==
  /\ eff = [n \in 0 .. N |-> eff[n]]
  /\ eff[0] = NoPolicy
  /\ \A n \in 1 .. N : eff[n] = MergeOne(eff[n - 1], list[n])

LEMMA LoopExists ==
  ASSUME NEW list, Len(list) \in Nat
  PROVE  \E eff : Loop(eff, list, Len(list))
<1> DEFINE S == {N \in Nat : \E eff : Loop(eff, list, N)}
<1>1. 0 \in S
  <2>1. Loop([n \in 0 .. 0 |-> NoPolicy], list, 0)
    BY DEF Loop
  <2>2. QED
    BY <2>1
<1>2. ASSUME NEW N \in 0 .. Len(list) - 1, N \in S PROVE N + 1 \in S
  <2>1. PICK eff : Loop(eff, list, N)
    BY <1>2
  <2> DEFINE new == [n \in 0 .. N + 1 |-> IF n = N + 1 THEN MergeOne(eff[N], list[N + 1]) ELSE eff[n]]
  <2>2. \A n \in 0 .. N : new[n] = eff[n]
    OBVIOUS
  <2>3. new[N + 1] = MergeOne(eff[N], list[N + 1])
    OBVIOUS
  <2>4. new = [n \in 0 .. N + 1 |-> new[n]]
    OBVIOUS
  <2> HIDE DEF new
  <2>5. ASSUME NEW n \in 1 .. N + 1 PROVE new[n] = MergeOne(new[n - 1], list[n])
    <3>1. CASE n = N + 1
      <4>1. n - 1 = N
        BY <3>1
      <4>2. QED
        BY <2>2, <2>3, <3>1, <4>1
    <3>2. CASE n \in 1 .. N
      <4>1. eff[n] = MergeOne(eff[n - 1], list[n])
        BY <2>1, <3>2 DEF Loop
      <4>2. n - 1 \in 0 .. N
        BY <3>2
      <4>3. QED
        BY <2>2, <3>2, <4>1, <4>2
    <3>3. QED
      BY <3>1, <3>2
  <2>6. new[0] = NoPolicy
    BY <2>1, <2>2 DEF Loop
  <2>7. Loop(new, list, N + 1)
    BY <2>4, <2>5, <2>6 DEF Loop
  <2>8. QED
    BY <2>7
<1>3. \A N \in 0 .. Len(list) : N \in S
  <2> HIDE DEF S
  <2> QED
    BY <1>1, <1>2, UpTo
<1>4. QED
  BY <1>3

LEMMA MergeLoopIs ==
  ASSUME NEW list, Len(list) \in Nat
  PROVE  Loop(MergeLoop(list), list, Len(list))
<1> DEFINE Is(f) == f = [n \in 0 .. Len(list) |-> IF n = 0 THEN NoPolicy ELSE MergeOne(f[n - 1], list[n])]
<1>1. PICK eff : Loop(eff, list, Len(list))
  BY LoopExists
<1>2. Is(eff)
  <2>1. \A n \in 0 .. Len(list) : eff[n] = IF n = 0 THEN NoPolicy ELSE MergeOne(eff[n - 1], list[n])
    BY <1>1 DEF Loop
  <2>2. QED
    BY <1>1, <2>1 DEF Loop
<1>3. MergeLoop(list) = CHOOSE f : Is(f)
  BY DEF MergeLoop
<1> HIDE DEF Is
<1>4. Is(MergeLoop(list))
  BY <1>2, <1>3
<1> USE DEF Is
<1>5. QED
  BY <1>4 DEF Loop

-----------------------------------------------------------------------------
(* What a merge is, whatever the order of the list.                        *)

Modes == {"Audit", "Warn", "Enforce"}
Trusts == {"internal", "external", "sandbox"}
Levels == {"none", "pattern", "schema", "semantic"}

LEMMA Orders ==
  /\ enforcementModeOrder["Audit"] = 0 /\ enforcementModeOrder["Warn"] = 1 /\ enforcementModeOrder["Enforce"] = 2
  /\ trustLevelOrder["internal"] = 0 /\ trustLevelOrder["external"] = 1 /\ trustLevelOrder["sandbox"] = 2
  /\ validationLevelOrder["none"] = 0 /\ validationLevelOrder["pattern"] = 1
  /\ validationLevelOrder["schema"] = 2 /\ validationLevelOrder["semantic"] = 3
BY DEF enforcementModeOrder, trustLevelOrder, validationLevelOrder

LEMMA OrderTypes ==
  /\ \A m \in Modes : enforcementModeOrder[m] \in Nat
  /\ \A t \in Trusts : trustLevelOrder[t] \in Nat
  /\ \A v \in Levels : validationLevelOrder[v] \in Nat
BY Orders DEF Modes, Trusts, Levels

\* limit is the lowest, or for a floor the highest, of what the policies set.
LimitOf(limit, S, f) ==
  /\ limit \in Limit
  /\ limit = Nil => \A p \in S : p.limits[f] = Nil
  /\ limit # Nil => \E p \in S : p.limits[f] = limit
  /\ \A p \in S : limit # Nil /\ p.limits[f] # Nil =>
       /\ f \in Ceilings => limit <= p.limits[f]
       /\ f \notin Ceilings => p.limits[f] <= limit

ModeOf(mode, S) ==
  /\ mode \in Modes
  /\ \A p \in S : enforcementModeOrder[p.mode] <= enforcementModeOrder[mode]

TrustOf(trust, S) ==
  /\ trust \in Trusts \/ trust = Nil
  /\ trust = Nil => \A p \in S : p.trust = Nil
  /\ trust # Nil => \E p \in S : p.trust = trust
  /\ \A p \in S : trust # Nil /\ p.trust # Nil => trustLevelOrder[p.trust] <= trustLevelOrder[trust]

ValidationOf(level, S) ==
  /\ level \in Levels
  /\ level = "none" \/ \E p \in S : p.validation = level
  /\ \A p \in S : validationLevelOrder[p.validation] <= validationLevelOrder[level]

Shaped(e) ==
  e = [mode |-> e.mode, requires |-> e.requires, limits |-> e.limits, toolDeny |-> e.toolDeny,
       trust |-> e.trust, validation |-> e.validation, denyPatterns |-> e.denyPatterns,
       allowed |-> e.allowed, denied |-> e.denied]

IsMerge(e, S) ==
  /\ Shaped(e)
  /\ ModeOf(e.mode, S)
  /\ e.requires = UNION {p.requires : p \in S}
  /\ e.limits = [f \in LimitFields |-> e.limits[f]]
  /\ \A f \in LimitFields : LimitOf(e.limits[f], S, f)
  /\ e.toolDeny = UNION {p.toolDeny : p \in S}
  /\ TrustOf(e.trust, S)
  /\ ValidationOf(e.validation, S)
  /\ e.denied = UNION {p.denied : p \in S}
  /\ e.denyPatterns = UNION {p.denyPatterns : p \in S}

LEMMA EmptyMerge == IsMerge(NoPolicy, {})
<1>1. \A f \in LimitFields : NoLimits[f] = Nil
  BY DEF NoLimits
<1>2. NoLimits = [f \in LimitFields |-> NoLimits[f]]
  BY DEF NoLimits
<1>3. \A f \in LimitFields : LimitOf(NoLimits[f], {}, f)
  BY <1>1 DEF LimitOf, Limit
<1>4. Shaped(NoPolicy)
  BY DEF Shaped, NoPolicy
<1>5. ModeOf("Audit", {}) /\ TrustOf(Nil, {}) /\ ValidationOf("none", {})
  BY DEF ModeOf, TrustOf, ValidationOf, Modes, Levels
<1>6. QED
  BY <1>2, <1>3, <1>4, <1>5 DEF IsMerge, NoPolicy

LEMMA LimitStep ==
  ASSUME NEW S, NEW p, ValidPolicy(p), \A q \in S : ValidPolicy(q),
         NEW f \in LimitFields, NEW limit, LimitOf(limit, S, f)
  PROVE  /\ f \in Ceilings => LimitOf(minPtr(limit, p.limits[f]), S \cup {p}, f)
         /\ f \notin Ceilings => LimitOf(maxPtr(limit, p.limits[f]), S \cup {p}, f)
<1>1. limit \in Limit /\ \A q \in S \cup {p} : q.limits[f] \in Limit
  BY DEF ValidPolicy, LimitOf
<1>2. \A x \in Limit : x # Nil => x \in Nat
  BY DEF Limit
<1>3. CASE f \in Ceilings
  BY <1>1, <1>2, <1>3 DEF LimitOf, minPtr
<1>4. CASE f \notin Ceilings
  BY <1>1, <1>2, <1>4 DEF LimitOf, maxPtr
<1>5. QED
  BY <1>3, <1>4

LEMMA MergeOneIs ==
  ASSUME NEW e, Shaped(e), NEW p
  PROVE  LET new == MergeOne(e, p)
         IN  /\ new.mode = Stricter(enforcementModeOrder, e.mode, p.mode)
             /\ new.requires = e.requires \cup p.requires
             /\ new.limits = mergeLimits(e.limits, p.limits)
             /\ new.toolDeny = e.toolDeny \cup p.toolDeny
             /\ new.trust = IF p.trust = Nil THEN e.trust
                            ELSE IF e.trust = Nil THEN p.trust ELSE Stricter(trustLevelOrder, e.trust, p.trust)
             /\ new.validation = Stricter(validationLevelOrder, e.validation, p.validation)
             /\ new.denied = e.denied \cup p.denied
             /\ new.denyPatterns = e.denyPatterns \cup p.denyPatterns
             /\ Shaped(new)
<1> DEFINE new == MergeOne(e, p)
<1>1. DOMAIN e = {"mode", "requires", "limits", "toolDeny", "trust", "validation", "denyPatterns", "allowed", "denied"}
  BY DEF Shaped
<1>2. DOMAIN new = DOMAIN e /\ new = [x \in DOMAIN e |-> new[x]]
  BY DEF MergeOne
<1>3. Shaped(new)
  <2> HIDE DEF new
  <2> QED
    BY <1>1, <1>2 DEF Shaped
<1>4. QED
  BY <1>1, <1>3 DEF MergeOne

LEMMA MergeStep ==
  ASSUME NEW S, NEW p, ValidPolicy(p), \A q \in S : ValidPolicy(q), NEW e, IsMerge(e, S)
  PROVE  IsMerge(MergeOne(e, p), S \cup {p})
<1> DEFINE new == MergeOne(e, p)
           trust == IF p.trust = Nil THEN e.trust
                    ELSE IF e.trust = Nil THEN p.trust ELSE Stricter(trustLevelOrder, e.trust, p.trust)
<1>1. /\ new.mode = Stricter(enforcementModeOrder, e.mode, p.mode)
      /\ new.requires = e.requires \cup p.requires
      /\ new.limits = mergeLimits(e.limits, p.limits)
      /\ new.toolDeny = e.toolDeny \cup p.toolDeny
      /\ new.trust = trust
      /\ new.validation = Stricter(validationLevelOrder, e.validation, p.validation)
      /\ new.denied = e.denied \cup p.denied
      /\ new.denyPatterns = e.denyPatterns \cup p.denyPatterns
      /\ Shaped(new)
  BY MergeOneIs DEF IsMerge
<1> HIDE DEF new, trust
<1>2. ModeOf(new.mode, S \cup {p})
  <2>1. e.mode \in Modes /\ p.mode \in Modes /\ \A q \in S : q.mode \in Modes
    BY DEF IsMerge, ModeOf, ValidPolicy, Modes
  <2>2. \A q \in S : enforcementModeOrder[q.mode] <= enforcementModeOrder[e.mode]
    BY DEF IsMerge, ModeOf
  <2>3. QED
    BY <1>1, <2>1, <2>2, OrderTypes DEF ModeOf, Stricter
<1>3. ValidationOf(new.validation, S \cup {p})
  <2>1. e.validation \in Levels /\ p.validation \in Levels /\ \A q \in S : q.validation \in Levels
    BY DEF IsMerge, ValidationOf, ValidPolicy, Levels
  <2>2. QED
    BY <1>1, <2>1, OrderTypes DEF IsMerge, ValidationOf, Stricter
<1>4. TrustOf(new.trust, S \cup {p})
  <2>1. /\ e.trust \in Trusts \/ e.trust = Nil
        /\ p.trust \in Trusts \/ p.trust = Nil
        /\ \A q \in S : q.trust \in Trusts \/ q.trust = Nil
    BY DEF IsMerge, TrustOf, ValidPolicy, Trusts
  <2>2. TrustOf(e.trust, S)
    BY DEF IsMerge
  <2>3. CASE p.trust = Nil
    BY <1>1, <2>2, <2>3 DEF TrustOf, trust
  <2>4. CASE p.trust # Nil /\ e.trust = Nil
    BY <1>1, <2>1, <2>2, <2>4, OrderTypes DEF TrustOf, trust
  <2>5. CASE p.trust # Nil /\ e.trust # Nil
    BY <1>1, <2>1, <2>2, <2>5, OrderTypes DEF TrustOf, trust, Stricter
  <2>6. QED
    BY <2>3, <2>4, <2>5
<1>5. /\ new.limits = [f \in LimitFields |-> new.limits[f]]
      /\ \A f \in LimitFields : LimitOf(new.limits[f], S \cup {p}, f)
  <2>1. \A f \in LimitFields : new.limits[f] = IF f \in Ceilings THEN minPtr(e.limits[f], p.limits[f])
                                                 ELSE maxPtr(e.limits[f], p.limits[f])
    BY <1>1 DEF mergeLimits
  <2>2. new.limits = [f \in LimitFields |-> new.limits[f]]
    BY <1>1 DEF mergeLimits
  <2>3. ASSUME NEW f \in LimitFields PROVE LimitOf(new.limits[f], S \cup {p}, f)
    <3>1. LimitOf(e.limits[f], S, f)
      BY DEF IsMerge
    <3>2. CASE f \in Ceilings
      <4>1. new.limits[f] = minPtr(e.limits[f], p.limits[f])
        BY <2>1, <3>2
      <4>2. LimitOf(minPtr(e.limits[f], p.limits[f]), S \cup {p}, f)
        BY <3>1, <3>2, LimitStep, Zenon
      <4>3. QED
        BY <4>1, <4>2
    <3>3. CASE f \notin Ceilings
      BY <2>1, <3>1, <3>3, LimitStep
    <3>4. QED
      BY <3>2, <3>3
  <2>4. QED
    BY <2>2, <2>3
<1>6. /\ new.requires = UNION {q.requires : q \in S \cup {p}}
      /\ new.toolDeny = UNION {q.toolDeny : q \in S \cup {p}}
      /\ new.denied = UNION {q.denied : q \in S \cup {p}}
      /\ new.denyPatterns = UNION {q.denyPatterns : q \in S \cup {p}}
  BY <1>1 DEF IsMerge
<1>7. QED
  BY <1>1, <1>2, <1>3, <1>4, <1>5, <1>6 DEF IsMerge, new

LEMMA LoopMerges ==
  ASSUME NEW list, Len(list) \in Nat, DOMAIN list = 1 .. Len(list), \A i \in DOMAIN list : ValidPolicy(list[i])
  PROVE  IsMerge(MergeLoop(list)[Len(list)], ToSet(list))
<1> DEFINE eff == MergeLoop(list)
           First(n) == {list[i] : i \in 1 .. n}
           S == {n \in 0 .. Len(list) : IsMerge(eff[n], First(n))}
<1>1. Loop(eff, list, Len(list))
  BY MergeLoopIs
<1> HIDE DEF eff
<1>2. 0 \in S
  <2>1. First(0) = {}
    OBVIOUS
  <2>2. QED
    BY <1>1, <2>1, EmptyMerge DEF Loop
<1>3. ASSUME NEW n \in 0 .. Len(list) - 1, n \in S PROVE n + 1 \in S
  <2>1. IsMerge(eff[n], First(n)) /\ n + 1 \in 1 .. Len(list)
    BY <1>3
  <2>2. eff[n + 1] = MergeOne(eff[n], list[n + 1])
    <3>1. n + 1 - 1 = n
      OBVIOUS
    <3>2. QED
      BY <1>1, <2>1, <3>1 DEF Loop
  <2>3. First(n + 1) = First(n) \cup {list[n + 1]}
    OBVIOUS
  <2>4. ValidPolicy(list[n + 1]) /\ \A q \in First(n) : ValidPolicy(q)
    BY <2>1
  <2> HIDE DEF First
  <2>5. IsMerge(eff[n + 1], First(n + 1))
    BY <2>1, <2>2, <2>3, <2>4, MergeStep
  <2>6. QED
    BY <2>1, <2>5
<1>4. Len(list) \in S
  <2> HIDE DEF S
  <2>1. \A n \in 0 .. Len(list) : n \in S
    BY <1>2, <1>3, UpTo
  <2>2. QED
    BY <2>1
<1>5. First(Len(list)) = ToSet(list)
  BY DEF ToSet
<1>6. QED
  BY <1>4, <1>5 DEF eff

\* A list of policies as the controller and the webhooks read it.
ValidList(list) ==
  /\ Len(list) \in Nat /\ DOMAIN list = 1 .. Len(list)
  /\ \A i \in DOMAIN list : ValidPolicy(list[i])
  /\ list = <<>> <=> Len(list) = 0

LEMMA Merged ==
  ASSUME NEW list, ValidList(list), list # <<>>
  PROVE  IsMerge(MergePolicies(list), ToSet(list))
<1> DEFINE e == MergeLoop(list)[Len(list)]
           A == intersectAllowLists({p.allowed : p \in ToSet(list)} \ {{}})
<1>1. IsMerge(e, ToSet(list))
  BY LoopMerges DEF ValidList
<1>2. MergePolicies(list) = [e EXCEPT !.allowed = A]
  BY DEF MergePolicies
<1> HIDE DEF e, A
<1> DEFINE new == [e EXCEPT !.allowed = A]
<1>3. DOMAIN e = {"mode", "requires", "limits", "toolDeny", "trust", "validation", "denyPatterns", "allowed", "denied"}
  BY <1>1 DEF Shaped, IsMerge
<1>4. DOMAIN new = DOMAIN e /\ new = [x \in DOMAIN e |-> new[x]]
  OBVIOUS
<1>5. /\ new.mode = e.mode /\ new.requires = e.requires /\ new.limits = e.limits /\ new.toolDeny = e.toolDeny
      /\ new.trust = e.trust /\ new.validation = e.validation /\ new.denied = e.denied
      /\ new.denyPatterns = e.denyPatterns
  BY <1>3
<1> HIDE DEF new
<1>6. Shaped(new)
  BY <1>3, <1>4 DEF Shaped
<1>7. IsMerge(new, ToSet(list))
  BY <1>1, <1>5, <1>6 DEF IsMerge
<1>8. QED
  BY <1>2, <1>7 DEF new

\* The lists of the namespace: an effective policy is not nil.
SpecList(list) == ValidList(list) /\ \A i \in DOMAIN list : list[i] \in Policies

LEMMA EffectiveIsNotNil ==
  ASSUME NEW list, SpecList(list), list # <<>>
  PROVE  MergePolicies(list) \in EffectivePolicy /\ MergePolicies(list) # Nil
<1> DEFINE e == MergePolicies(list)
           S == ToSet(list)
<1>1. IsMerge(e, S)
  BY Merged DEF SpecList
<1>2. S \subseteq Policies
  BY DEF ToSet, SpecList
<1>3. e.allowed \subseteq UNION {p.allowed : p \in S}
  <2>1. e.allowed = intersectAllowLists({p.allowed : p \in S} \ {{}})
    <3> DEFINE m == MergeLoop(list)[Len(list)]
               A == intersectAllowLists({p.allowed : p \in S} \ {{}})
    <3>1. e = [m EXCEPT !.allowed = A]
      BY DEF MergePolicies
    <3>2. IsMerge(m, S)
      BY LoopMerges DEF SpecList, ValidList
    <3> HIDE DEF m, A, e
    <3>3. "allowed" \in DOMAIN m
      BY <3>2 DEF IsMerge, Shaped
    <3>4. QED
      BY <3>1, <3>3 DEF A
  <2>2. QED
    BY <2>1 DEF intersectAllowLists
<1> HIDE DEF e, S
<1>4. /\ e.requires \subseteq UNION {p["requires"] : p \in Policies}
      /\ e.toolDeny \subseteq UNION {p["toolDeny"] : p \in Policies}
      /\ e.denyPatterns \subseteq UNION {p["denyPatterns"] : p \in Policies}
      /\ e.denied \subseteq UNION {p["denied"] : p \in Policies}
      /\ e.allowed \subseteq UNION {p["allowed"] : p \in Policies}
  BY <1>1, <1>2, <1>3 DEF IsMerge
<1>5. e.limits \in [LimitFields -> Limit]
  BY <1>1 DEF IsMerge, LimitOf
<1>6. /\ e.mode \in DOMAIN enforcementModeOrder
      /\ e.trust \in DOMAIN trustLevelOrder \cup {Nil}
      /\ e.validation \in DOMAIN validationLevelOrder
  BY <1>1 DEF IsMerge, ModeOf, TrustOf, ValidationOf, Modes, Trusts, Levels,
              enforcementModeOrder, trustLevelOrder, validationLevelOrder
<1>7. Shaped(e)
  BY <1>1 DEF IsMerge
<1>8. e \in EffectivePolicy
  BY <1>4, <1>5, <1>6, <1>7 DEF EffectivePolicy, Shaped
<1>9. QED
  BY <1>8, PoliciesAssumption DEF e

-----------------------------------------------------------------------------
(* A merge is at least as strict as each of its policies.                  *)

LEMMA Int32Facts ==
  ASSUME NEW x \in Int
  PROVE  /\ int32(x) \in Int
         /\ x \in -TwoTo31 .. TwoTo31 - 1 => int32(x) = x
         /\ x >= -TwoTo31 => int32(x) <= x
<1> DEFINE y == x + TwoTo31
           b == 2 * TwoTo31
<1>1. b \in Nat \ {0} /\ TwoTo31 \in Nat \ {0} /\ y \in Int
  BY WidthAssumption
<1>2. int32(x) = (y % b) - TwoTo31 /\ x = y - TwoTo31
  BY <1>1 DEF int32
<1>3. x >= -TwoTo31 => y \in Nat
  BY <1>1
<1>4. x \in -TwoTo31 .. TwoTo31 - 1 => y \in 0 .. b - 1
  BY <1>1
<1> HIDE DEF y, b
<1>5. (y % b) \in 0 .. b - 1
  BY <1>1
<1>6. y \in Nat => (y % b) <= y
  BY <1>1
<1>7. y \in 0 .. b - 1 => (y % b) = y
  BY <1>1
<1>8. QED
  BY <1>1, <1>2, <1>3, <1>4, <1>5, <1>6, <1>7

LEMMA LimitFieldsAre ==
  LimitFields = {"maxDaily", "maxTokens", "maxTimeout", "maxConcurrent", "maxThinking", "maxAnswer", "minTimeout"}
BY DEF LimitFields, Ceilings

\* What a policy sets, the merge sets at least as strictly.
LEMMA LimitsKept ==
  ASSUME NEW e, NEW S, \A q \in S : ValidPolicy(q), IsMerge(e, S), NEW p \in S
  PROVE  /\ \A f \in LimitFields : e.limits[f] \in Limit /\ p.limits[f] \in Limit
         /\ \A f \in Ceilings : p.limits[f] # Nil => e.limits[f] # Nil /\ e.limits[f] <= p.limits[f]
         /\ p.limits["minTimeout"] # Nil =>
              e.limits["minTimeout"] # Nil /\ p.limits["minTimeout"] <= e.limits["minTimeout"]
<1>1. \A f \in LimitFields : LimitOf(e.limits[f], S, f) /\ p.limits[f] \in Limit
  BY DEF IsMerge, ValidPolicy
<1>2. "minTimeout" \in LimitFields /\ "minTimeout" \notin Ceilings /\ Ceilings \subseteq LimitFields
  BY DEF LimitFields, Ceilings
<1>3. QED
  BY <1>1, <1>2 DEF LimitOf

LEMMA CompliesWithEach ==
  ASSUME NEW list, SpecList(list), list # <<>>, NEW a \in Agents,
         EvaluateAgentCompliance(a, MergePolicies(list)) = {}, NEW i \in DOMAIN list
  PROVE  Satisfies(a, list[i])
<1> DEFINE e == MergePolicies(list)
           S == ToSet(list)
           p == list[i]
<1>1. IsMerge(e, S) /\ e # Nil
  BY Merged, EffectiveIsNotNil DEF SpecList
<1>2. p \in S /\ \A q \in S : ValidPolicy(q)
  BY DEF ToSet, SpecList, ValidList
<1> HIDE DEF e, S, p
<1>3. /\ checkRequirements(a, e.requires) = {} /\ checkLimits(a, e.limits) = {}
      /\ checkModels(a.model, e) = {}
  BY <1>1 DEF EvaluateAgentCompliance, e
<1>4. p.requires \subseteq a.has
  BY <1>1, <1>2, <1>3 DEF IsMerge, checkRequirements
<1>5. \A m \in p.denied : ~globMatch(m, a.model)
  <2>1. ~(\E m \in e.denied : globMatch(m, a.model))
    BY <1>3 DEF checkModels
  <2>2. p.denied \subseteq e.denied
    BY <1>1, <1>2 DEF IsMerge
  <2>3. QED
    BY <2>1, <2>2
<1>6. ASSUME a.limits # Nil
      PROVE  /\ p.limits["maxDaily"] # Nil => a.limits.daily <= p.limits["maxDaily"]
             /\ p.limits["maxTokens"] # Nil =>
                  a.limits.tokens <= p.limits["maxTokens"] \/ a.limits.tokens >= TwoTo31
             /\ p.limits["maxTimeout"] # Nil =>
                  a.limits.timeout <= p.limits["maxTimeout"] \/ a.limits.timeout >= TwoTo31
             /\ p.limits["minTimeout"] # Nil => a.limits.timeout >= p.limits["minTimeout"]
  <2> DEFINE d == a.limits.daily
             t == a.limits.tokens
             s == a.limits.timeout
  <2>1. d \in Nat /\ t \in Int /\ s \in Int /\ s >= -TwoTo31
    BY <1>6, PoliciesAssumption DEF ValidAgent, AgentLimits
  <2>2. /\ ~(e.limits["maxDaily"] # Nil /\ d > e.limits["maxDaily"])
        /\ ~(e.limits["maxTokens"] # Nil /\ int32(t) > e.limits["maxTokens"])
        /\ ~(e.limits["maxTimeout"] # Nil /\ int32(s) > e.limits["maxTimeout"])
        /\ ~(e.limits["minTimeout"] # Nil /\ int32(s) < e.limits["minTimeout"])
    BY <1>3, <1>6 DEF checkLimits
  <2> HIDE DEF d, t, s
  <2>3. /\ \A f \in LimitFields : e.limits[f] \in Limit /\ p.limits[f] \in Limit
        /\ \A f \in Ceilings : p.limits[f] # Nil => e.limits[f] # Nil /\ e.limits[f] <= p.limits[f]
        /\ p.limits["minTimeout"] # Nil =>
             e.limits["minTimeout"] # Nil /\ p.limits["minTimeout"] <= e.limits["minTimeout"]
    BY <1>1, <1>2, LimitsKept
  <2>4. \A x \in Limit : x # Nil => x \in Nat /\ x > 0
    BY DEF Limit
  <2>5. TwoTo31 \in Nat \ {0}
    BY WidthAssumption
  <2>6. /\ int32(t) \in Int /\ (t \in -TwoTo31 .. TwoTo31 - 1 => int32(t) = t)
        /\ int32(s) \in Int /\ (s \in -TwoTo31 .. TwoTo31 - 1 => int32(s) = s) /\ int32(s) <= s
    BY <2>1, Int32Facts
  <2>7. p.limits["maxDaily"] # Nil => d <= p.limits["maxDaily"]
    BY <2>1, <2>2, <2>3, <2>4 DEF Ceilings, LimitFields
  <2>8. p.limits["maxTokens"] # Nil => t <= p.limits["maxTokens"] \/ t >= TwoTo31
    BY <2>1, <2>2, <2>3, <2>4, <2>5, <2>6 DEF Ceilings, LimitFields
  <2>9. p.limits["maxTimeout"] # Nil => s <= p.limits["maxTimeout"] \/ s >= TwoTo31
    BY <2>1, <2>2, <2>3, <2>4, <2>5, <2>6 DEF Ceilings, LimitFields
  <2>10. p.limits["minTimeout"] # Nil => s >= p.limits["minTimeout"]
    BY <2>1, <2>2, <2>3, <2>4, <2>5, <2>6 DEF Ceilings, LimitFields
  <2>11. QED
    BY <2>7, <2>8, <2>9, <2>10 DEF d, t, s
<1>7. QED
  BY <1>4, <1>5, <1>6 DEF Satisfies, p

-----------------------------------------------------------------------------
(* The limits of a pod keep every policy's.                                *)

LEMMA Sanitized ==
  ASSUME NEW e \in EffectivePolicy
  PROVE  LET s == sanitizeEffectivePolicy(e)
         IN  /\ s # Nil /\ s.toolDeny = e.toolDeny
             /\ ~Conflicting(e) => s = e
             /\ \A f \in LimitFields \ {"minTimeout", "maxTimeout"} : s.limits[f] = e.limits[f]
             /\ \A f \in LimitFields : s.limits[f] \in Limit
<1> DEFINE l == [e.limits EXCEPT !.minTimeout = Nil, !.maxTimeout = Nil]
           new == [e EXCEPT !.limits = l]
           s == sanitizeEffectivePolicy(e)
<1>1. e # Nil /\ e.limits \in [LimitFields -> Limit]
  BY PoliciesAssumption DEF EffectivePolicy
<1>2. /\ l \in [LimitFields -> Limit]
      /\ \A f \in LimitFields \ {"minTimeout", "maxTimeout"} : l[f] = e.limits[f]
  BY <1>1 DEF Limit, LimitFields, Ceilings
<1> HIDE DEF l
<1>3. new \in EffectivePolicy /\ new.toolDeny = e.toolDeny /\ new.limits = l
  BY <1>2 DEF EffectivePolicy
<1>4. new # Nil
  BY <1>3, PoliciesAssumption
<1>5. s = IF Conflicting(e) THEN new ELSE e
  BY <1>1 DEF sanitizeEffectivePolicy, l
<1> HIDE DEF new, s
<1>6. CASE Conflicting(e)
  BY <1>2, <1>3, <1>4, <1>5, <1>6 DEF s
<1>7. CASE ~Conflicting(e)
  BY <1>1, <1>5, <1>7 DEF s
<1>8. QED
  BY <1>6, <1>7

LEMMA SpecLimitsTyped ==
  ASSUME NEW a \in Agents
  PROVE  SpecLimits(a) \in AgentLimits
<1>1. CASE a.limits = Nil
  BY <1>1, DefaultsAssumption DEF SpecLimits
<1>2. CASE a.limits # Nil
  <2>1. a.limits \in AgentLimits
    BY <1>2, PoliciesAssumption DEF ValidAgent
  <2>2. DefaultLimits.tokens \in Int /\ DefaultLimits.timeout \in Int /\ DefaultLimits.retries \in Int
    BY DefaultsAssumption DEF AgentLimits
  <2>3. QED
    BY <1>2, <2>1, <2>2 DEF SpecLimits, AgentLimits
<1>3. QED
  BY <1>1, <1>2

\* The limits a pod is given under an effective policy.
PodIs(pod, l, p) ==
  /\ pod.tokens = minPtr(l.tokens, p["maxTokens"])
  /\ pod.timeout = maxPtr(minPtr(l.timeout, p["maxTimeout"]), p["minTimeout"])
  /\ pod.daily = IF p["maxDaily"] # Nil /\ (l.daily = 0 \/ l.daily > p["maxDaily"]) THEN p["maxDaily"] ELSE l.daily
  /\ pod.thinking = minPtr(l.thinking, p["maxThinking"])
  /\ pod.answer = minPtr(l.answer, p["maxAnswer"])

LEMMA PodLimitsAre ==
  ASSUME NEW a \in Agents, NEW e, e # Nil
  PROVE  PodIs(PodLimits(a, e), SpecLimits(a), e.limits)
<1> DEFINE l == SpecLimits(a)
           p == e.limits
           tokens == minPtr(l.tokens, p["maxTokens"])
           timeout == maxPtr(minPtr(l.timeout, p["maxTimeout"]), p["minTimeout"])
           daily == IF p["maxDaily"] # Nil /\ (l.daily = 0 \/ l.daily > p["maxDaily"]) THEN p["maxDaily"] ELSE l.daily
           m == [l EXCEPT !.tokens = tokens, !.timeout = timeout, !.daily = daily]
<1>1. DOMAIN l = {"daily", "tokens", "timeout", "retries", "thinking", "answer"}
  BY SpecLimitsTyped DEF AgentLimits
<1>2. applyPolicyLimits(l, e) = m
  BY DEF applyPolicyLimits
<1>3. PodLimits(a, e) = applyPolicyThinkingLimits(m, e)
  BY <1>2 DEF PodLimits
<1> HIDE DEF l, tokens, timeout, daily, p
<1>4. /\ DOMAIN m = DOMAIN l /\ m.tokens = tokens /\ m.timeout = timeout /\ m.daily = daily
      /\ m.thinking = l.thinking /\ m.answer = l.answer
  BY <1>1
<1> HIDE DEF m
<1>5. PodLimits(a, e) = [m EXCEPT !.thinking = minPtr(@, p["maxThinking"]), !.answer = minPtr(@, p["maxAnswer"])]
  BY <1>3 DEF applyPolicyThinkingLimits, clampOptionalInt32, p
<1>6. QED
  BY <1>1, <1>4, <1>5 DEF PodIs, l, tokens, timeout, daily, p

\* One policy's claim on a pod.
Under(limit, v) == limit # Nil => v # Nil /\ v <= limit

LEMMA PodsKeepLimits ==
  ASSUME NEW list, SpecList(list), NEW a \in Agents, NEW i \in DOMAIN list
  PROVE  LET merged == MergePolicies(list)
             eff == sanitizeEffectivePolicy(merged)
             pod == PodLimits(a, eff)
             p == list[i].limits
         IN  /\ Under(p["maxTokens"], pod.tokens) /\ Under(p["maxDaily"], pod.daily)
             /\ p["maxDaily"] # Nil => pod.daily > 0
             /\ Under(p["maxThinking"], pod.thinking) /\ Under(p["maxAnswer"], pod.answer)
             /\ ~Conflicting(merged) =>
                  /\ Under(p["maxTimeout"], pod.timeout)
                  /\ p["minTimeout"] # Nil => pod.timeout >= p["minTimeout"]
             /\ list[i].toolDeny \subseteq buildPolicyEnvVars(eff).toolDeny
<1> DEFINE e == MergePolicies(list)
           s == sanitizeEffectivePolicy(e)
           pod == PodLimits(a, s)
           l == SpecLimits(a)
           p == list[i]
           S == ToSet(list)
<1>1. list # <<>>
  BY DEF SpecList, ValidList
<1>2. IsMerge(e, S) /\ e \in EffectivePolicy /\ e # Nil
  BY <1>1, Merged, EffectiveIsNotNil DEF SpecList
<1>3. p \in S /\ \A q \in S : ValidPolicy(q)
  BY DEF ToSet, SpecList, ValidList
<1> HIDE DEF e, S, p
<1>4. /\ s # Nil /\ s.toolDeny = e.toolDeny
      /\ ~Conflicting(e) => s = e
      /\ \A f \in LimitFields \ {"minTimeout", "maxTimeout"} : s.limits[f] = e.limits[f]
      /\ \A f \in LimitFields : s.limits[f] \in Limit
  BY <1>2, Sanitized
<1> HIDE DEF s
<1>5. PodIs(pod, l, s.limits)
  BY <1>4, PodLimitsAre
<1>6. l \in AgentLimits
  BY SpecLimitsTyped
<1> HIDE DEF pod, l
<1>7. /\ \A f \in LimitFields : e.limits[f] \in Limit /\ p.limits[f] \in Limit
      /\ \A f \in Ceilings : p.limits[f] # Nil => e.limits[f] # Nil /\ e.limits[f] <= p.limits[f]
      /\ p.limits["minTimeout"] # Nil =>
           e.limits["minTimeout"] # Nil /\ p.limits["minTimeout"] <= e.limits["minTimeout"]
  BY <1>2, <1>3, LimitsKept
<1>8. \A x \in Limit : x # Nil => x \in Nat /\ x > 0
  BY DEF Limit
<1>9. l.daily \in Nat /\ l.tokens \in Int /\ l.timeout \in Int /\ l.thinking \in Limit /\ l.answer \in Limit
  BY <1>6 DEF AgentLimits
<1>10. \A x \in Int : x # Nil
  BY NilAssumption
<1>11. p.toolDeny \subseteq buildPolicyEnvVars(s).toolDeny
  BY <1>2, <1>3, <1>4 DEF IsMerge, buildPolicyEnvVars
<1>12. ASSUME NEW f \in {"maxTokens", "maxDaily", "maxThinking", "maxAnswer"}
       PROVE  /\ s.limits[f] \in Limit /\ p.limits[f] \in Limit
              /\ p.limits[f] # Nil => s.limits[f] # Nil /\ s.limits[f] <= p.limits[f]
  BY <1>4, <1>7 DEF Ceilings, LimitFields
<1>13. Under(p.limits["maxTokens"], pod.tokens)
  BY <1>5, <1>8, <1>9, <1>10, <1>12 DEF Under, PodIs, minPtr
<1>14. Under(p.limits["maxDaily"], pod.daily) /\ (p.limits["maxDaily"] # Nil => pod.daily > 0)
  BY <1>5, <1>8, <1>9, <1>10, <1>12 DEF Under, PodIs
<1>15. Under(p.limits["maxThinking"], pod.thinking)
  BY <1>5, <1>8, <1>9, <1>10, <1>12 DEF Under, PodIs, minPtr
<1>16. Under(p.limits["maxAnswer"], pod.answer)
  BY <1>5, <1>8, <1>9, <1>10, <1>12 DEF Under, PodIs, minPtr
<1>17. ASSUME ~Conflicting(e)
       PROVE  /\ Under(p.limits["maxTimeout"], pod.timeout)
              /\ p.limits["minTimeout"] # Nil => pod.timeout >= p.limits["minTimeout"]
  <2> DEFINE lo == e.limits["minTimeout"]
             hi == e.limits["maxTimeout"]
             pl == p.limits["minTimeout"]
             ph == p.limits["maxTimeout"]
             t == l.timeout
  <2>1. pod.timeout = maxPtr(minPtr(t, hi), lo)
    BY <1>4, <1>5, <1>17 DEF PodIs
  <2>2. /\ lo \in Limit /\ hi \in Limit /\ pl \in Limit /\ ph \in Limit
        /\ ph # Nil => hi # Nil /\ hi <= ph
        /\ pl # Nil => lo # Nil /\ pl <= lo
    BY <1>7 DEF Ceilings, LimitFields
  <2>3. lo # Nil /\ hi # Nil => ~(lo > hi)
    BY <1>17 DEF Conflicting
  <2>4. t \in Int
    BY <1>9
  <2> HIDE DEF lo, hi, pl, ph, t
  <2>5. /\ ph # Nil => maxPtr(minPtr(t, hi), lo) # Nil /\ maxPtr(minPtr(t, hi), lo) <= ph
        /\ pl # Nil => maxPtr(minPtr(t, hi), lo) >= pl
    BY <1>8, <1>10, <2>2, <2>3, <2>4 DEF maxPtr, minPtr
  <2>6. QED
    BY <2>1, <2>5 DEF Under, pl, ph
<1>18. QED
  BY <1>11, <1>13, <1>14, <1>15, <1>16, <1>17 DEF e, s, pod, p

\* An admitted team is validated at the level of the strictest policy.
LEMMA TeamAdmitted ==
  ASSUME NEW list, SpecList(list), list # <<>>, NEW t,
         {i \in DOMAIN t : ~checkStepValidationLevel(t[i], MergePolicies(list).validation)} = {}
  PROVE  \E top \in DOMAIN list :
           /\ \A i \in DOMAIN list : validationLevelOrder[list[i].validation] <= validationLevelOrder[list[top].validation]
           /\ list[top].validation = "none" \/ \A s \in DOMAIN t : list[top].validation \in t[s]
<1> DEFINE v == MergePolicies(list).validation
<1>1. ValidationOf(v, ToSet(list))
  BY Merged DEF SpecList, IsMerge
<1>2. v = "none" \/ \A s \in DOMAIN t : v \in t[s]
  BY DEF checkStepValidationLevel
<1> HIDE DEF v
<1>3. \A i \in DOMAIN list : /\ list[i].validation \in Levels
                             /\ validationLevelOrder[list[i].validation] <= validationLevelOrder[v]
  BY <1>1 DEF SpecList, ValidList, ValidPolicy, Levels, ValidationOf, ToSet
<1>4. CASE \E p \in ToSet(list) : p.validation = v
  <2>1. PICK top \in DOMAIN list : list[top].validation = v
    BY <1>4 DEF ToSet
  <2>2. QED
    BY <1>2, <1>3, <2>1
<1>5. CASE v = "none"
  <2>1. 1 \in DOMAIN list
    BY DEF SpecList, ValidList
  <2>2. \A i \in DOMAIN list : list[i].validation = "none"
    BY <1>3, <1>5, Orders DEF Levels
  <2>3. QED
    BY <2>1, <2>2, Orders
<1>6. QED
  BY <1>1, <1>4, <1>5 DEF ValidationOf

\* With an Enforce policy what is not denied has no violations.
LEMMA EnforceDenies ==
  ASSUME NEW list, SpecList(list), NEW i \in DOMAIN list, list[i].mode = "Enforce"
  PROVE  /\ list # <<>>
         /\ MergePolicies(list) # Nil
         /\ \A v : applyEnforcementMode(MergePolicies(list).mode, v) # "denied" => v = {}
<1>1. list # <<>>
  BY DEF SpecList, ValidList
<1>2. MergePolicies(list) # Nil /\ ModeOf(MergePolicies(list).mode, ToSet(list))
  BY <1>1, Merged, EffectiveIsNotNil DEF SpecList, IsMerge
<1> DEFINE m == MergePolicies(list).mode
<1>3. list[i] \in ToSet(list)
  BY DEF ToSet
<1>4. m = "Enforce"
  <2> HIDE DEF m
  <2>1. ModeOf(m, ToSet(list))
    BY <1>2 DEF m
  <2>2. m \in Modes /\ enforcementModeOrder["Enforce"] <= enforcementModeOrder[m]
    BY <1>3, <2>1 DEF ModeOf
  <2>3. QED
    BY <2>2, Orders DEF Modes
<1>5. QED
  BY <1>1, <1>2, <1>4 DEF applyEnforcementMode

-----------------------------------------------------------------------------
(* The lists users make.                                                   *)

StoredPolicies(list) ==
  /\ list \in Seq(ToSet(list))
  /\ \A i \in DOMAIN list :
       /\ list[i] = [version |-> list[i].version, spec |-> list[i].spec, status |-> list[i].status]
       /\ list[i].spec \in Policies

LEMMA SpecsAreSpecs ==
  ASSUME NEW list, StoredPolicies(list)
  PROVE  /\ SpecList(SpecsOf(list))
         /\ SpecsOf(list) = <<>> <=> list = <<>>
         /\ DOMAIN SpecsOf(list) = DOMAIN list /\ DOMAIN list = 1 .. Len(list)
         /\ \A i \in DOMAIN list : SpecsOf(list)[i] = list[i].spec
<1> DEFINE s == SpecsOf(list)
<1>1. Len(list) \in Nat /\ DOMAIN list = 1 .. Len(list) /\ (list = <<>> <=> Len(list) = 0)
  BY DEF StoredPolicies
<1>2. s = [i \in 1 .. Len(list) |-> list[i].spec]
  BY <1>1 DEF SpecsOf
<1>3. s \in Seq(Policies)
  BY <1>1, <1>2 DEF StoredPolicies
<1>4. Len(s) = Len(list) /\ DOMAIN s = 1 .. Len(list)
  BY <1>1, <1>2, <1>3
<1>5. s = <<>> <=> Len(s) = 0
  BY <1>3
<1>6. \A i \in DOMAIN s : s[i] \in Policies
  BY <1>3
<1>7. \A p \in Policies : ValidPolicy(p)
  BY PoliciesAssumption
<1>8. SpecList(s)
  BY <1>1, <1>4, <1>5, <1>6, <1>7 DEF SpecList, ValidList
<1>9. QED
  BY <1>1, <1>2, <1>4, <1>5, <1>8

LEMMA Concatenated ==
  ASSUME NEW T, NEW a \in Seq(T), NEW b \in Seq(T)
  PROVE  /\ a \o b \in Seq(T) /\ Len(a \o b) = Len(a) + Len(b)
         /\ \A j \in 1 .. Len(a) : (a \o b)[j] = a[j]
         /\ \A j \in 1 .. Len(b) : (a \o b)[Len(a) + j] = b[j]
OBVIOUS

LEMMA InsertKeeps ==
  ASSUME NEW list, StoredPolicies(list), NEW i \in 1 .. Len(list) + 1, NEW p \in Policies, NEW v, NEW status
  PROVE  LET new == InsertAt(list, i, [version |-> v, spec |-> p, status |-> status])
         IN  /\ StoredPolicies(new)
             /\ ToSet(SpecsOf(list)) \subseteq ToSet(SpecsOf(new))
<1> DEFINE r == [version |-> v, spec |-> p, status |-> status]
           T == ToSet(list) \cup {r}
           a == SubSeq(list, 1, i - 1)
           b == SubSeq(list, i, Len(list))
           new == InsertAt(list, i, r)
<1> HIDE DEF r
<1>1. list \in Seq(T) /\ Len(list) \in Nat
  BY DEF StoredPolicies
<1>2. a \in Seq(T) /\ Len(a) = i - 1 /\ \A j \in 1 .. i - 1 : a[j] = list[j]
  BY <1>1
<1>3. b \in Seq(T) /\ Len(b) = Len(list) + 1 - i /\ \A j \in 1 .. Len(list) + 1 - i : b[j] = list[i + j - 1]
  BY <1>1
<1>4. new = a \o <<r>> \o b
  BY DEF InsertAt
<1> HIDE DEF a, b, new
<1>5. r \in T
  OBVIOUS
<1>6. <<r>> \in Seq(T) /\ Len(<<r>>) = 1 /\ <<r>>[1] = r
  BY <1>5
<1> HIDE DEF T
<1>7. /\ a \o <<r>> \in Seq(T) /\ Len(a \o <<r>>) = i
      /\ \A j \in 1 .. i - 1 : (a \o <<r>>)[j] = list[j]
      /\ (a \o <<r>>)[i] = r
  BY <1>2, <1>6
<1>8. /\ new \in Seq(T) /\ Len(new) = Len(list) + 1
      /\ \A j \in 1 .. i - 1 : new[j] = list[j]
      /\ new[i] = r
      /\ \A j \in i .. Len(list) : new[j + 1] = list[j]
  <2> DEFINE c == a \o <<r>>
  <2>1. c \in Seq(T) /\ Len(c) = i /\ (\A j \in 1 .. i - 1 : c[j] = list[j]) /\ c[i] = r
    BY <1>7
  <2>2. new = c \o b
    BY <1>4
  <2> HIDE DEF c
  <2>3. /\ new \in Seq(T) /\ Len(new) = Len(c) + Len(b)
        /\ \A j \in 1 .. Len(c) : new[j] = c[j]
        /\ \A j \in 1 .. Len(b) : new[Len(c) + j] = b[j]
    <3>1. b \in Seq(T) /\ c \in Seq(T)
      BY <1>3, <2>1
    <3> HIDE DEF b
    <3>2. /\ c \o b \in Seq(T) /\ Len(c \o b) = Len(c) + Len(b)
          /\ \A j \in 1 .. Len(c) : (c \o b)[j] = c[j]
          /\ \A j \in 1 .. Len(b) : (c \o b)[Len(c) + j] = b[j]
      BY <3>1, Concatenated
    <3>3. QED
      BY <2>2, <3>2
  <2>4. ASSUME NEW j \in i .. Len(list) PROVE new[j + 1] = list[j]
    <3>1. j + 1 - i \in 1 .. Len(b) /\ i + (j + 1 - i) = j + 1 /\ i + (j + 1 - i) - 1 = j
      BY <1>1, <1>3
    <3>2. new[i + (j + 1 - i)] = b[j + 1 - i] /\ b[j + 1 - i] = list[i + (j + 1 - i) - 1]
      BY <1>3, <2>1, <2>3, <3>1
    <3>3. QED
      BY <3>1, <3>2
  <2>5. QED
    BY <1>1, <1>3, <2>1, <2>3, <2>4
<1>9. DOMAIN new = 1 .. Len(list) + 1 /\ \A j \in i + 1 .. Len(list) + 1 : new[j] = list[j - 1]
  <2>1. ASSUME NEW j \in i + 1 .. Len(list) + 1 PROVE new[j] = list[j - 1]
    <3>1. j - 1 \in i .. Len(list) /\ (j - 1) + 1 = j
      BY <1>1
    <3>2. QED
      BY <1>8, <3>1
  <2>2. QED
    BY <1>8, <2>1
<1>10. new \in Seq(ToSet(new))
  BY <1>8 DEF ToSet
<1>11. r = [version |-> r.version, spec |-> r.spec, status |-> r.status] /\ r.spec \in Policies
  BY DEF r
<1>12. DOMAIN list = 1 .. Len(list)
  BY <1>1
<1>13. ASSUME NEW j \in DOMAIN new
       PROVE  new[j] = [version |-> new[j].version, spec |-> new[j].spec, status |-> new[j].status] /\ new[j].spec \in Policies
  <2>1. CASE j \in 1 .. i - 1
    BY <1>8, <1>12, <2>1 DEF StoredPolicies
  <2>2. CASE j = i
    BY <1>8, <1>11, <2>2
  <2>3. CASE j \in i + 1 .. Len(list) + 1
    <3>1. j - 1 \in DOMAIN list /\ new[j] = list[j - 1]
      BY <1>1, <1>9, <1>12, <2>3
    <3>2. QED
      BY <3>1 DEF StoredPolicies
  <2>4. QED
    BY <1>1, <1>9, <2>1, <2>2, <2>3
<1>14. StoredPolicies(new)
  BY <1>10, <1>13 DEF StoredPolicies
<1>15. ToSet(SpecsOf(list)) \subseteq ToSet(SpecsOf(new))
  <2>1. \A j \in 1 .. Len(list) : \E k \in DOMAIN new : new[k] = list[j]
    <3>1. ASSUME NEW j \in 1 .. Len(list) PROVE \E k \in DOMAIN new : new[k] = list[j]
      <4>1. CASE j < i
        BY <1>1, <1>8, <1>9, <4>1
      <4>2. CASE j >= i
        <5>1. j \in i .. Len(list) /\ j + 1 \in DOMAIN new
          BY <1>1, <1>9, <4>2
        <5>2. QED
          BY <1>8, <5>1
      <4>3. QED
        BY <1>1, <4>1, <4>2
    <3>2. QED
      BY <3>1
  <2>2. QED
    BY <1>12, <2>1 DEF ToSet, SpecsOf
<1>16. QED
  BY <1>14, <1>15 DEF new, r

LEMMA RemoveKeeps ==
  ASSUME NEW list, StoredPolicies(list), NEW i \in DOMAIN list
  PROVE  StoredPolicies(RemoveAt(list, i)) /\ Len(RemoveAt(list, i)) <= Len(list)
<1> DEFINE T == ToSet(list)
           a == SubSeq(list, 1, i - 1)
           b == SubSeq(list, i + 1, Len(list))
           new == RemoveAt(list, i)
<1>1. list \in Seq(T) /\ Len(list) \in Nat /\ DOMAIN list = 1 .. Len(list)
  BY DEF StoredPolicies
<1>2. a \in Seq(T) /\ Len(a) = i - 1
  BY <1>1
<1>3. b \in Seq(T) /\ Len(b) = Len(list) - i
  BY <1>1
<1>4. new = a \o b
  BY DEF RemoveAt
<1> HIDE DEF a, b, new
<1>5. new \in Seq(T) /\ Len(new) = Len(list) - 1
  <2>1. new \in Seq(T) /\ Len(new) = Len(a) + Len(b)
    BY <1>2, <1>3, <1>4, Concatenated
  <2>2. QED
    BY <1>1, <1>2, <1>3, <2>1
<1>6. new \in Seq(ToSet(new))
  BY <1>5 DEF ToSet
<1>7. ASSUME NEW j \in DOMAIN new
      PROVE  new[j] = [version |-> new[j].version, spec |-> new[j].spec, status |-> new[j].status] /\ new[j].spec \in Policies
  <2>1. new[j] \in T
    BY <1>5
  <2>2. PICK k \in DOMAIN list : new[j] = list[k]
    BY <2>1 DEF ToSet
  <2>3. QED
    BY <2>2 DEF StoredPolicies
<1>8. QED
  BY <1>1, <1>5, <1>6, <1>7 DEF StoredPolicies, new

LEMMA EditKeeps ==
  ASSUME NEW list, StoredPolicies(list), NEW i \in DOMAIN list, NEW p \in Policies, NEW v
  PROVE  LET new == [list EXCEPT ![i] = [@ EXCEPT !.version = v, !.spec = p]]
         IN  StoredPolicies(new) /\ Len(new) = Len(list)
<1> DEFINE r == [list[i] EXCEPT !.version = v, !.spec = p]
           new == [list EXCEPT ![i] = r]
           T == ToSet(list) \cup {r}
<1>1. r = [version |-> r.version, spec |-> r.spec, status |-> r.status] /\ r.spec \in Policies
  <2> DEFINE o == list[i]
             w == [o EXCEPT !.version = v, !.spec = p]
  <2>1. o = [version |-> o.version, spec |-> o.spec, status |-> o.status]
    BY DEF StoredPolicies
  <2> HIDE DEF o
  <2>2. DOMAIN o = {"version", "spec", "status"}
    BY <2>1
  <2>3. DOMAIN w = DOMAIN o /\ w = [x \in DOMAIN o |-> w[x]] /\ w.spec = p
    BY <2>2
  <2> HIDE DEF w
  <2>4. w = [version |-> w.version, spec |-> w.spec, status |-> w.status]
    BY <2>2, <2>3
  <2>5. QED
    BY <2>3, <2>4 DEF w, o
<1> HIDE DEF r
<1>2. list \in Seq(T) /\ DOMAIN list = 1 .. Len(list) /\ Len(list) \in Nat
  BY DEF StoredPolicies
<1>3. new \in Seq(T) /\ Len(new) = Len(list) /\ DOMAIN new = DOMAIN list
  BY <1>2
<1>4. new[i] = r /\ \A j \in DOMAIN list \ {i} : new[j] = list[j]
  BY <1>2
<1> HIDE DEF new
<1>5. new \in Seq(ToSet(new))
  BY <1>3 DEF ToSet
<1>6. \A j \in DOMAIN new :
        /\ new[j] = [version |-> new[j].version, spec |-> new[j].spec, status |-> new[j].status]
        /\ new[j].spec \in Policies
  BY <1>1, <1>3, <1>4 DEF StoredPolicies
<1>7. QED
  BY <1>3, <1>5, <1>6 DEF StoredPolicies, new, r

-----------------------------------------------------------------------------
(* What is stored.                                                         *)

Stages == {"idle", "listAgents", "judge", "status", "ungovern", "listForCleanup", "strip"}

AgentRecord(a) ==
  /\ a = [version |-> a.version, spec |-> a.spec, cond |-> a.cond, mark |-> a.mark, checked |-> a.checked]
  /\ a.spec \in Agents \cup {Nil} /\ a.checked \in BOOLEAN

MemRecord(m) ==
  /\ m = [policies |-> m.policies, effective |-> m.effective, agents |-> m.agents, count |-> m.count, more |-> m.more]
  /\ m.more \in BOOLEAN

TypeOK ==
  /\ StoredPolicies(policies)
  /\ agents = [n \in ToSet(AgentNames) |-> agents[n]]
  /\ \A n \in ToSet(AgentNames) : AgentRecord(agents[n])
  /\ team \in Pipelines \cup {Nil}
  /\ governed \in BOOLEAN /\ ensured \in BOOLEAN /\ queued \in BOOLEAN
  /\ pc \in Stages
  /\ pc # "idle" => MemRecord(mem)
  /\ edits \in Nat /\ faults \in Nat

\* What was checked was let in by the policies there are.
Admitted ==
  /\ \A n \in ToSet(AgentNames) : agents[n].checked =>
       agents[n].spec \in Agents /\ HandleAgent(agents[n].spec, Specs) # "denied"
  /\ team # Nil => HandleTeam(team, Specs) # "denied"

LEMMA UncheckAgent ==
  ASSUME NEW a, AgentRecord(a)
  PROVE  LET new == [a EXCEPT !.checked = FALSE]
         IN  AgentRecord(new) /\ ~new.checked
<1> DEFINE new == [a EXCEPT !.checked = FALSE]
<1>1. DOMAIN a = {"version", "spec", "cond", "mark", "checked"} /\ a.spec \in Agents \cup {Nil}
  BY DEF AgentRecord
<1>2. DOMAIN new = DOMAIN a /\ new = [x \in DOMAIN a |-> new[x]] /\ new.checked = FALSE /\ new.spec = a.spec
  BY <1>1
<1> HIDE DEF new
<1>3. AgentRecord(new)
  BY <1>1, <1>2 DEF AgentRecord
<1>4. QED
  BY <1>2, <1>3 DEF new

\* What the controller writes to an agent leaves its spec alone.
Marked(new, a, c, m) == new = [a EXCEPT !.cond = c, !.mark = m]

LEMMA MarkAgent ==
  ASSUME NEW a, AgentRecord(a), NEW c, NEW m, NEW new, Marked(new, a, c, m)
  PROVE  /\ AgentRecord(new) /\ new.spec = a.spec /\ new.checked = a.checked /\ new.version = a.version
         /\ new.cond = c /\ new.mark = m
<1>1. DOMAIN a = {"version", "spec", "cond", "mark", "checked"} /\ a.spec \in Agents \cup {Nil} /\ a.checked \in BOOLEAN
  BY DEF AgentRecord
<1>2. /\ DOMAIN new = DOMAIN a /\ new = [x \in DOMAIN a |-> new[x]] /\ new.spec = a.spec /\ new.checked = a.checked
      /\ new.version = a.version /\ new.cond = c /\ new.mark = m
  BY <1>1 DEF Marked
<1>3. AgentRecord(new)
  BY <1>1, <1>2 DEF AgentRecord
<1>4. QED
  BY <1>2, <1>3

LEMMA RemarkAgent ==
  ASSUME NEW a, AgentRecord(a), NEW m
  PROVE  LET new == [a EXCEPT !.mark = m]
         IN  AgentRecord(new) /\ new.spec = a.spec /\ new.checked = a.checked /\ new.version = a.version
<1> DEFINE new == [a EXCEPT !.mark = m]
<1>1. DOMAIN a = {"version", "spec", "cond", "mark", "checked"} /\ a.spec \in Agents \cup {Nil} /\ a.checked \in BOOLEAN
  BY DEF AgentRecord
<1>2. /\ DOMAIN new = DOMAIN a /\ new = [x \in DOMAIN a |-> new[x]] /\ new.spec = a.spec /\ new.checked = a.checked
      /\ new.version = a.version
  BY <1>1
<1> HIDE DEF new
<1>3. AgentRecord(new)
  BY <1>1, <1>2 DEF AgentRecord
<1>4. QED
  BY <1>2, <1>3 DEF new

\* The agents after a batch of writes: their specs and how they came in are
\* what they were.
SameAgents ==
  /\ agents' = [n \in ToSet(AgentNames) |-> agents'[n]]
  /\ \A n \in ToSet(AgentNames) : /\ AgentRecord(agents'[n])
                                  /\ agents'[n].spec = agents[n].spec
                                  /\ agents'[n].checked = agents[n].checked
                                  /\ agents'[n].version = agents[n].version

LEMMA WritesKeepSpecs ==
  ASSUME TypeOK, NEW written, NEW batch, NEW failed, NEW half, WriteAgents(written, batch, failed, half),
         \A n \in ToSet(AgentNames) : /\ AgentRecord(written[n])
                                      /\ written[n].spec = agents[n].spec
                                      /\ written[n].checked = agents[n].checked
                                      /\ written[n].version = agents[n].version
  PROVE  SameAgents /\ queued' \in BOOLEAN
<1> DEFINE of(n, set) == \E i \in set : AgentNames[i] = n
           marked(n) == [written[n] EXCEPT !.mark = agents[n].mark]
<1>1. DOMAIN agents = ToSet(AgentNames) /\ \A n \in ToSet(AgentNames) : AgentRecord(agents[n])
  BY DEF TypeOK
<1>2. agents' = [n \in DOMAIN agents |->
                   CASE of(n, batch \ failed) -> written[n]
                     [] half /\ of(n, (batch \cap failed) \ Changed) -> marked(n)
                     [] OTHER -> agents[n]]
  BY DEF WriteAgents
<1>3. queued' \in BOOLEAN
  <2>1. queued' = (queued \/ (agents' # agents /\ policies # <<>>))
    BY DEF WriteAgents
  <2>2. QED
    BY <2>1
<1> HIDE DEF of
<1>4. ASSUME NEW n \in ToSet(AgentNames)
      PROVE  /\ AgentRecord(agents'[n]) /\ agents'[n].spec = agents[n].spec
             /\ agents'[n].checked = agents[n].checked /\ agents'[n].version = agents[n].version
  <2>1. AgentRecord(marked(n)) /\ marked(n).spec = agents[n].spec /\ marked(n).checked = agents[n].checked
        /\ marked(n).version = agents[n].version
    BY RemarkAgent
  <2>2. agents'[n] \in {written[n], marked(n), agents[n]}
    <3> HIDE DEF marked
    <3>1. agents'[n] = CASE of(n, batch \ failed) -> written[n]
                     [] half /\ of(n, (batch \cap failed) \ Changed) -> marked(n)
                     [] OTHER -> agents[n]
      BY <1>1, <1>2
    <3>2. QED
      BY <3>1
  <2> HIDE DEF marked
  <2>3. QED
    BY <1>1, <2>1, <2>2
<1> HIDE DEF marked
<1>5. agents' = [n \in ToSet(AgentNames) |-> agents'[n]]
  BY <1>1, <1>2
<1>6. QED
  BY <1>3, <1>4, <1>5 DEF SameAgents

LEMMA AgentNamesAre ==
  ASSUME TypeOK
  PROVE  DOMAIN agents = ToSet(AgentNames)
BY DEF TypeOK

LEMMA InitAdmits ==
  ASSUME Init
  PROVE  TypeOK /\ Admitted
<1>1. StoredPolicies(policies)
  BY DEF Init, StoredPolicies, ToSet
<1>2. agents = [n \in ToSet(AgentNames) |-> agents[n]] /\ \A n \in ToSet(AgentNames) : agents[n] = Absent
  BY DEF Init
<1>3. AgentRecord(Absent) /\ ~Absent.checked
  BY DEF AgentRecord, Absent
<1>4. TypeOK
  BY <1>1, <1>2, <1>3 DEF Init, TypeOK, Stages
<1>5. Admitted
  BY <1>2, <1>3 DEF Init, Admitted
<1>6. QED
  BY <1>4, <1>5

LEMMA PoliciesChangeAdmits ==
  ASSUME TypeOK, NEW list, StoredPolicies(list), PoliciesChange(list)
  PROVE  TypeOK' /\ Admitted'
<1>1. DOMAIN agents = ToSet(AgentNames) /\ \A n \in ToSet(AgentNames) : AgentRecord(agents[n])
  BY DEF TypeOK
<1>2. /\ agents' = [n \in ToSet(AgentNames) |-> agents'[n]]
      /\ \A n \in ToSet(AgentNames) : AgentRecord(agents'[n]) /\ ~agents'[n].checked
  <2>1. agents' = [n \in ToSet(AgentNames) |-> [agents[n] EXCEPT !.checked = FALSE]]
    BY <1>1 DEF PoliciesChange
  <2>2. QED
    BY <1>1, <2>1, UncheckAgent
<1>3. TypeOK'
  BY <1>2 DEF TypeOK, PoliciesChange, Edit
<1>4. Admitted'
  BY <1>2 DEF Admitted, PoliciesChange
<1>5. QED
  BY <1>3, <1>4

LEMMA UserPoliciesStored ==
  ASSUME TypeOK
  PROVE  /\ \A p \in Policies, i \in 1 .. Len(policies) + 1 :
              StoredPolicies(InsertAt(policies, i, [version |-> edits + 1, spec |-> p, status |-> Nil]))
         /\ \A p \in Policies, i \in DOMAIN policies :
              StoredPolicies([policies EXCEPT ![i] = [@ EXCEPT !.version = edits + 1, !.spec = p]])
         /\ \A i \in DOMAIN policies : StoredPolicies(RemoveAt(policies, i))
BY InsertKeeps, EditKeeps, RemoveKeeps DEF TypeOK

LEMMA ApplyAgentAdmits ==
  ASSUME TypeOK, Admitted, NEW n \in DOMAIN agents, NEW a \in Agents, NEW listed \in BOOLEAN, ApplyAgent(n, a, listed)
  PROVE  TypeOK' /\ Admitted'
<1> DEFINE c == governed /\ listed
           new == [agents[n] EXCEPT !.version = edits + 1, !.spec = a, !.checked = c]
<1>1. DOMAIN agents = ToSet(AgentNames) /\ \A m \in ToSet(AgentNames) : AgentRecord(agents[m])
  BY DEF TypeOK
<1>2. AgentRecord(new) /\ new.spec = a /\ new.checked = c
  <2>1. c \in BOOLEAN
    BY Zenon DEF TypeOK
  <2> HIDE DEF c
  <2>2. DOMAIN agents[n] = {"version", "spec", "cond", "mark", "checked"}
    BY <1>1 DEF AgentRecord
  <2>3. DOMAIN new = DOMAIN agents[n] /\ new = [x \in DOMAIN agents[n] |-> new[x]] /\ new.spec = a /\ new.checked = c
    BY <2>2
  <2> HIDE DEF new
  <2>4. AgentRecord(new)
    BY <2>1, <2>2, <2>3 DEF AgentRecord
  <2>5. QED
    BY <2>3, <2>4
<1>3. agents' = [agents EXCEPT ![n] = new]
  BY DEF ApplyAgent
<1> HIDE DEF new
<1>4. /\ agents' = [m \in ToSet(AgentNames) |-> agents'[m]]
      /\ agents'[n] = new /\ \A m \in ToSet(AgentNames) \ {n} : agents'[m] = agents[m]
  BY <1>1, <1>3 DEF TypeOK
<1>5. \A m \in ToSet(AgentNames) : AgentRecord(agents'[m])
  BY <1>1, <1>2, <1>4
<1>6. TypeOK'
  BY <1>4, <1>5 DEF TypeOK, ApplyAgent, agentToPolicy, Edit
<1>7. new.checked => new.spec \in Agents /\ HandleAgent(new.spec, Specs) # "denied"
  BY <1>2 DEF ApplyAgent
<1>8. Specs' = Specs /\ team' = team
  BY DEF ApplyAgent, Specs
<1>9. Admitted'
  BY <1>4, <1>7, <1>8 DEF Admitted
<1>10. QED
  BY <1>6, <1>9

LEMMA DeleteAgentAdmits ==
  ASSUME TypeOK, Admitted, NEW n \in DOMAIN agents, DeleteAgent(n)
  PROVE  TypeOK' /\ Admitted'
<1>1. DOMAIN agents = ToSet(AgentNames) /\ \A m \in ToSet(AgentNames) : AgentRecord(agents[m])
  BY DEF TypeOK
<1>2. AgentRecord(Absent) /\ ~Absent.checked
  BY DEF AgentRecord, Absent
<1>3. agents' = [agents EXCEPT ![n] = Absent]
  BY DEF DeleteAgent
<1>4. /\ agents' = [m \in ToSet(AgentNames) |-> agents'[m]]
      /\ agents'[n] = Absent /\ \A m \in ToSet(AgentNames) \ {n} : agents'[m] = agents[m]
  BY <1>1, <1>3 DEF TypeOK
<1>5. \A m \in ToSet(AgentNames) : AgentRecord(agents'[m])
  BY <1>1, <1>2, <1>4
<1>6. TypeOK'
  BY <1>4, <1>5 DEF TypeOK, DeleteAgent, agentToPolicy, Edit
<1>7. Specs' = Specs /\ team' = team
  BY DEF DeleteAgent, Specs
<1>8. Admitted'
  BY <1>2, <1>4, <1>7 DEF Admitted
<1>9. QED
  BY <1>6, <1>8

LEMMA ApplyTeamAdmits ==
  ASSUME TypeOK, Admitted, NEW t \in Pipelines, NEW listed \in BOOLEAN, ApplyTeam(t, listed)
  PROVE  TypeOK' /\ Admitted'
<1>1. Specs' = Specs /\ agents' = agents
  BY DEF ApplyTeam, Specs
<1>2. team' \in Pipelines \cup {Nil} /\ (team' # Nil => HandleTeam(team', Specs) # "denied")
  BY DEF ApplyTeam
<1>3. TypeOK'
  BY <1>2 DEF TypeOK, ApplyTeam, Edit
<1>4. Admitted'
  BY <1>1, <1>2 DEF Admitted
<1>5. QED
  BY <1>3, <1>4

LEMMA ListsAdmit ==
  ASSUME TypeOK, Admitted, ListPolicies \/ ListAgents \/ ListFails
  PROVE  TypeOK' /\ Admitted'
<1>1. Specs' = Specs /\ agents' = agents /\ team' = team /\ policies' = policies
  BY DEF ListPolicies, ListAgents, ListFails, Specs
<1>2. Admitted'
  BY <1>1 DEF Admitted
<1>3. pc' \in Stages
  BY DEF ListPolicies, ListAgents, ListFails, PassEnds, Stages
<1>4. pc' # "idle" => MemRecord(mem')
  <2>1. CASE ListPolicies
    BY <2>1 DEF ListPolicies, MemRecord
  <2>2. CASE ListAgents
    <3> DEFINE new == [mem EXCEPT !.agents = agents]
    <3>1. DOMAIN mem = {"policies", "effective", "agents", "count", "more"} /\ mem.more \in BOOLEAN
      BY <2>2 DEF ListAgents, TypeOK, MemRecord
    <3>2. DOMAIN new = DOMAIN mem /\ new = [x \in DOMAIN mem |-> new[x]] /\ new.more = mem.more
      BY <3>1
    <3> HIDE DEF new
    <3>3. MemRecord(new)
      BY <3>1, <3>2 DEF MemRecord
    <3>4. QED
      BY <2>2, <3>3 DEF ListAgents, new
  <2>3. CASE ListFails
    BY <2>3 DEF ListFails, PassEnds
  <2>4. QED
    BY <2>1, <2>2, <2>3
<1>5. edits' \in Nat /\ faults' \in Nat
  BY DEF TypeOK, ListPolicies, ListAgents, ListFails, Fault
<1>6. governed' \in BOOLEAN /\ ensured' \in BOOLEAN /\ queued' \in BOOLEAN
  BY Zenon DEF TypeOK, ListPolicies, ListAgents, ListFails
<1>7. TypeOK'
  BY <1>1, <1>3, <1>4, <1>5, <1>6 DEF TypeOK
<1>8. QED
  BY <1>2, <1>7

\* Agents keep their specs and their policies: what was admitted still is.
LEMMA SameAgentsAdmit ==
  ASSUME Admitted, SameAgents, Specs' = Specs, team' = team
  PROVE  Admitted'
<1>1. ASSUME NEW n \in ToSet(AgentNames), agents'[n].checked
      PROVE  agents'[n].spec \in Agents /\ HandleAgent(agents'[n].spec, Specs') # "denied"
  <2>1. agents'[n].spec = agents[n].spec /\ agents[n].checked
    BY <1>1 DEF SameAgents
  <2>2. QED
    BY <1>1, <2>1 DEF Admitted
<1>2. team' # Nil => HandleTeam(team', Specs') # "denied"
  BY DEF Admitted
<1>3. QED
  BY <1>1, <1>2 DEF Admitted

LEMMA CallFailuresAre ==
  ASSUME NEW broken \in CallFailures
  PROVE  /\ broken = {} \/ \E i \in Listed \ Changed : broken = {i}
         /\ Cardinality(broken) \in Nat
         /\ Cardinality(broken) = 0 => broken = {}
<1>1. broken = {} \/ \E i \in Listed \ Changed : broken = {i}
  BY DEF CallFailures
<1>2. CASE broken = {}
  BY <1>1, <1>2, FS_EmptySet
<1>3. CASE \E i \in Listed \ Changed : broken = {i}
  <2>1. PICK i : broken = {i}
    BY <1>3
  <2>2. Cardinality(broken) = 1
    BY <2>1, FS_Singleton
  <2>3. QED
    BY <1>1, <2>2
<1>4. QED
  BY <1>1, <1>2, <1>3

\* What a pass writes.
LEMMA WritesAre ==
  ASSUME TypeOK
  PROVE  /\ \A n \in ToSet(AgentNames) :
              LET w == [m \in DOMAIN agents |-> updateAgentCompliance(agents[m])]
              IN  AgentRecord(w[n]) /\ w[n].spec = agents[n].spec /\ w[n].checked = agents[n].checked
                  /\ w[n].version = agents[n].version
         /\ \A n \in ToSet(AgentNames) :
              LET w == [m \in DOMAIN agents |-> removeAgentPolicyState(agents[m])]
              IN  AgentRecord(w[n]) /\ w[n].spec = agents[n].spec /\ w[n].checked = agents[n].checked
                  /\ w[n].version = agents[n].version
<1> SUFFICES ASSUME NEW n \in ToSet(AgentNames)
             PROVE  /\ AgentRecord(updateAgentCompliance(agents[n]))
                    /\ updateAgentCompliance(agents[n]).spec = agents[n].spec
                    /\ updateAgentCompliance(agents[n]).checked = agents[n].checked
                    /\ updateAgentCompliance(agents[n]).version = agents[n].version
                    /\ AgentRecord(removeAgentPolicyState(agents[n]))
                    /\ removeAgentPolicyState(agents[n]).spec = agents[n].spec
                    /\ removeAgentPolicyState(agents[n]).checked = agents[n].checked
                    /\ removeAgentPolicyState(agents[n]).version = agents[n].version
  BY AgentNamesAre
<1> DEFINE a == agents[n]
           c == [version |-> a.version, ok |-> Complies(a)]
           m == Complies(a)
<1>1. AgentRecord(a)
  BY DEF TypeOK
<1>2. updateAgentCompliance(a) = [a EXCEPT !.cond = c, !.mark = m]
  BY DEF updateAgentCompliance
<1>3. removeAgentPolicyState(a) = [a EXCEPT !.cond = Nil, !.mark = Nil]
  BY DEF removeAgentPolicyState
<1> HIDE DEF a, c, m
<1> DEFINE u == updateAgentCompliance(a)
           r == removeAgentPolicyState(a)
<1> HIDE DEF u, r
<1>4. AgentRecord(u) /\ u.spec = a.spec /\ u.checked = a.checked /\ u.version = a.version
  <2>1. Marked(u, a, c, m)
    BY <1>2 DEF u, Marked
  <2>2. QED
    BY <1>1, <2>1, MarkAgent
<1>5. AgentRecord(r) /\ r.spec = a.spec /\ r.checked = a.checked /\ r.version = a.version
  <2>1. Marked(r, a, Nil, Nil)
    BY <1>3 DEF r, Marked
  <2>2. QED
    BY <1>1, <2>1, MarkAgent
<1>6. QED
  BY <1>4, <1>5 DEF a, u, r

LEMMA JudgeAdmits ==
  ASSUME TypeOK, Admitted, Judge
  PROVE  TypeOK' /\ Admitted'
<1> DEFINE w == [n \in DOMAIN agents |-> updateAgentCompliance(agents[n])]
<1>1. PICK broken \in CallFailures, half \in BOOLEAN :
        /\ faults' = faults + Cardinality(broken)
        /\ WriteAgents(w, Batch(broken \cup Changed), broken \cup Changed, half)
        /\ mem' = [mem EXCEPT
             !.count = [agents |-> Cardinality(Listed),
                        compliant |-> Cardinality({i \in Listed : Complies(mem.agents[AgentNames[i]])})],
             !.more = /\ Cardinality(Batch(broken \cup Changed) \ (broken \cup Changed)) >= PolicyBatchSize
                      /\ Cardinality(Batch(broken \cup Changed) \ (broken \cup Changed)) < Cardinality(Listed)]
  BY DEF Judge
<1>2. SameAgents /\ queued' \in BOOLEAN
  <2>1. \A n \in ToSet(AgentNames) : AgentRecord(w[n]) /\ w[n].spec = agents[n].spec
          /\ w[n].checked = agents[n].checked /\ w[n].version = agents[n].version
    BY WritesAre
  <2> HIDE DEF w
  <2>2. QED
    BY <1>1, <2>1, WritesKeepSpecs
<1> HIDE DEF w
<1>3. Specs' = Specs /\ team' = team /\ policies' = policies /\ pc' = "status" /\ edits' = edits
  BY DEF Judge, Specs
<1>4. Admitted'
  BY <1>2, <1>3, SameAgentsAdmit
<1>5. MemRecord(mem')
  <2> DEFINE c == [agents |-> Cardinality(Listed),
                   compliant |-> Cardinality({i \in Listed : Complies(mem.agents[AgentNames[i]])})]
             b == /\ Cardinality(Batch(broken \cup Changed) \ (broken \cup Changed)) >= PolicyBatchSize
                  /\ Cardinality(Batch(broken \cup Changed) \ (broken \cup Changed)) < Cardinality(Listed)
             new == [mem EXCEPT !.count = c, !.more = b]
  <2>1. mem' = new
    BY <1>1
  <2>2. b \in BOOLEAN
    BY Zenon
  <2> HIDE DEF b, c
  <2>3. DOMAIN mem = {"policies", "effective", "agents", "count", "more"}
    BY DEF Judge, TypeOK, MemRecord
  <2>4. DOMAIN new = DOMAIN mem /\ new = [x \in DOMAIN mem |-> new[x]] /\ new.more = b
    BY <2>3
  <2> HIDE DEF new
  <2>5. MemRecord(new)
    BY <2>2, <2>3, <2>4 DEF MemRecord
  <2>6. QED
    BY <2>1, <2>5
<1>6. faults' \in Nat
  BY <1>1, CallFailuresAre DEF TypeOK
<1>7. governed' \in BOOLEAN /\ ensured' \in BOOLEAN
  BY Zenon DEF TypeOK, Judge
<1>8. TypeOK'
  BY <1>2, <1>3, <1>5, <1>6, <1>7 DEF TypeOK, SameAgents, Stages
<1>9. QED
  BY <1>4, <1>8, Zenon

LEMMA StripAdmits ==
  ASSUME TypeOK, Admitted, Strip
  PROVE  TypeOK' /\ Admitted'
<1> DEFINE w == [n \in DOMAIN agents |-> removeAgentPolicyState(agents[n])]
<1>1. PICK broken \in CallFailures, half \in BOOLEAN :
        /\ faults' = faults + Cardinality(broken)
        /\ WriteAgents(w, Listed, broken \cup Changed, half)
  BY DEF Strip
<1>2. SameAgents /\ queued' \in BOOLEAN
  <2>1. \A n \in ToSet(AgentNames) : AgentRecord(w[n]) /\ w[n].spec = agents[n].spec
          /\ w[n].checked = agents[n].checked /\ w[n].version = agents[n].version
    BY WritesAre
  <2> HIDE DEF w
  <2>2. QED
    BY <1>1, <2>1, WritesKeepSpecs
<1> HIDE DEF w
<1>3. Specs' = Specs /\ team' = team /\ policies' = policies /\ pc' = "idle" /\ edits' = edits
  BY DEF Strip, Specs, PassEnds
<1>4. Admitted'
  BY <1>2, <1>3, SameAgentsAdmit
<1>5. faults' \in Nat
  BY <1>1, CallFailuresAre DEF TypeOK
<1>6. governed' \in BOOLEAN /\ ensured' \in BOOLEAN
  BY Zenon DEF TypeOK, Strip
<1>7. TypeOK'
  BY <1>2, <1>3, <1>5, <1>6 DEF TypeOK, SameAgents, Stages
<1>8. QED
  BY <1>4, <1>7

\* Storing a status leaves the policies' specs and versions alone.
LEMMA StatusKeepsSpecs ==
  ASSUME TypeOK, NEW broken, policies' = updatePolicyStatus(broken)
  PROVE  /\ StoredPolicies(policies') /\ DOMAIN policies' = DOMAIN policies /\ Len(policies') = Len(policies)
         /\ \A i \in DOMAIN policies : policies'[i].spec = policies[i].spec /\ policies'[i].version = policies[i].version
         /\ Specs' = Specs
<1> DEFINE st == NewStatus(mem.policies, mem.count)
           new(i) == [policies[i] EXCEPT !.status = st]
           hit(i) == policies[i].version \notin broken /\ (\E q \in ToSet(mem.policies) : q.version = policies[i].version)
<1>1. policies' = [i \in DOMAIN policies |-> IF hit(i) THEN new(i) ELSE policies[i]]
  BY DEF updatePolicyStatus
<1> HIDE DEF st, hit
<1>2. ASSUME NEW i \in DOMAIN policies
      PROVE  /\ new(i) = [version |-> new(i).version, spec |-> new(i).spec, status |-> new(i).status]
             /\ new(i).spec = policies[i].spec /\ new(i).version = policies[i].version
  <2> DEFINE o == policies[i]
             w == [o EXCEPT !.status = st]
  <2>1. o = [version |-> o.version, spec |-> o.spec, status |-> o.status]
    BY DEF StoredPolicies, TypeOK
  <2> HIDE DEF o
  <2>2. DOMAIN o = {"version", "spec", "status"}
    BY <2>1
  <2>3. DOMAIN w = DOMAIN o /\ w = [x \in DOMAIN o |-> w[x]] /\ w.spec = o.spec /\ w.version = o.version
    BY <2>2
  <2> HIDE DEF w
  <2>4. w = [version |-> w.version, spec |-> w.spec, status |-> w.status]
    BY <2>2, <2>3
  <2>5. QED
    BY <2>3, <2>4 DEF w, o
<1> HIDE DEF new
<1>3. \A i \in DOMAIN policies :
        /\ policies'[i] = [version |-> policies'[i].version, spec |-> policies'[i].spec, status |-> policies'[i].status]
        /\ policies'[i].spec = policies[i].spec /\ policies'[i].version = policies[i].version
        /\ policies'[i].spec \in Policies
  BY <1>1, <1>2 DEF TypeOK, StoredPolicies
<1>4. DOMAIN policies = 1 .. Len(policies) /\ Len(policies) \in Nat
  BY DEF TypeOK, StoredPolicies
<1>5. DOMAIN policies' = DOMAIN policies /\ policies' = [i \in 1 .. Len(policies) |-> policies'[i]]
  BY <1>1, <1>4
<1>6. policies' \in Seq(ToSet(policies')) /\ Len(policies') = Len(policies)
  BY <1>4, <1>5 DEF ToSet
<1>7. Specs' = Specs
  BY <1>3, <1>5 DEF Specs, SpecsOf
<1>8. QED
  BY <1>3, <1>5, <1>6, <1>7 DEF StoredPolicies

LEMMA StoreStatusAdmits ==
  ASSUME TypeOK, Admitted, NEW works \in BOOLEAN, NEW broken, StoreStatus(works, broken)
  PROVE  TypeOK' /\ Admitted'
<1>1. policies' = updatePolicyStatus(broken) /\ agents' = agents /\ team' = team /\ edits' = edits /\ pc' = "idle"
  BY DEF StoreStatus, PassEnds
<1>2. StoredPolicies(policies') /\ Specs' = Specs
  BY <1>1, StatusKeepsSpecs
<1>3. Admitted'
  BY <1>1, <1>2 DEF Admitted
<1>4. faults' \in Nat
  BY DEF StoreStatus, Fault, TypeOK
<1>5. governed' \in BOOLEAN /\ ensured' \in BOOLEAN
  BY Zenon DEF TypeOK, StoreStatus, ensurePolicyGovernedLabel
<1>6. queued' \in BOOLEAN
  BY Zenon DEF StoreStatus
<1>7. TypeOK'
  BY <1>1, <1>2, <1>4, <1>5, <1>6 DEF TypeOK, Stages
<1>8. QED
  BY <1>3, <1>7

LEMMA UngovernAdmits ==
  ASSUME TypeOK, Admitted, NEW works \in BOOLEAN, Ungovern(works)
  PROVE  TypeOK' /\ Admitted'
<1>1. /\ policies' = policies /\ agents' = agents /\ team' = team /\ edits' = edits /\ queued' = queued /\ mem' = mem
      /\ pc = "ungovern" /\ pc' = "listForCleanup" /\ Specs' = Specs
  BY DEF Ungovern, Specs
<1>2. faults' \in Nat
  BY DEF Ungovern, Fault, TypeOK
<1>3. governed' \in BOOLEAN /\ ensured' \in BOOLEAN
  BY Zenon DEF Ungovern, removePolicyGovernedLabel
<1>4. Admitted'
  BY <1>1 DEF Admitted
<1>5. TypeOK'
  BY <1>1, <1>2, <1>3 DEF TypeOK, Stages
<1>6. QED
  BY <1>4, <1>5

LEMMA RestartAdmits ==
  ASSUME TypeOK, Admitted, Restart
  PROVE  TypeOK' /\ Admitted'
<1>1. /\ policies' = policies /\ agents' = agents /\ team' = team /\ edits' = edits /\ pc' = "idle" /\ Specs' = Specs
      /\ governed' = governed
  BY DEF Restart, Specs, PassEnds
<1>2. faults' \in Nat
  BY DEF Restart, Fault, TypeOK
<1>3. queued' \in BOOLEAN /\ ensured' \in BOOLEAN
  BY Zenon DEF Restart
<1>4. Admitted'
  BY <1>1 DEF Admitted
<1>5. TypeOK'
  BY <1>1, <1>2, <1>3 DEF TypeOK, Stages
<1>6. QED
  BY <1>4, <1>5

LEMMA StepAdmits ==
  ASSUME TypeOK, Admitted, [Next]_vars
  PROVE  TypeOK' /\ Admitted'
<1>1. ASSUME NEW p \in Policies, NEW i \in 1 .. Len(policies) + 1, AddPolicy(p, i)
      PROVE  TypeOK' /\ Admitted'
  BY <1>1, UserPoliciesStored, PoliciesChangeAdmits DEF AddPolicy
<1>2. ASSUME NEW p \in Policies, NEW i \in DOMAIN policies, EditPolicy(p, i)
      PROVE  TypeOK' /\ Admitted'
  <2> DEFINE new == [policies EXCEPT ![i] = [@ EXCEPT !.version = edits + 1, !.spec = p]]
  <2>1. StoredPolicies(new)
    BY UserPoliciesStored
  <2>2. PoliciesChange(new)
    BY <1>2 DEF EditPolicy
  <2> HIDE DEF new
  <2>3. QED
    BY <2>1, <2>2, PoliciesChangeAdmits
<1>3. ASSUME NEW i \in DOMAIN policies, DeletePolicy(i)
      PROVE  TypeOK' /\ Admitted'
  BY <1>3, UserPoliciesStored, PoliciesChangeAdmits DEF DeletePolicy
<1>4. ASSUME NEW n \in DOMAIN agents, NEW a \in Agents, NEW listed \in BOOLEAN, ApplyAgent(n, a, listed)
      PROVE  TypeOK' /\ Admitted'
  BY <1>4, ApplyAgentAdmits
<1>5. ASSUME NEW n \in DOMAIN agents, DeleteAgent(n)
      PROVE  TypeOK' /\ Admitted'
  BY <1>5, DeleteAgentAdmits
<1>6. ASSUME NEW t \in Pipelines, NEW listed \in BOOLEAN, ApplyTeam(t, listed)
      PROVE  TypeOK' /\ Admitted'
  BY <1>6, ApplyTeamAdmits
<1>7. ASSUME NEW works \in BOOLEAN, NEW broken \in {{}} \cup {{p.version} : p \in ToSet(policies)}, StoreStatus(works, broken)
      PROVE  TypeOK' /\ Admitted'
  BY <1>7, StoreStatusAdmits
<1>8. ASSUME NEW works \in BOOLEAN, Ungovern(works)
      PROVE  TypeOK' /\ Admitted'
  BY <1>8, UngovernAdmits
<1>9. ASSUME UNCHANGED vars
      PROVE  TypeOK' /\ Admitted'
  <2>1. Specs' = Specs /\ agents' = agents /\ team' = team
    BY <1>9 DEF vars, Specs
  <2>2. Admitted'
    BY <2>1 DEF Admitted
  <2>3. TypeOK'
    BY <1>9 DEF vars, TypeOK
  <2>4. QED
    BY <2>2, <2>3
<1>10. QED
  BY <1>1, <1>2, <1>3, <1>4, <1>5, <1>6, <1>7, <1>8, <1>9, ListsAdmit, JudgeAdmits, StripAdmits, RestartAdmits
     DEF Next

\* What was let in by the webhook meets every policy taken alone.
LEMMA AdmittedMeetPolicies ==
  ASSUME TypeOK, Admitted
  PROVE  AdmittedComply
<1> SUFFICES ASSUME NEW k \in DOMAIN policies, Specs[k].mode = "Enforce"
             PROVE  /\ \A n \in DOMAIN agents : agents[n].checked =>
                         \A i \in DOMAIN Specs : Satisfies(agents[n].spec, Specs[i])
                    /\ team # Nil => \E top \in DOMAIN policies :
                         /\ \A i \in DOMAIN policies : validationLevelOrder[Specs[i].validation]
                                                        <= validationLevelOrder[Specs[top].validation]
                         /\ Specs[top].validation = "none" \/
                              \A s \in DOMAIN team : Specs[top].validation \in team[s]
  BY DEF AdmittedComply, Enforcing
<1>1. SpecList(Specs) /\ DOMAIN Specs = DOMAIN policies
  BY SpecsAreSpecs DEF TypeOK, Specs
<1> DEFINE e == MergePolicies(Specs)
<1>2. Specs # <<>> /\ e # Nil /\ \A v : applyEnforcementMode(e.mode, v) # "denied" => v = {}
  BY <1>1, EnforceDenies
<1>3. ASSUME NEW n \in DOMAIN agents, agents[n].checked, NEW i \in DOMAIN Specs
      PROVE  Satisfies(agents[n].spec, Specs[i])
  <2>1. agents[n].spec \in Agents /\ HandleAgent(agents[n].spec, Specs) # "denied"
    BY <1>3, AgentNamesAre DEF Admitted
  <2>2. EvaluateAgentCompliance(agents[n].spec, e) = {}
    BY <1>2, <2>1 DEF HandleAgent
  <2> HIDE DEF e
  <2>3. QED
    BY <1>1, <1>2, <2>1, <2>2, CompliesWithEach DEF e
<1>4. ASSUME team # Nil
      PROVE  \E top \in DOMAIN Specs :
               /\ \A i \in DOMAIN Specs : validationLevelOrder[Specs[i].validation]
                                           <= validationLevelOrder[Specs[top].validation]
               /\ Specs[top].validation = "none" \/ \A s \in DOMAIN team : Specs[top].validation \in team[s]
  <2>1. HandleTeam(team, Specs) # "denied"
    BY <1>4 DEF Admitted
  <2>2. {i \in DOMAIN team : ~checkStepValidationLevel(team[i], e.validation)} = {}
    BY <1>2, <2>1 DEF HandleTeam
  <2>3. QED
    BY <1>1, <1>2, <2>2, TeamAdmitted
<1>5. QED
  BY <1>1, <1>3, <1>4

LEMMA PodsMeetPolicies ==
  ASSUME TypeOK
  PROVE  PodsObeyPolicies
<1>1. SpecList(Specs) /\ DOMAIN Specs = DOMAIN policies
  BY SpecsAreSpecs DEF TypeOK, Specs
<1>2. QED
  BY <1>1, PodsKeepLimits DEF PodsObeyPolicies, Under

\* In a namespace with an Enforce policy every agent and every team that the
\* webhooks let in since the policies last changed meets each of the policies
\* taken alone; and under any policies the limits that buildEnvVars gives a pod
\* keep each policy's ceilings, floors and tool deny list.  For any policies,
\* agents and pipelines, in any order, with calls failing and the operator
\* restarting at any point.
THEOREM MergingObeysEveryPolicy == Spec => []PoliciesAreObeyed
<1>1. Init => TypeOK /\ Admitted
  BY InitAdmits
<1>2. TypeOK /\ Admitted /\ [Next]_vars => TypeOK' /\ Admitted'
  BY StepAdmits
<1>3. TypeOK /\ Admitted => PoliciesAreObeyed
  BY AdmittedMeetPolicies, PodsMeetPolicies DEF PoliciesAreObeyed
<1>4. QED
  BY <1>1, <1>2, <1>3, PTL DEF Spec

-----------------------------------------------------------------------------
(* Adding a policy.                                                        *)

\* More policies, stricter limits.
Tighter(new, old) ==
  /\ \A f \in LimitFields : old[f] \in Limit /\ new[f] \in Limit
  /\ \A f \in Ceilings : old[f] # Nil => new[f] # Nil /\ new[f] <= old[f]
  /\ old["minTimeout"] # Nil => new["minTimeout"] # Nil /\ old["minTimeout"] <= new["minTimeout"]

LEMMA MoreIsTighter ==
  ASSUME NEW S, NEW T, S \subseteq T, \A q \in T : ValidPolicy(q), NEW old, NEW new, IsMerge(old, S), IsMerge(new, T)
  PROVE  Tighter(new.limits, old.limits)
<1>1. \A f \in LimitFields : LimitOf(old.limits[f], S, f) /\ LimitOf(new.limits[f], T, f)
  BY DEF IsMerge
<1>2. ASSUME NEW f \in LimitFields, old.limits[f] # Nil
      PROVE  /\ new.limits[f] # Nil
             /\ f \in Ceilings => new.limits[f] <= old.limits[f]
             /\ f \notin Ceilings => old.limits[f] <= new.limits[f]
  <2>1. PICK p \in S : p.limits[f] = old.limits[f]
    BY <1>1, <1>2 DEF LimitOf
  <2>2. p \in T /\ p.limits[f] # Nil
    BY <1>2, <2>1
  <2>3. QED
    BY <1>1, <2>1, <2>2 DEF LimitOf
<1>3. \A f \in LimitFields : old.limits[f] \in Limit /\ new.limits[f] \in Limit
  BY <1>1 DEF LimitOf
<1>4. "minTimeout" \in LimitFields /\ "minTimeout" \notin Ceilings /\ Ceilings \subseteq LimitFields
  BY DEF LimitFields, Ceilings
<1>5. QED
  BY <1>2, <1>3, <1>4 DEF Tighter

LEMMA TighterFindsMore ==
  ASSUME NEW a \in Agents, NEW old, NEW new, Tighter(new, old)
  PROVE  checkLimits(a, old) \subseteq checkLimits(a, new)
<1>1. CASE a.limits = Nil
  BY <1>1 DEF checkLimits
<1>2. CASE a.limits # Nil
  <2> DEFINE d == a.limits.daily
             t == int32(a.limits.tokens)
             s == int32(a.limits.timeout)
  <2>1. d \in Nat /\ t \in Int /\ s \in Int
    <3>1. a.limits.daily \in Nat /\ a.limits.tokens \in Int /\ a.limits.timeout \in Int
      BY <1>2, PoliciesAssumption DEF ValidAgent, AgentLimits
    <3>2. QED
      BY <3>1, Int32Facts
  <2> DEFINE found(l) == {c \in {"dailyTokens", "tokensPerCall", "timeoutSeconds"} :
               \/ c = "dailyTokens" /\ l["maxDaily"] # Nil /\ d > l["maxDaily"]
               \/ c = "tokensPerCall" /\ l["maxTokens"] # Nil /\ t > l["maxTokens"]
               \/ c = "timeoutSeconds" /\ l["maxTimeout"] # Nil /\ s > l["maxTimeout"]
               \/ c = "timeoutSeconds" /\ l["minTimeout"] # Nil /\ s < l["minTimeout"]}
  <2>2. checkLimits(a, old) = found(old) /\ checkLimits(a, new) = found(new)
    BY <1>2 DEF checkLimits
  <2> HIDE DEF d, t, s
  <2>3. \A x \in Limit : x # Nil => x \in Nat
    BY DEF Limit
  <2>4. /\ old["maxDaily"] # Nil /\ d > old["maxDaily"] => new["maxDaily"] # Nil /\ d > new["maxDaily"]
        /\ old["maxTokens"] # Nil /\ t > old["maxTokens"] => new["maxTokens"] # Nil /\ t > new["maxTokens"]
        /\ old["maxTimeout"] # Nil /\ s > old["maxTimeout"] => new["maxTimeout"] # Nil /\ s > new["maxTimeout"]
        /\ old["minTimeout"] # Nil /\ s < old["minTimeout"] => new["minTimeout"] # Nil /\ s < new["minTimeout"]
    BY <2>1, <2>3 DEF Tighter, LimitFields, Ceilings
  <2>5. found(old) \subseteq found(new)
    BY <2>4, Zenon
  <2>6. QED
    BY <2>2, <2>5
<1>3. QED
  BY <1>1, <1>2

LEMMA AddingIsStricter ==
  ASSUME NEW list, NEW more, SpecList(list), SpecList(more), list # <<>>, more # <<>>, ToSet(list) \subseteq ToSet(more),
         NEW a \in Agents
  PROVE  LET old == MergePolicies(list)
             new == MergePolicies(more)
         IN  /\ EvaluateAgentCompliance(a, old) \ {"allowed"} \subseteq EvaluateAgentCompliance(a, new)
             /\ PodLimits(a, new).tokens <= PodLimits(a, old).tokens
             /\ old.trust # Nil => trustLevelOrder[new.trust] >= trustLevelOrder[old.trust]
             /\ Conflicting(old) => Conflicting(new)
<1> DEFINE old == MergePolicies(list)
           new == MergePolicies(more)
           S == ToSet(list)
           T == ToSet(more)
<1>1. IsMerge(old, S) /\ IsMerge(new, T) /\ old # Nil /\ new # Nil
  BY Merged, EffectiveIsNotNil DEF SpecList
<1>2. S \subseteq T /\ \A q \in T : ValidPolicy(q)
  BY DEF ToSet, SpecList, ValidList
<1> HIDE DEF old, new, S, T
<1>3. Tighter(new.limits, old.limits)
  BY <1>1, <1>2, MoreIsTighter
<1>4. EvaluateAgentCompliance(a, old) \ {"allowed"} \subseteq EvaluateAgentCompliance(a, new)
  <2>1. checkRequirements(a, old.requires) \subseteq checkRequirements(a, new.requires)
    BY <1>1, <1>2 DEF IsMerge, checkRequirements
  <2>2. checkLimits(a, old.limits) \subseteq checkLimits(a, new.limits)
    BY <1>3, TighterFindsMore
  <2>3. checkModels(a.model, old) \ {"allowed"} \subseteq checkModels(a.model, new)
    <3>1. old.denied \subseteq new.denied
      BY <1>1, <1>2 DEF IsMerge
    <3>2. QED
      BY <3>1 DEF checkModels
  <2>4. QED
    BY <1>1, <2>1, <2>2, <2>3 DEF EvaluateAgentCompliance
<1>5. PodLimits(a, new).tokens <= PodLimits(a, old).tokens
  <2> DEFINE l == SpecLimits(a)
             o == old.limits["maxTokens"]
             n == new.limits["maxTokens"]
  <2>1. /\ PodLimits(a, new).tokens = minPtr(l.tokens, n)
        /\ PodLimits(a, old).tokens = minPtr(l.tokens, o)
    BY <1>1, PodLimitsAre DEF PodIs
  <2>2. l.tokens \in Int
    BY SpecLimitsTyped DEF AgentLimits
  <2>3. o \in Limit /\ n \in Limit /\ (o # Nil => n # Nil /\ n <= o)
    BY <1>3 DEF Tighter, LimitFields, Ceilings
  <2>4. \A x \in Limit : x # Nil => x \in Nat
    BY DEF Limit
  <2> HIDE DEF l, o, n
  <2>5. minPtr(l.tokens, n) <= minPtr(l.tokens, o)
    BY <2>2, <2>3, <2>4, NilAssumption DEF minPtr
  <2>6. QED
    BY <2>1, <2>5
<1>6. old.trust # Nil => trustLevelOrder[new.trust] >= trustLevelOrder[old.trust]
  <2> SUFFICES ASSUME old.trust # Nil PROVE trustLevelOrder[new.trust] >= trustLevelOrder[old.trust]
    OBVIOUS
  <2>1. TrustOf(old.trust, S) /\ TrustOf(new.trust, T)
    BY <1>1 DEF IsMerge
  <2>2. PICK p \in S : p.trust = old.trust
    BY <2>1 DEF TrustOf
  <2>3. p \in T /\ p.trust # Nil
    BY <1>2, <2>2
  <2>4. new.trust \in Trusts /\ old.trust \in Trusts /\ trustLevelOrder[p.trust] <= trustLevelOrder[new.trust]
    BY <2>1, <2>2, <2>3 DEF TrustOf
  <2>5. QED
    BY <2>2, <2>4, OrderTypes
<1>7. Conflicting(old) => Conflicting(new)
  <2>1. \A x \in Limit : x # Nil => x \in Nat
    BY DEF Limit
  <2>2. QED
    BY <1>3, <2>1 DEF Conflicting, Tighter, LimitFields, Ceilings
<1>8. QED
  BY <1>4, <1>5, <1>6, <1>7 DEF old, new

\* Only AddPolicy makes the list longer.
LEMMA OnlyAddingLengthens ==
  ASSUME TypeOK, [Next]_vars
  PROVE  \/ Len(policies') <= Len(policies)
         \/ ToSet(Specs) \subseteq ToSet(Specs')
<1>1. Len(policies) \in Nat
  BY DEF TypeOK, StoredPolicies
<1>2. CASE policies' = policies
  BY <1>1, <1>2
<1>3. ASSUME NEW p \in Policies, NEW i \in 1 .. Len(policies) + 1, AddPolicy(p, i)
      PROVE  ToSet(Specs) \subseteq ToSet(Specs')
  <2> DEFINE new == InsertAt(policies, i, [version |-> edits + 1, spec |-> p, status |-> Nil])
  <2>1. ToSet(SpecsOf(policies)) \subseteq ToSet(SpecsOf(new))
    BY InsertKeeps DEF TypeOK
  <2>2. policies' = new
    BY <1>3 DEF AddPolicy, PoliciesChange
  <2> HIDE DEF new
  <2>3. Specs' = SpecsOf(new)
    BY <2>2 DEF Specs
  <2>4. QED
    BY <2>1, <2>3 DEF Specs
<1>4. ASSUME NEW p \in Policies, NEW i \in DOMAIN policies, EditPolicy(p, i)
      PROVE  Len(policies') <= Len(policies)
  <2> DEFINE new == [policies EXCEPT ![i] = [@ EXCEPT !.version = edits + 1, !.spec = p]]
  <2>1. Len(new) = Len(policies)
    BY DEF TypeOK, StoredPolicies
  <2>2. policies' = new
    BY <1>4 DEF EditPolicy, PoliciesChange
  <2> HIDE DEF new
  <2>3. QED
    BY <1>1, <2>1, <2>2
<1>5. ASSUME NEW i \in DOMAIN policies, DeletePolicy(i)
      PROVE  Len(policies') <= Len(policies)
  BY <1>5, RemoveKeeps DEF DeletePolicy, PoliciesChange, TypeOK
<1>6. ASSUME NEW works \in BOOLEAN, NEW broken, StoreStatus(works, broken)
      PROVE  Len(policies') <= Len(policies)
  BY <1>1, <1>6, StatusKeepsSpecs DEF StoreStatus
<1>7. \/ policies' = policies
      \/ \E p \in Policies, i \in 1 .. Len(policies) + 1 : AddPolicy(p, i)
      \/ \E p \in Policies, i \in DOMAIN policies : EditPolicy(p, i)
      \/ \E i \in DOMAIN policies : DeletePolicy(i)
      \/ \E works \in BOOLEAN, broken \in {{}} \cup {{p.version} : p \in ToSet(policies)} : StoreStatus(works, broken)
  BY DEF Next, vars, ApplyAgent, DeleteAgent, ApplyTeam, ListPolicies, ListAgents, ListFails, Judge, Ungovern, Strip,
         Restart
<1>8. QED
  BY <1>2, <1>3, <1>4, <1>5, <1>6, <1>7

\* A policy that is added next to others drops no violation that an agent had
\* (allow lists apart), raises no pod's token limit, lowers no trust level and
\* resolves no conflict of timeouts: MergePolicies only ever tightens.
THEOREM AddingPoliciesOnlyTightens == Spec => AddingNeverRelaxes
<1> DEFINE Tightens == Len(policies') > Len(policies) /\ policies # <<>> =>
       LET old == MergePolicies(Specs)
           new == MergePolicies(Specs')
       IN  \A a \in Agents :
             /\ EvaluateAgentCompliance(a, old) \ {"allowed"}
                  \subseteq EvaluateAgentCompliance(a, new)
             /\ PodLimits(a, new).tokens <= PodLimits(a, old).tokens
             /\ old.trust # Nil => trustLevelOrder[new.trust] >= trustLevelOrder[old.trust]
             /\ Conflicting(old) => Conflicting(new)
<1>1. Init => TypeOK /\ Admitted
  BY InitAdmits
<1>2. TypeOK /\ Admitted /\ [Next]_vars => TypeOK' /\ Admitted'
  BY StepAdmits
<1>3. TypeOK /\ TypeOK' /\ [Next]_vars => [Tightens]_vars
  <2> SUFFICES ASSUME TypeOK, TypeOK', [Next]_vars, Len(policies') > Len(policies), policies # <<>>, NEW a \in Agents
               PROVE  LET old == MergePolicies(Specs)
                          new == MergePolicies(Specs')
                      IN  /\ EvaluateAgentCompliance(a, old) \ {"allowed"}
                               \subseteq EvaluateAgentCompliance(a, new)
                          /\ PodLimits(a, new).tokens <= PodLimits(a, old).tokens
                          /\ old.trust # Nil => trustLevelOrder[new.trust] >= trustLevelOrder[old.trust]
                          /\ Conflicting(old) => Conflicting(new)
    BY Zenon
  <2>1. StoredPolicies(policies) /\ StoredPolicies(policies') /\ Specs = SpecsOf(policies) /\ Specs' = SpecsOf(policies')
    BY DEF TypeOK, Specs
  <2>2. Len(policies) \in Nat /\ Len(policies') \in Nat /\ policies' # <<>>
    BY <2>1 DEF StoredPolicies
  <2>3. ToSet(Specs) \subseteq ToSet(Specs')
    BY <2>2, OnlyAddingLengthens
  <2>4. SpecList(Specs) /\ SpecList(Specs') /\ Specs # <<>> /\ Specs' # <<>>
    BY <2>1, <2>2, SpecsAreSpecs
  <2>5. QED
    BY <2>3, <2>4, AddingIsStricter
<1>4. QED
  BY <1>1, <1>2, <1>3, PTL DEF Spec, AddingNeverRelaxes

-----------------------------------------------------------------------------
(* Whom a conflict is blamed on.                                           *)

LEMMA LongestMinimum ==
  ASSUME NEW list, SpecList(list), list # <<>>, MergePolicies(list).limits["minTimeout"] # Nil
  PROVE  LET c == findTimeoutPolicies(list).minPol
         IN  c \in DOMAIN list /\ list[c].limits["minTimeout"] = MergePolicies(list).limits["minTimeout"]
<1> DEFINE M == MergePolicies(list).limits["minTimeout"]
           min(i) == list[i].limits["minTimeout"]
           setMin == {i \in DOMAIN list : min(i) # Nil}
           Best(i) == \A j \in setMin : min(j) < min(i) \/ (min(j) = min(i) /\ i <= j)
           I == {i \in DOMAIN list : min(i) = M}
<1>1. LimitOf(M, ToSet(list), "minTimeout") /\ "minTimeout" \notin Ceilings
  BY Merged DEF SpecList, IsMerge, LimitFields, Ceilings
<1>2. M \in Nat
  BY <1>1 DEF LimitOf, Limit
<1>3. \A j \in setMin : min(j) \in Nat /\ min(j) <= M
  <2>1. \A j \in DOMAIN list : list[j] \in ToSet(list) /\ list[j].limits["minTimeout"] \in Limit
    BY DEF SpecList, ValidList, ValidPolicy, ToSet, LimitFields
  <2>2. QED
    BY <1>1, <2>1 DEF LimitOf, Limit
<1>4. I # {}
  <2>1. PICK p \in ToSet(list) : p.limits["minTimeout"] = M
    BY <1>1 DEF LimitOf
  <2>2. QED
    BY <2>1 DEF ToSet
<1>5. DOMAIN list \subseteq Nat
  BY DEF SpecList, ValidList
<1>6. findTimeoutPolicies(list).minPol = CHOOSE i \in setMin : Best(i)
  BY DEF findTimeoutPolicies
<1> HIDE DEF M, min
<1>7. PICK i \in I : \A j \in I : i <= j
  BY <1>4, <1>5, LeastNumber
<1>8. i \in setMin /\ Best(i) /\ min(i) = M
  BY <1>2, <1>3, <1>5, <1>7 DEF M
<1> HIDE DEF Best
<1>9. PICK c \in setMin : Best(c) /\ c = findTimeoutPolicies(list).minPol
  BY <1>6, <1>8
<1> USE DEF Best
<1>10. min(c) = M
  BY <1>2, <1>3, <1>8, <1>9
<1>11. QED
  BY <1>9, <1>10 DEF min, M

LEMMA ShortestMaximum ==
  ASSUME NEW list, SpecList(list), list # <<>>, MergePolicies(list).limits["maxTimeout"] # Nil
  PROVE  LET c == findTimeoutPolicies(list).maxPol
         IN  c \in DOMAIN list /\ list[c].limits["maxTimeout"] = MergePolicies(list).limits["maxTimeout"]
<1> DEFINE M == MergePolicies(list).limits["maxTimeout"]
           max(i) == list[i].limits["maxTimeout"]
           setMax == {i \in DOMAIN list : max(i) # Nil}
           Best(i) == \A j \in setMax : max(j) > max(i) \/ (max(j) = max(i) /\ i <= j)
           I == {i \in DOMAIN list : max(i) = M}
<1>1. LimitOf(M, ToSet(list), "maxTimeout") /\ "maxTimeout" \in Ceilings
  BY Merged DEF SpecList, IsMerge, LimitFields, Ceilings
<1>2. M \in Nat
  BY <1>1 DEF LimitOf, Limit
<1>3. \A j \in setMax : max(j) \in Nat /\ max(j) >= M
  <2>1. \A j \in DOMAIN list : list[j] \in ToSet(list) /\ list[j].limits["maxTimeout"] \in Limit
    BY DEF SpecList, ValidList, ValidPolicy, ToSet, LimitFields, Ceilings
  <2>2. QED
    BY <1>1, <2>1 DEF LimitOf, Limit
<1>4. I # {}
  <2>1. PICK p \in ToSet(list) : p.limits["maxTimeout"] = M
    BY <1>1 DEF LimitOf
  <2>2. QED
    BY <2>1 DEF ToSet
<1>5. DOMAIN list \subseteq Nat
  BY DEF SpecList, ValidList
<1>6. findTimeoutPolicies(list).maxPol = CHOOSE i \in setMax : Best(i)
  BY DEF findTimeoutPolicies
<1> HIDE DEF M, max
<1>7. PICK i \in I : \A j \in I : i <= j
  BY <1>4, <1>5, LeastNumber
<1>8. i \in setMax /\ Best(i) /\ max(i) = M
  BY <1>2, <1>3, <1>5, <1>7 DEF M
<1> HIDE DEF Best
<1>9. PICK c \in setMax : Best(c) /\ c = findTimeoutPolicies(list).maxPol
  BY <1>6, <1>8
<1> USE DEF Best
<1>10. max(c) = M
  BY <1>2, <1>3, <1>8, <1>9
<1>11. QED
  BY <1>9, <1>10 DEF max, M

LEMMA ConflictsAreExplained ==
  ASSUME TypeOK
  PROVE  ConflictIsExplained
<1> DEFINE e == MergePolicies(Specs)
           named == findTimeoutPolicies(Specs)
<1> SUFFICES ASSUME policies # <<>>, Conflicting(e)
             PROVE  /\ named.minPol # named.maxPol
                    /\ Specs[named.minPol].limits["minTimeout"] = e.limits["minTimeout"]
                    /\ Specs[named.maxPol].limits["maxTimeout"] = e.limits["maxTimeout"]
  BY DEF ConflictIsExplained
<1>1. SpecList(Specs) /\ Specs # <<>>
  BY SpecsAreSpecs DEF TypeOK, Specs
<1>2. e.limits["minTimeout"] # Nil /\ e.limits["maxTimeout"] # Nil /\ e.limits["minTimeout"] > e.limits["maxTimeout"]
  BY DEF Conflicting
<1>3. named.minPol \in DOMAIN Specs /\ Specs[named.minPol].limits["minTimeout"] = e.limits["minTimeout"]
  BY <1>1, <1>2, LongestMinimum
<1>4. named.maxPol \in DOMAIN Specs /\ Specs[named.maxPol].limits["maxTimeout"] = e.limits["maxTimeout"]
  BY <1>1, <1>2, ShortestMaximum
<1> HIDE DEF e, named
<1>5. ASSUME named.minPol = named.maxPol PROVE FALSE
  <2> DEFINE p == Specs[named.minPol]
  <2>1. ValidPolicy(p)
    BY <1>1, <1>3 DEF SpecList, ValidList
  <2>2. p.limits["minTimeout"] # Nil /\ p.limits["maxTimeout"] # Nil /\ p.limits["minTimeout"] > p.limits["maxTimeout"]
    BY <1>2, <1>3, <1>4, <1>5
  <2> HIDE DEF p
  <2>3. p.limits["minTimeout"] \in Nat /\ p.limits["maxTimeout"] \in Nat /\ p.limits["minTimeout"] <= p.limits["maxTimeout"]
    BY <2>1, <2>2 DEF ValidPolicy, LimitFields, Ceilings, Limit
  <2>4. QED
    BY <2>2, <2>3
<1>6. QED
  BY <1>3, <1>4, <1>5

-----------------------------------------------------------------------------
(* What is left when the controller has nothing left to do.                *)

LEMMA NamesCount ==
  ASSUME NEW I, I \subseteq DOMAIN AgentNames
  PROVE  /\ IsFiniteSet(I) /\ Cardinality(I) \in Nat
         /\ Cardinality({AgentNames[i] : i \in I}) = Cardinality(I)
<1> DEFINE N == {AgentNames[i] : i \in I}
           f == [i \in I |-> AgentNames[i]]
<1>1. Len(AgentNames) \in Nat /\ DOMAIN AgentNames = 1 .. Len(AgentNames)
  BY PoliciesAssumption
<1>2. IsFiniteSet(I)
  <2>1. 1 \in Int /\ Len(AgentNames) \in Int
    BY <1>1
  <2>2. IsFiniteSet(1 .. Len(AgentNames))
    BY <2>1, FS_Interval
  <2>3. QED
    BY <1>1, <2>2, FS_Subset
<1>3. f \in Bijection(I, N)
  BY PoliciesAssumption DEF Bijection, Injection, Surjection, IsInjective
<1>4. ExistsBijection(I, N)
  BY <1>3 DEF ExistsBijection
<1>5. QED
  BY <1>2, <1>4, FS_Bijection, FS_CardinalityType

CurrentCount == [agents |-> Cardinality(Present), compliant |-> Cardinality(Present \ NonCompliant)]

AgentsJudged ==
  \A n \in Present : /\ agents[n].cond = [version |-> agents[n].version, ok |-> n \notin NonCompliant]
                     /\ agents[n].mark = (n \notin NonCompliant)

\* A pass that nothing has overtaken knows what there is.
Quiet ==
  /\ pc = "idle" => /\ governed <=> policies # <<>>
                    /\ \A i \in DOMAIN policies : policies[i].status = NewStatus(policies, CurrentCount)
                    /\ policies # <<>> => AgentsJudged
  /\ pc \in {"listAgents", "judge", "status"} =>
       policies # <<>> /\ mem.policies = policies /\ mem.effective = MergePolicies(Specs)
  /\ pc = "judge" => mem.agents = agents
  /\ pc = "status" => mem.count = CurrentCount /\ (mem.more \/ AgentsJudged)
  /\ pc \in {"ungovern", "listForCleanup", "strip"} => policies = <<>>
  /\ pc \in {"listForCleanup", "strip"} => ~governed

Kept ==
  /\ ensured => governed
  /\ faults = 0 /\ ~queued => Quiet

\* The batch of a pass without failures: everyone, or a full batch.
LEMMA BatchIsFull ==
  ASSUME Batch({}) # Listed
  PROVE  /\ Cardinality(Batch({})) >= PolicyBatchSize
         /\ Cardinality(Batch({})) < Cardinality(Listed)
<1> DEFINE B == Batch({})
           Left == Listed \ B
           Before(i) == {j \in Listed : j < i}
<1>1. B \subseteq Listed /\ Listed \subseteq DOMAIN AgentNames /\ DOMAIN AgentNames \subseteq Nat
  BY PoliciesAssumption DEF Batch, Listed
<1>2. \A i \in Listed : i \in B <=> Cardinality(Before(i)) < PolicyBatchSize
  <2>1. \A i : Before(i) \ {} = Before(i)
    OBVIOUS
  <2>2. QED
    BY <2>1 DEF Batch
<1> HIDE DEF B
<1>3. Left # {} /\ Left \subseteq Nat
  BY <1>1 DEF B
<1>4. PICK i \in Left : \A j \in Left : i <= j
  BY <1>3, LeastNumber
<1>5. Before(i) \subseteq B
  <2>1. ASSUME NEW j \in Before(i) PROVE j \in B
    <3>1. j \in Listed /\ j \in Nat /\ i \in Nat /\ j < i
      BY <1>1
    <3>2. j \notin Left
      BY <1>4, <3>1
    <3>3. QED
      BY <3>1, <3>2
  <2>2. QED
    BY <2>1
<1>6. Cardinality(Before(i)) >= PolicyBatchSize
  <2>1. Cardinality(Before(i)) \in Nat
    BY <1>1, NamesCount
  <2>2. PolicyBatchSize \in Nat
    BY PoliciesAssumption
  <2>3. QED
    BY <1>2, <2>1, <2>2
<1>7. IsFiniteSet(B) /\ IsFiniteSet(Listed) /\ Cardinality(B) \in Nat /\ Cardinality(Before(i)) \in Nat
  BY <1>1, <1>5, NamesCount
<1>8. Cardinality(Before(i)) <= Cardinality(B)
  BY <1>5, <1>7, FS_Subset
<1>9. Cardinality(B) < Cardinality(Listed)
  <2>1. Cardinality(Listed) \in Nat /\ B # Listed
    BY <1>1, NamesCount DEF B
  <2>2. Cardinality(B) <= Cardinality(Listed) /\ (Cardinality(Listed) = Cardinality(B) => Listed = B)
    BY <1>1, <1>7, FS_Subset
  <2>3. QED
    BY <1>7, <2>1, <2>2
<1>10. QED
  BY <1>6, <1>7, <1>8, <1>9, PoliciesAssumption DEF B

\* Counting the listed agents counts the present ones.
LEMMA CountsAgree ==
  ASSUME TypeOK, mem.agents = agents, mem.effective = MergePolicies(Specs)
  PROVE  /\ Cardinality(Listed) = Cardinality(Present)
         /\ Cardinality({i \in Listed : Complies(mem.agents[AgentNames[i]])}) = Cardinality(Present \ NonCompliant)
<1> DEFINE ok == {i \in Listed : Complies(mem.agents[AgentNames[i]])}
<1>1. Listed \subseteq DOMAIN AgentNames /\ ok \subseteq DOMAIN AgentNames
  BY DEF Listed
<1>2. DOMAIN agents = {AgentNames[i] : i \in DOMAIN AgentNames}
  BY AgentNamesAre DEF ToSet
<1>3. {AgentNames[i] : i \in Listed} = Present
  BY <1>2 DEF Listed, Present
<1>4. {AgentNames[i] : i \in ok} = Present \ NonCompliant
  BY <1>2 DEF Listed, Present, NonCompliant, Complies
<1> HIDE DEF ok
<1>5. Cardinality({AgentNames[i] : i \in Listed}) = Cardinality(Listed)
  BY <1>1, NamesCount
<1>6. Cardinality({AgentNames[i] : i \in ok}) = Cardinality(ok)
  BY <1>1, NamesCount
<1>7. QED
  BY <1>3, <1>4, <1>5, <1>6 DEF ok

\* An agent that the pass leaves as it is was judged by these policies.
LEMMA JudgedIsCurrent ==
  ASSUME TypeOK, mem.effective = MergePolicies(Specs), NEW n \in Present, updateAgentCompliance(agents[n]) = agents[n]
  PROVE  /\ agents[n].cond = [version |-> agents[n].version, ok |-> n \notin NonCompliant]
         /\ agents[n].mark = (n \notin NonCompliant)
<1> DEFINE a == agents[n]
           m == Complies(a)
           c == [version |-> a.version, ok |-> m]
<1>1. AgentRecord(a)
  BY AgentNamesAre DEF TypeOK, Present
<1>2. Marked(a, a, c, m)
  BY DEF updateAgentCompliance, Marked
<1>3. Complies(a) = (n \notin NonCompliant)
  <2>1. Complies(a) <=> n \notin NonCompliant
    BY DEF Complies, NonCompliant
  <2>2. (Complies(a) \in BOOLEAN) /\ ((n \notin NonCompliant) \in BOOLEAN)
    BY Zenon DEF Complies
  <2>3. QED
    BY <2>1, <2>2, Zenon
<1>4. a.cond = c /\ a.mark = m
  <2> HIDE DEF c, m, a
  <2> QED
    BY <1>1, <1>2, MarkAgent
<1>5. c = [version |-> a.version, ok |-> n \notin NonCompliant]
  BY <1>3, Zenon
<1>6. QED
  BY <1>3, <1>4, <1>5, Zenon

LEMMA JudgeKeeps ==
  ASSUME TypeOK, Kept, Judge
  PROVE  Kept'
<1>1. ensured' => governed'
  BY DEF Kept, Judge
<1> SUFFICES ASSUME faults' = 0, ~queued' PROVE Quiet'
  BY <1>1, Zenon DEF Kept
<1> DEFINE w == [n \in DOMAIN agents |-> updateAgentCompliance(agents[n])]
<1>2. PICK broken \in CallFailures, half \in BOOLEAN :
        /\ faults' = faults + Cardinality(broken)
        /\ WriteAgents(w, Batch(broken \cup Changed), broken \cup Changed, half)
        /\ mem' = [mem EXCEPT
             !.count = [agents |-> Cardinality(Listed),
                        compliant |-> Cardinality({i \in Listed : Complies(mem.agents[AgentNames[i]])})],
             !.more = /\ Cardinality(Batch(broken \cup Changed) \ (broken \cup Changed)) >= PolicyBatchSize
                      /\ Cardinality(Batch(broken \cup Changed) \ (broken \cup Changed)) < Cardinality(Listed)]
  BY DEF Judge
<1>3. faults = 0 /\ broken = {}
  BY <1>2, CallFailuresAre DEF TypeOK
<1>4. queued' = (queued \/ (agents' # agents /\ policies # <<>>))
  BY <1>2 DEF WriteAgents
<1>5. Quiet /\ pc = "judge"
  BY <1>3, <1>4 DEF Kept, Judge
<1>6. /\ policies # <<>> /\ mem.policies = policies /\ mem.effective = MergePolicies(Specs) /\ mem.agents = agents
      /\ agents' = agents
  BY <1>4, <1>5 DEF Quiet
<1>7. Changed = {} /\ broken \cup Changed = {}
  BY <1>3, <1>6 DEF Changed
<1>8. /\ policies' = policies /\ pc' = "status" /\ Specs' = Specs /\ Present' = Present /\ NonCompliant' = NonCompliant
      /\ CurrentCount' = CurrentCount
  BY <1>6 DEF Judge, Specs, Present, NonCompliant, CurrentCount
<1>9. \A i \in Batch({}) : updateAgentCompliance(agents[AgentNames[i]]) = agents[AgentNames[i]]
  <2>1. ASSUME NEW i \in Batch({}) PROVE updateAgentCompliance(agents[AgentNames[i]]) = agents[AgentNames[i]]
    <3> DEFINE n == AgentNames[i]
    <3>1. n \in DOMAIN agents
      BY AgentNamesAre DEF ToSet, Batch, Listed
    <3>2. \E j \in Batch(broken \cup Changed) \ (broken \cup Changed) : AgentNames[j] = n
      BY <1>7
    <3>3. agents'[n] = w[n]
      <4> DEFINE of(m, set) == \E j \in set : AgentNames[j] = m
                 failed == broken \cup Changed
                 batch == Batch(failed)
                 half1(m) == [w[m] EXCEPT !.mark = agents[m].mark]
      <4>1. agents' = [m \in DOMAIN agents |->
                   CASE of(m, batch \ failed) -> w[m]
                     [] half /\ of(m, (batch \cap failed) \ Changed) -> half1(m)
                     [] OTHER -> agents[m]]
        BY <1>2 DEF WriteAgents
      <4>2. of(n, batch \ failed) /\ ~of(n, (batch \cap failed) \ Changed)
        BY <1>7, <3>2
      <4> HIDE DEF w, n, of, half1, batch, failed
      <4>3. QED
        BY <3>1, <4>1, <4>2
    <3>4. QED
      BY <1>6, <3>1, <3>3
  <2>2. QED
    BY <2>1
<1>10. Batch({}) = Listed => AgentsJudged
  <2> SUFFICES ASSUME Batch({}) = Listed, NEW n \in Present
               PROVE  /\ agents[n].cond = [version |-> agents[n].version, ok |-> n \notin NonCompliant]
                      /\ agents[n].mark = (n \notin NonCompliant)
    BY DEF AgentsJudged
  <2>1. \E i \in Listed : AgentNames[i] = n
    BY <1>6, AgentNamesAre DEF Listed, Present, ToSet
  <2>2. updateAgentCompliance(agents[n]) = agents[n]
    BY <1>9, <2>1
  <2>3. QED
    BY <1>6, <2>2, JudgedIsCurrent
<1>11. AgentsJudged' = AgentsJudged
  BY <1>6, <1>8 DEF AgentsJudged
<1>12. /\ mem'.policies = mem.policies /\ mem'.effective = mem.effective
       /\ mem'.count = CurrentCount /\ (Batch({}) # Listed => mem'.more)
  <2> DEFINE c == [agents |-> Cardinality(Listed),
                   compliant |-> Cardinality({i \in Listed : Complies(mem.agents[AgentNames[i]])})]
             b == /\ Cardinality(Batch(broken \cup Changed) \ (broken \cup Changed)) >= PolicyBatchSize
                  /\ Cardinality(Batch(broken \cup Changed) \ (broken \cup Changed)) < Cardinality(Listed)
             new == [mem EXCEPT !.count = c, !.more = b]
  <2>1. mem' = new
    BY <1>2
  <2>2. c = CurrentCount
    BY <1>6, CountsAgree DEF CurrentCount
  <2>3. Batch({}) # Listed => b
    <3>1. Batch(broken \cup Changed) \ (broken \cup Changed) = Batch({})
      BY <1>7
    <3>2. QED
      BY <3>1, BatchIsFull
  <2> HIDE DEF c, b
  <2>4. DOMAIN mem = {"policies", "effective", "agents", "count", "more"}
    BY <1>5 DEF TypeOK, MemRecord
  <2>5. new.policies = mem.policies /\ new.effective = mem.effective /\ new.count = c /\ new.more = b
    BY <2>4
  <2> HIDE DEF new
  <2>6. QED
    BY <2>1, <2>2, <2>3, <2>5
<1>13. mem'.more \/ AgentsJudged'
  BY <1>10, <1>11, <1>12
<1> HIDE DEF w
<1>14. QED
  BY <1>6, <1>8, <1>12, <1>13 DEF Quiet

\* What makes work for the controller leaves nothing to show.
LEMMA QueuedKeeps ==
  ASSUME Kept, governed' = governed, ensured' = ensured, queued'
  PROVE  Kept'
BY DEF Kept

LEMMA FaultKeeps ==
  ASSUME TypeOK, Fault, ensured' => governed'
  PROVE  Kept'
BY DEF Kept, Fault, TypeOK

LEMMA AgentEditKeeps ==
  ASSUME TypeOK, Kept, agentToPolicy, UNCHANGED <<policies, governed, ensured, pc, mem, faults>>
  PROVE  Kept'
<1>1. CASE policies # <<>>
  BY <1>1, QueuedKeeps DEF agentToPolicy
<1>2. CASE policies = <<>>
  <2>1. ensured' => governed'
    BY DEF Kept
  <2> SUFFICES ASSUME faults' = 0, ~queued' PROVE Quiet'
    BY <2>1 DEF Kept
  <2>2. Quiet
    BY DEF Kept, agentToPolicy
  <2>3. DOMAIN policies' = {} /\ policies' = <<>>
    BY <1>2
  <2>4. pc' \notin {"listAgents", "judge", "status"}
    BY <1>2, <2>2 DEF Quiet
  <2>5. pc' = "idle" => ~governed'
    BY <1>2, <2>2 DEF Quiet
  <2>6. pc' \in {"listForCleanup", "strip"} => ~governed'
    BY <2>2 DEF Quiet
  <2>7. QED
    BY <2>3, <2>4, <2>5, <2>6 DEF Quiet
<1>3. QED
  BY <1>1, <1>2

LEMMA ListPoliciesKeeps ==
  ASSUME TypeOK, Kept, ListPolicies
  PROVE  Kept'
<1>1. ensured' => governed'
  BY DEF Kept, ListPolicies
<1>2. /\ policies' = policies /\ Specs' = Specs
      /\ mem'.policies = policies /\ mem'.effective = MergePolicies(Specs)
      /\ pc' = IF policies = <<>> THEN "ungovern" ELSE "listAgents"
  BY DEF ListPolicies, Specs
<1>3. Quiet'
  BY <1>2 DEF Quiet
<1>4. QED
  BY <1>1, <1>3 DEF Kept

LEMMA ListAgentsKeeps ==
  ASSUME TypeOK, Kept, ListAgents
  PROVE  Kept'
<1>1. ensured' => governed'
  BY DEF Kept, ListAgents
<1> SUFFICES ASSUME faults = 0, ~queued PROVE Quiet'
  BY <1>1 DEF Kept, ListAgents
<1>2. Quiet
  BY DEF Kept
<1>3. DOMAIN mem = {"policies", "effective", "agents", "count", "more"}
  BY DEF TypeOK, MemRecord, ListAgents
<1>4. mem'.policies = mem.policies /\ mem'.effective = mem.effective /\ mem'.agents = agents
  BY <1>3 DEF ListAgents
<1>5. /\ policies' = policies /\ Specs' = Specs /\ agents' = agents /\ governed' = governed
      /\ \/ pc = "listAgents" /\ pc' = "judge"
         \/ pc = "listForCleanup" /\ pc' = "strip"
  BY DEF ListAgents, Specs
<1>6. CASE pc = "listAgents" /\ pc' = "judge"
  BY <1>2, <1>4, <1>5, <1>6 DEF Quiet
<1>7. CASE pc = "listForCleanup" /\ pc' = "strip"
  BY <1>2, <1>5, <1>7 DEF Quiet
<1>8. QED
  BY <1>5, <1>6, <1>7

\* A stored status that changes nothing was there before.
LEMMA StatusStored ==
  ASSUME TypeOK, mem.policies = policies, updatePolicyStatus({}) = policies, NEW i \in DOMAIN policies
  PROVE  policies[i].status = NewStatus(policies, mem.count)
<1> DEFINE st == NewStatus(mem.policies, mem.count)
           o == policies[i]
<1>1. \E q \in ToSet(mem.policies) : q.version = o.version
  BY DEF ToSet
<1>2. updatePolicyStatus({})[i] = [o EXCEPT !.status = st]
  BY <1>1 DEF updatePolicyStatus
<1>3. o = [version |-> o.version, spec |-> o.spec, status |-> o.status]
  BY DEF TypeOK, StoredPolicies
<1> HIDE DEF st
<1>4. o = [o EXCEPT !.status = st]
  BY <1>2
<1> HIDE DEF o
<1>5. DOMAIN o = {"version", "spec", "status"}
  BY <1>3
<1>6. o.status = st
  BY <1>4, <1>5
<1>7. QED
  BY <1>6 DEF o, st

LEMMA StoreStatusKeeps ==
  ASSUME TypeOK, Kept, NEW works \in BOOLEAN, NEW broken, StoreStatus(works, broken)
  PROVE  Kept'
<1>1. ensured' => governed'
  BY Zenon DEF Kept, StoreStatus, ensurePolicyGovernedLabel
<1>2. CASE ~(works /\ broken = {})
  BY <1>1, <1>2, FaultKeeps DEF StoreStatus
<1>3. CASE works /\ broken = {}
  <2> SUFFICES ASSUME faults = 0, ~queued' PROVE Quiet'
    BY <1>1, <1>3 DEF Kept, StoreStatus
  <2>1. policies' = policies /\ ~mem.more /\ ~queued /\ pc = "status" /\ agents' = agents /\ pc' = "idle"
    BY DEF StoreStatus, PassEnds
  <2>2. Quiet
    BY <2>1 DEF Kept
  <2>3. policies # <<>> /\ mem.policies = policies /\ mem.count = CurrentCount /\ AgentsJudged
    BY <2>1, <2>2 DEF Quiet
  <2>4. updatePolicyStatus({}) = policies
    BY <1>3, <2>1 DEF StoreStatus
  <2>5. \A i \in DOMAIN policies : policies[i].status = NewStatus(policies, CurrentCount)
    BY <2>3, <2>4, StatusStored
  <2>6. governed' = TRUE
    BY <1>3 DEF Kept, StoreStatus, ensurePolicyGovernedLabel, TypeOK
  <2>7. /\ Specs' = Specs /\ Present' = Present /\ NonCompliant' = NonCompliant /\ CurrentCount' = CurrentCount
        /\ AgentsJudged'
    BY <2>1, <2>3 DEF Specs, Present, NonCompliant, CurrentCount, AgentsJudged
  <2>8. QED
    BY <2>1, <2>3, <2>5, <2>6, <2>7 DEF Quiet
<1>4. QED
  BY <1>2, <1>3

LEMMA UngovernKeeps ==
  ASSUME TypeOK, Kept, NEW works \in BOOLEAN, Ungovern(works)
  PROVE  Kept'
<1>1. ~ensured'
  BY DEF Ungovern, removePolicyGovernedLabel
<1>2. CASE ~works
  BY <1>1, <1>2, FaultKeeps DEF Ungovern
<1>3. CASE works
  <2> SUFFICES ASSUME faults = 0, ~queued PROVE Quiet'
    BY <1>1, <1>3 DEF Kept, Ungovern
  <2>1. policies' = <<>> /\ pc' = "listForCleanup" /\ ~governed'
    BY <1>3 DEF Kept, Quiet, Ungovern, removePolicyGovernedLabel
  <2>2. QED
    BY <2>1 DEF Quiet
<1>4. QED
  BY <1>2, <1>3

LEMMA StripKeeps ==
  ASSUME TypeOK, Kept, Strip
  PROVE  Kept'
<1>1. ensured' => governed'
  BY DEF Kept, Strip
<1> SUFFICES ASSUME faults' = 0, ~queued' PROVE Quiet'
  BY <1>1 DEF Kept
<1>2. faults = 0
  <2>1. PICK broken \in CallFailures : faults' = faults + Cardinality(broken)
    BY DEF Strip
  <2>2. QED
    BY <2>1, CallFailuresAre DEF TypeOK
<1>3. ~queued
  <2>1. queued => queued'
    BY DEF Strip, WriteAgents
  <2>2. QED
    BY <2>1
<1>4. policies = <<>> /\ ~governed
  BY <1>2, <1>3 DEF Kept, Quiet, Strip
<1>5. policies' = <<>> /\ DOMAIN policies' = {} /\ ~governed' /\ pc' = "idle"
  BY <1>4 DEF Strip, PassEnds
<1>6. QED
  BY <1>5 DEF Quiet

LEMMA StepKeeps ==
  ASSUME TypeOK, Kept, [Next]_vars
  PROVE  Kept'
<1>1. ASSUME NEW list, PoliciesChange(list) PROVE Kept'
  BY <1>1, QueuedKeeps DEF PoliciesChange
<1>2. ASSUME NEW n, NEW a, NEW listed, ApplyAgent(n, a, listed) PROVE Kept'
  BY <1>2, AgentEditKeeps DEF ApplyAgent
<1>3. ASSUME NEW n, DeleteAgent(n) PROVE Kept'
  BY <1>3, AgentEditKeeps DEF DeleteAgent
<1>4. CASE UNCHANGED <<policies, agents, governed, ensured, queued, pc, mem, faults>>
  BY <1>4 DEF Kept, Quiet, CurrentCount, AgentsJudged, Present, NonCompliant, Specs
<1>5. CASE ListFails
  BY <1>5, FaultKeeps DEF ListFails, Kept
<1>6. CASE Restart
  BY <1>6, FaultKeeps DEF Restart
<1>7. ASSUME NEW t, NEW listed, ApplyTeam(t, listed) PROVE Kept'
  BY <1>4, <1>7 DEF ApplyTeam
<1>8. CASE UNCHANGED vars
  BY <1>4, <1>8 DEF vars
<1>9. ASSUME NEW works \in BOOLEAN, NEW broken, StoreStatus(works, broken) PROVE Kept'
  BY <1>9, StoreStatusKeeps
<1>10. ASSUME NEW works \in BOOLEAN, Ungovern(works) PROVE Kept'
  BY <1>10, UngovernKeeps
<1>11. QED
  BY <1>1, <1>2, <1>3, <1>5, <1>6, <1>7, <1>8, <1>9, <1>10, ListPoliciesKeeps, ListAgentsKeeps, JudgeKeeps, StripKeeps
     DEF Next, AddPolicy, EditPolicy, DeletePolicy

\* The policies that a conflict message names are its cause, and whenever the
\* controller is at rest and no call has failed the namespace's label, the
\* status of every policy and the conditions and labels of the agents are those
\* of the policies and the agents there are, whatever users changed while a
\* pass was under way and however many batches it took.
THEOREM PolicyControllerCatchesUp == Spec => []PolicyStatusIsCurrent
<1>1. Init => TypeOK /\ Admitted /\ Kept
  <2>1. Init => Kept
    BY DEF Init, Kept, Quiet
  <2>2. QED
    BY <2>1, InitAdmits
<1>2. TypeOK /\ Admitted /\ Kept /\ [Next]_vars => TypeOK' /\ Admitted' /\ Kept'
  BY StepAdmits, StepKeeps
<1>3. TypeOK /\ Kept => PolicyStatusIsCurrent
  BY ConflictsAreExplained DEF PolicyStatusIsCurrent, Kept, Quiet, CurrentCount, AgentsJudged
<1>4. QED
  BY <1>1, <1>2, <1>3, PTL DEF Spec
=============================================================================
