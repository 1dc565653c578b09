--------------------------- MODULE PatchCycleProofs ---------------------------
(* Proofs about PatchCycle for every set of hosts, streams and advisories: the  *)
(* records do not depend on the order of the advisories, no exposure is         *)
(* dropped, and a reboot settles what a reboot was asked for.                    *)
EXTENDS PatchCycle, FiniteSetTheorems, TLAPS

-----------------------------------------------------------------------------
(* Least and greatest elements.                                                 *)

LEMMA MinimalSubset ==
    ASSUME NEW S, IsFiniteSet(S), NEW F \in SUBSET (SUBSET S), F # {}
    PROVE  \E x \in F : \A y \in F : y \subseteq x => y = x
<1> DEFINE R == StrictSubsetOrdering(S)
<1>1. IsWellFoundedOn(R, FiniteSubsetsOf(S))
  BY FS_StrictSubsetOrderingWellFounded
<1>2. F \subseteq FiniteSubsetsOf(S)
  BY FS_Subset DEF FiniteSubsetsOf
<1>4. \A x, y \in F : (y \subseteq x /\ y # x) => <<y, x>> \in R
  BY <1>2 DEF StrictSubsetOrdering, FiniteSubsetsOf
<1> HIDE DEF R
<1>3. PICK x \in F : \A y \in F : ~(<<y, x>> \in R)
  BY <1>1, <1>2, WFMin
<1>5. \A y \in F : y \subseteq x => y = x
  BY <1>3, <1>4, Zenon
<1> QED
  BY <1>5, Zenon

LEMMA LeastNat ==
    ASSUME NEW S \in SUBSET Nat, S # {}
    PROVE  \E m \in S : \A n \in S : m <= n
<1>1. PICK b \in S : TRUE
  OBVIOUS
<1> DEFINE D == 0..b
           F == {0..x : x \in {y \in S : y <= b}}
<1>2. IsFiniteSet(D)
  BY <1>1, FS_Interval
<1>3. F \in SUBSET (SUBSET D)
  BY <1>1
<1>4. F # {}
  BY <1>1
<1> HIDE DEF D, F
<1>5. PICK X \in F : \A Y \in F : Y \subseteq X => Y = X
  BY <1>2, <1>3, <1>4, MinimalSubset
<1>6. PICK m \in S : m <= b /\ X = 0..m
  BY <1>5 DEF F
<1>7. ASSUME NEW n \in S, n < m PROVE FALSE
  <2>1. 0..n \in F
    BY <1>6, <1>7 DEF F
  <2>2. 0..n \subseteq X /\ 0..n # X
    <3>1. m \in 0..m /\ ~(m \in 0..n)
      BY <1>6, <1>7
    <3>2. 0..n \subseteq 0..m
      BY <1>6, <1>7
    <3> QED BY <3>1, <3>2, <1>6
  <2> QED
    BY <2>1, <2>2, <1>5
<1> QED
  BY <1>6, <1>7

LEMMA Greatest ==
    ASSUME NEW S, IsFiniteSet(S), S # {}, NEW f \in [S -> Int]
    PROVE  \E m \in S : \A n \in S : f[m] >= f[n]
<1> DEFINE Above(x) == {y \in S : f[y] > f[x]}
           F == {Above(x) : x \in S}
<1>1. F \in SUBSET (SUBSET S)
  OBVIOUS
<1>0. F # {}
  <2>1. PICK x \in S : TRUE
    OBVIOUS
  <2>2. Above(x) \in F
    OBVIOUS
  <2> HIDE DEF F
  <2> QED BY <2>2, Zenon
<1> HIDE DEF F
<1>2. PICK X \in F : \A Y \in F : Y \subseteq X => Y = X
  BY <1>0, <1>1, MinimalSubset
<1>3. PICK m \in S : X = Above(m)
  BY <1>2 DEF F
<1>4. ASSUME NEW n \in S, f[n] > f[m] PROVE FALSE
  <2>1. Above(n) \in F
    BY DEF F
  <2>2. n \in Above(m) /\ ~(n \in Above(n)) /\ Above(n) \subseteq Above(m)
    BY <1>4
  <2> QED
    BY <2>1, <2>2, <1>2, <1>3
<1> QED
  BY <1>4

-----------------------------------------------------------------------------
(* preferDecision is a strict order, total on the decisions of different        *)
(* advisories.                                                                  *)

LEMMA PriorityTypes ==
    /\ \A d : DecisionPriority(d) \in 0..5
    /\ \A s : SeverityPriority(s) \in 0..4
  BY DEF DecisionPriority, SeverityPriority

\* What preferDecision compares is numbers.
Comparable(d) == d.fixed \in Nat /\ d.adv \in Nat

LEMMA PreferAsymmetric ==
    ASSUME NEW d, NEW e, Comparable(d), Comparable(e), PreferDecision(d, e)
    PROVE  ~PreferDecision(e, d)
  BY PriorityTypes DEF PreferDecision, Comparable

LEMMA PreferTransitive ==
    ASSUME NEW d, NEW e, NEW f, Comparable(d), Comparable(e), Comparable(f),
           PreferDecision(d, e), PreferDecision(e, f)
    PROVE  PreferDecision(d, f)
  BY PriorityTypes DEF PreferDecision, Comparable

LEMMA PreferTotal ==
    ASSUME NEW d, NEW e, Comparable(d), Comparable(e), d.adv # e.adv
    PROVE  PreferDecision(d, e) \/ PreferDecision(e, d)
  BY PriorityTypes DEF PreferDecision, Comparable

\* A preferred decision asks for at least as much.
LEMMA PreferAsks ==
    ASSUME NEW d, NEW e, Comparable(d), Comparable(e), PreferDecision(d, e),
           e.action \in {"reboot_host", "restart_service", "update_package", "investigate"}
    PROVE  d.action # "none"
<1>1. DecisionPriority(e) >= 2
  BY DEF DecisionPriority
<1>2. DecisionPriority(d) >= DecisionPriority(e)
  BY PriorityTypes DEF PreferDecision
<1>3. d.action = "none" => DecisionPriority(d) = 1
  BY DEF DecisionPriority
<1> QED
  BY <1>1, <1>2, <1>3, PriorityTypes

-----------------------------------------------------------------------------
(* The pass of collapseSupersededDecisions.                                     *)

\* What is kept after each of the first n advisories.
IsPass(kept, decisions, n) ==
    kept = [i \in 0..n |-> IF i = 0 THEN {} ELSE KeepPreferred(kept[i - 1], decisions[i])]

LEMMA PassExists ==
    ASSUME NEW decisions, NEW n \in Nat
    PROVE  \E kept : IsPass(kept, decisions, n)
<1> DEFINE S == {m \in Nat : ~\E kept : IsPass(kept, decisions, m)}
<1> SUFFICES ASSUME S # {} PROVE FALSE
  OBVIOUS
<1>1. S \in SUBSET Nat
  OBVIOUS
<1> HIDE DEF S
<1>2. PICK m \in S : \A k \in S : m <= k
  BY <1>1, LeastNat
<1>3. m \in Nat /\ ~\E kept : IsPass(kept, decisions, m)
  BY <1>2 DEF S
<1>4. CASE m = 0
  <2>1. IsPass([i \in 0..0 |-> {}], decisions, 0)
    BY DEF IsPass
  <2> QED
    BY <2>1, <1>3, <1>4
<1>5. CASE m > 0
  <2>1. PICK kept : IsPass(kept, decisions, m - 1)
    BY <1>2, <1>3, <1>5 DEF S
  <2> DEFINE more == [i \in 0..m |-> IF i = m THEN KeepPreferred(kept[m - 1], decisions[m]) ELSE kept[i]]
  <2>2. \A i \in 0..m : more[i] = IF i = 0 THEN {} ELSE KeepPreferred(more[i - 1], decisions[i])
    <3>1. \A i \in 0..(m - 1) : kept[i] = IF i = 0 THEN {} ELSE KeepPreferred(kept[i - 1], decisions[i])
      BY <2>1, <1>3, <1>5 DEF IsPass
    <3>2. more[m] = KeepPreferred(more[m - 1], decisions[m])
      BY <1>3, <1>5
    <3>3. ASSUME NEW i \in 0..(m - 1)
          PROVE  more[i] = IF i = 0 THEN {} ELSE KeepPreferred(more[i - 1], decisions[i])
      <4>1. more[i] = kept[i] /\ (i # 0 => more[i - 1] = kept[i - 1])
        BY <1>3, <1>5
      <4> QED
        BY <4>1, <3>1
    <3> HIDE DEF more
    <3> QED
      BY <3>2, <3>3, <1>3, <1>5
  <2>3. IsPass(more, decisions, m)
    BY <2>2, <1>3 DEF IsPass
  <2> QED
    BY <2>3, <1>3
<1> QED
  BY <1>3, <1>4, <1>5

\* The result of the pass is what is kept after the last advisory.
LEMMA CollapseIsPass ==
    ASSUME NEW decisions, Len(decisions) \in Nat
    PROVE  \E kept : /\ IsPass(kept, decisions, Len(decisions))
                     /\ CollapseSupersededDecisions(decisions) = kept[Len(decisions)]
<1> DEFINE n == Len(decisions)
           chosen == CHOOSE kept : IsPass(kept, decisions, n)
<1>1. \E kept : IsPass(kept, decisions, n)
  BY PassExists
<1>2. IsPass(chosen, decisions, n)
  BY <1>1, Zenon
<1>3. CollapseSupersededDecisions(decisions) = chosen[n]
  BY DEF CollapseSupersededDecisions, IsPass
<1> QED
  BY <1>2, <1>3

\* The decisions kept of those made: one per package, preferred to all others about it.
Covers(kept, made) ==
    /\ kept \subseteq made
    /\ \A e \in made : \E k \in kept : k.pkg = e.pkg /\ (k = e \/ PreferDecision(k, e))
    /\ \A k, l \in kept : k.pkg = l.pkg => k = l

\* There is one such set.
LEMMA CoversUnique ==
    ASSUME NEW made, \A d \in made : Comparable(d),
           NEW kept, NEW other, Covers(kept, made), Covers(other, made)
    PROVE  kept \subseteq other
<1> SUFFICES ASSUME NEW k \in kept PROVE k \in other
  OBVIOUS
<1>1. PICK l \in other : l.pkg = k.pkg /\ (l = k \/ PreferDecision(l, k))
  BY DEF Covers
<1>2. PICK m \in kept : m.pkg = l.pkg /\ (m = l \/ PreferDecision(m, l))
  BY DEF Covers
<1>3. m = k
  BY <1>1, <1>2 DEF Covers
<1>4. Comparable(k) /\ Comparable(l)
  BY DEF Covers
<1>5. ~(PreferDecision(l, k) /\ PreferDecision(k, l))
  BY <1>4, PreferAsymmetric
<1> QED
  BY <1>1, <1>2, <1>3, <1>5

\* One advisory more.
LEMMA KeepPreferredCovers ==
    ASSUME NEW kept, NEW made, NEW new, Covers(kept, made),
           \A d \in made \cup new : Comparable(d),
           \A d \in new, e \in made : d.adv # e.adv,
           \A d, e \in new : d.pkg = e.pkg => d = e
    PROVE  Covers(KeepPreferred(kept, new), made \cup new)
<1> DEFINE after == KeepPreferred(kept, new)
<1>0. kept \subseteq made
  BY DEF Covers
<1>1. after \subseteq made \cup new
  BY <1>0 DEF KeepPreferred
<1>2. \A k \in kept : k \in after \/ \E d \in new : d.pkg = k.pkg /\ PreferDecision(d, k)
  BY DEF KeepPreferred
<1>3. \A d \in new : d \in after \/ \E k \in kept : k.pkg = d.pkg /\ ~PreferDecision(d, k)
  BY DEF KeepPreferred
<1>4. \A k \in kept, d \in new : d \in after /\ k \in after /\ k.pkg = d.pkg => k = d
  <2> SUFFICES ASSUME NEW k \in kept, NEW d \in new, d \in after, k \in after, k.pkg = d.pkg, k # d
               PROVE  FALSE
    OBVIOUS
  <2>1. k \notin new
    BY <1>0
  <2>2. d \notin kept
    BY <1>0
  <2>3. ~PreferDecision(d, k)
    BY <2>1 DEF KeepPreferred
  <2>4. PreferDecision(d, k)
    BY <2>2 DEF KeepPreferred
  <2> QED
    BY <2>3, <2>4
<1>5. \A k \in kept, d \in new : d.pkg = k.pkg /\ PreferDecision(d, k) => d \in after
  <2>1. \A k, l \in kept : k.pkg = l.pkg => k = l
    BY DEF Covers
  <2> QED
    BY <2>1 DEF KeepPreferred
<1>6. \A k \in kept, d \in new : d.pkg = k.pkg /\ ~PreferDecision(d, k) => k \in after
  BY DEF KeepPreferred
<1>7. \A k \in kept, d \in new : d.pkg = k.pkg /\ ~PreferDecision(d, k) => PreferDecision(k, d)
  BY <1>0, PreferTotal
<1>8. \A e \in made \cup new : \E k \in after : k.pkg = e.pkg /\ (k = e \/ PreferDecision(k, e))
  <2>1. ASSUME NEW e \in new
        PROVE  \E k \in after : k.pkg = e.pkg /\ (k = e \/ PreferDecision(k, e))
    BY <1>3, <1>6, <1>7
  <2>2. ASSUME NEW e \in made
        PROVE  \E k \in after : k.pkg = e.pkg /\ (k = e \/ PreferDecision(k, e))
    <3>1. PICK k \in kept : k.pkg = e.pkg /\ (k = e \/ PreferDecision(k, e))
      BY DEF Covers
    <3>2. CASE k \in after
      BY <3>1, <3>2
    <3>3. CASE k \notin after
      <4>1. PICK d \in new : d.pkg = k.pkg /\ PreferDecision(d, k)
        BY <1>2, <3>3
      <4>2. d \in after
        BY <4>1, <1>5
      <4>3. PreferDecision(d, e)
        BY <4>1, <3>1, <1>0, PreferTransitive
      <4> QED
        BY <3>1, <4>1, <4>2, <4>3
    <3> QED
      BY <3>2, <3>3
  <2> QED
    BY <2>1, <2>2
<1>9. \A k, l \in after : k.pkg = l.pkg => k = l
  <2>1. after \subseteq kept \cup new
    BY DEF KeepPreferred
  <2> QED
    BY <2>1, <1>4 DEF Covers
<1> HIDE DEF after
<1>10. Covers(after, made \cup new)
  BY <1>1, <1>8, <1>9 DEF Covers
<1> QED
  BY <1>10 DEF after

\* The decisions of different advisories, those of each about different packages.
OfAdvisories(decisions, n) ==
    /\ \A i \in 1..n : \A d \in decisions[i] : Comparable(d)
    /\ \A i, j \in 1..n : i # j => \A d \in decisions[i], e \in decisions[j] : d.adv # e.adv
    /\ \A i \in 1..n : \A d, e \in decisions[i] : d.pkg = e.pkg => d = e

\* The decisions of the first n advisories.
Made(decisions, n) == UNION {decisions[j] : j \in 1..n}

LEMMA PassCovers ==
    ASSUME NEW decisions, NEW n \in Nat, OfAdvisories(decisions, n),
           NEW kept, IsPass(kept, decisions, n)
    PROVE  Covers(kept[n], Made(decisions, n))
<1> DEFINE S == {i \in 0..n : ~Covers(kept[i], Made(decisions, i))}
<1> SUFFICES ASSUME S # {} PROVE FALSE
  OBVIOUS
<1>0. \A i \in 0..n : kept[i] = IF i = 0 THEN {} ELSE KeepPreferred(kept[i - 1], decisions[i])
  BY DEF IsPass
<1>1. S \in SUBSET Nat
  OBVIOUS
<1> HIDE DEF S
<1>2. PICK m \in S : \A k \in S : m <= k
  BY <1>1, LeastNat
<1>3. m \in 0..n /\ ~Covers(kept[m], Made(decisions, m))
  BY <1>2 DEF S
<1>4. CASE m = 0
  <2>1. Made(decisions, m) = {} /\ kept[m] = {}
    BY <1>0, <1>3, <1>4 DEF Made
  <2> QED
    BY <2>1, <1>3 DEF Covers
<1>5. CASE m > 0
  <2>1. Covers(kept[m - 1], Made(decisions, m - 1))
    BY <1>2, <1>3, <1>5 DEF S
  <2>2. kept[m] = KeepPreferred(kept[m - 1], decisions[m])
    BY <1>0, <1>3, <1>5
  <2>3. Made(decisions, m) = Made(decisions, m - 1) \cup decisions[m]
    <3>1. 1..m = 1..(m - 1) \cup {m}
      BY <1>3, <1>5
    <3> QED
      BY <3>1 DEF Made
  <2>4. \A d \in Made(decisions, m - 1) \cup decisions[m] : Comparable(d)
    BY <1>3, <1>5 DEF OfAdvisories, Made
  <2>5. \A d \in decisions[m], e \in Made(decisions, m - 1) : d.adv # e.adv
    BY <1>3, <1>5 DEF OfAdvisories, Made
  <2>6. \A d, e \in decisions[m] : d.pkg = e.pkg => d = e
    BY <1>3, <1>5 DEF OfAdvisories
  <2> QED
    BY <2>1, <2>2, <2>3, <2>4, <2>5, <2>6, <1>3, KeepPreferredCovers
<1> QED
  BY <1>3, <1>4, <1>5

-----------------------------------------------------------------------------
(* The decisions of one advisory.                                               *)

\* The best fix is the build of one of the fixes and none is newer.
LEMMA BestFix ==
    ASSUME NEW fixes, IsFiniteSet(fixes), fixes # {}, \A f \in fixes : f.evr \in Nat
    PROVE  /\ \E f \in fixes : SelectBestFix(fixes) = f.evr
           /\ \A g \in fixes : SelectBestFix(fixes) >= g.evr
<1> DEFINE evr == [f \in fixes |-> f.evr]
           evrs == {f.evr : f \in fixes}
<1>1. evr \in [fixes -> Int]
  OBVIOUS
<1> HIDE DEF evr
<1>2. \E f \in fixes : \A g \in fixes : evr[f] >= evr[g]
  BY <1>1, Greatest
<1>3. \E f \in fixes : \A g \in fixes : f.evr >= g.evr
  BY <1>2 DEF evr
<1>4. \E x \in evrs : \A y \in evrs : x >= y
  BY <1>3
<1> HIDE DEF evrs
<1>5. Max(evrs) \in evrs /\ \A y \in evrs : Max(evrs) >= y
  BY <1>4 DEF Max
<1>6. SelectBestFix(fixes) = Max(evrs)
  BY DEF SelectBestFix, evrs
<1> QED
  BY <1>5, <1>6 DEF evrs

\* What a decision of an advisory about a package says.
SaysOf(d, a, pkg) ==
    /\ d.pkg = pkg /\ d.adv = a.id
    /\ d.fixed \in {NoEVR} \cup FixedBuilds({a})
    /\ d.action = "update_package" => d.fixed \in FixedBuilds({a})
    /\ d.action \in {"reboot_host", "update_package", "investigate", "none"}
    /\ d.status = "fixed_package_installed_pending_activation" => d.action = "reboot_host"
    /\ d.status = "resolved" <=> d.action = "none"
    /\ d.security = a.security

LEMMA FixDecisionSays ==
    ASSUME NEW snapshot, NEW a, NEW pkg, NEW fixed \in FixedBuilds({a})
    PROVE  \A d \in FixDecision(snapshot, a, pkg, fixed) :
              /\ SaysOf(d, a, pkg)
              /\ \A e \in FixDecision(snapshot, a, pkg, fixed) : d = e
  BY DEF FixDecision, NewDecisionRecord, SaysOf

LEMMA PackageDecisionSays ==
    ASSUME NEW snapshot, NEW a \in Advisories, NEW pkg, NEW streams
    PROVE  \A d \in PackageDecision(snapshot, a, pkg, streams) :
              /\ SaysOf(d, a, pkg)
              /\ \A e \in PackageDecision(snapshot, a, pkg, streams) : d = e
<1> DEFINE relevantFixes == OfArch(ForPackage(a.fixes, pkg, streams), pkg, snapshot.family)
           decided == PackageDecision(snapshot, a, pkg, streams)
           unfixed(status) == NewDecisionRecord(a, pkg, status, "investigate", NoEVR)
<1>1. \A F \in SUBSET relevantFixes : F # {} => SelectBestFix(F) \in FixedBuilds({a})
  <2> SUFFICES ASSUME NEW F \in SUBSET relevantFixes, F # {}
               PROVE  SelectBestFix(F) \in FixedBuilds({a})
    OBVIOUS
  <2>1. F \subseteq a.fixes
    BY DEF OfArch, ForPackage
  <2>2. IsFiniteSet(F) /\ \A f \in F : f.evr \in Nat
    BY <2>1, FS_Subset, AdvisoriesAssumption
  <2> QED
    BY <2>1, <2>2, BestFix DEF FixedBuilds
<1>2. \/ decided = {}
      \/ \E F \in SUBSET relevantFixes : F # {} /\ decided = FixDecision(snapshot, a, pkg, SelectBestFix(F))
      \/ decided = {unfixed("unknown")}
      \/ decided = {unfixed("affected_no_fix")}
  BY DEF PackageDecision
<1>3. SaysOf(unfixed("unknown"), a, pkg) /\ SaysOf(unfixed("affected_no_fix"), a, pkg)
  BY DEF SaysOf, NewDecisionRecord
<1> HIDE DEF relevantFixes, decided, unfixed
<1>4. \A d \in decided : SaysOf(d, a, pkg) /\ \A e \in decided : d = e
  BY <1>1, <1>2, <1>3, FixDecisionSays
<1> QED
  BY <1>4 DEF decided

LEMMA AdvisoryDecisionsSay ==
    ASSUME NEW snapshot, NEW a \in Advisories, NEW streams
    PROVE  \A d \in AdvisoryDecisions(snapshot, a, streams) :
              /\ d.pkg \in snapshot.packages
              /\ d \in PackageDecision(snapshot, a, d.pkg, streams)
              /\ SaysOf(d, a, d.pkg)
              /\ \A e \in AdvisoryDecisions(snapshot, a, streams) : d.pkg = e.pkg => d = e
<1>1. ASSUME NEW d \in AdvisoryDecisions(snapshot, a, streams)
      PROVE  /\ d.pkg \in snapshot.packages
             /\ d \in PackageDecision(snapshot, a, d.pkg, streams)
             /\ SaysOf(d, a, d.pkg)
  <2>1. PICK p \in snapshot.packages : d \in PackageDecision(snapshot, a, p, streams)
    BY DEF AdvisoryDecisions, CandidatePackages
  <2>2. SaysOf(d, a, p)
    BY <2>1, PackageDecisionSays
  <2>3. d.pkg = p
    BY <2>2 DEF SaysOf
  <2> QED
    BY <2>1, <2>2, <2>3
<1>2. \A d, e \in AdvisoryDecisions(snapshot, a, streams) : d.pkg = e.pkg => d = e
  BY <1>1, PackageDecisionSays
<1> QED
  BY <1>1, <1>2

-----------------------------------------------------------------------------
(* The decisions of all advisories, in any order.                               *)

LEMMA OrderFacts ==
    ASSUME NEW S, IsFiniteSet(S), NEW order \in SetToSeqs(S)
    PROVE  /\ Cardinality(S) \in Nat
           /\ order \in [1..Cardinality(S) -> S]
           /\ \A i, j \in 1..Cardinality(S) : i # j => order[i] # order[j]
           /\ \A x \in S : \E i \in 1..Cardinality(S) : order[i] = x
<1> DEFINE n == Cardinality(S)
           D == 1..n
<1>1. n \in Nat
  BY FS_CardinalityType
<1>2. order \in [D -> S] /\ \A i, j \in D : i # j => order[i] # order[j]
  BY DEF SetToSeqs
<1>3. IsFiniteSet(D) /\ Cardinality(D) = Cardinality(S)
  BY <1>1, FS_Interval
<1> HIDE DEF D
<1>4. order \in Injection(D, S)
  BY <1>2 DEF Injection, IsInjective
<1>5. order \in Surjection(D, S)
  BY <1>3, <1>4, FS_Injection
<1> QED
  BY <1>1, <1>2, <1>5 DEF D, Surjection

LEMMA OrderExists ==
    ASSUME NEW S, IsFiniteSet(S)
    PROVE  \E order : order \in SetToSeqs(S)
<1> DEFINE D == 1..Cardinality(S)
<1>1. ExistsBijection(D, S)
  BY FS_CardinalityType
<1>2. PICK order \in [D -> S] : \A i, j \in D : i # j => order[i] # order[j]
  BY <1>1 DEF ExistsBijection, Bijection, Injection, IsInjective
<1> QED
  BY <1>2 DEF SetToSeqs

AllDecisions(snapshot, advisories, streams) ==
    UNION {AdvisoryDecisions(snapshot, a, streams) : a \in advisories}

\* Whatever the order, one decision per package is kept, preferred to all others about it.
LEMMA BuildDecisionsCover ==
    ASSUME NEW snapshot, NEW advisories \in SUBSET Advisories, IsFiniteSet(advisories), NEW streams,
           NEW built \in BuildDecisions(snapshot, advisories, streams)
    PROVE  Covers(built, AllDecisions(snapshot, advisories, streams))
<1> DEFINE of == [a \in advisories |-> AdvisoryDecisions(snapshot, a, streams)]
           some == {a \in advisories : of[a] # {}}
<1>1. IsFiniteSet(some)
  BY FS_Subset
<1>2. PICK order \in SetToSeqs(some) :
         built = CollapseSupersededDecisions([i \in DOMAIN order |-> of[order[i]]])
  BY DEF BuildDecisions
<1> DEFINE n == Cardinality(some)
           decisions == [i \in DOMAIN order |-> of[order[i]]]
<1>3. /\ n \in Nat
      /\ order \in [1..n -> some]
      /\ \A i, j \in 1..n : i # j => order[i] # order[j]
      /\ \A x \in some : \E i \in 1..n : order[i] = x
  <2> HIDE DEF some
  <2> QED
    BY <1>1, <1>2, OrderFacts
<1> HIDE DEF n
<1>4. Len(decisions) = n
  BY <1>3
<1>5. \A i \in 1..n : /\ order[i] \in Advisories
                      /\ decisions[i] = AdvisoryDecisions(snapshot, order[i], streams)
  BY <1>3
<1>6. OfAdvisories(decisions, n)
  <2> HIDE DEF decisions
  <2>1. ASSUME NEW i \in 1..n, NEW d \in decisions[i]
        PROVE  SaysOf(d, order[i], d.pkg) /\ \A e \in decisions[i] : d.pkg = e.pkg => d = e
    <3>1. PICK a \in Advisories : a = order[i] /\ decisions[i] = AdvisoryDecisions(snapshot, a, streams)
      BY <1>5
    <3>2. d \in AdvisoryDecisions(snapshot, a, streams)
      BY <3>1
    <3>3. SaysOf(d, a, d.pkg)
      BY <3>2, AdvisoryDecisionsSay, Zenon
    <3>4. \A e \in AdvisoryDecisions(snapshot, a, streams) : d.pkg = e.pkg => d = e
      BY <3>2, AdvisoryDecisionsSay, Zenon
    <3> QED
      BY <3>1, <3>3, <3>4
  <2>2. ASSUME NEW i \in 1..n, NEW d \in decisions[i]
        PROVE  Comparable(d) /\ d.adv = order[i].id
    <3>1. SaysOf(d, order[i], d.pkg)
      BY <2>1
    <3>2. FixedBuilds({order[i]}) \subseteq Nat /\ order[i].id \in Nat
      BY <1>5, AdvisoriesAssumption DEF FixedBuilds
    <3> QED
      BY <3>1, <3>2 DEF SaysOf, Comparable, NoEVR
  <2>3. \A i, j \in 1..n : i # j => order[i].id # order[j].id
    BY <1>3, <1>5, AdvisoriesAssumption
  <2> QED
    BY <2>1, <2>2, <2>3 DEF OfAdvisories
<1>7. Made(decisions, n) = AllDecisions(snapshot, advisories, streams)
  <2>1. \A i \in 1..n : decisions[i] \subseteq AllDecisions(snapshot, advisories, streams)
    BY <1>3, <1>5 DEF AllDecisions
  <2>2. ASSUME NEW a \in advisories, NEW d \in AdvisoryDecisions(snapshot, a, streams)
        PROVE  \E i \in 1..n : d \in decisions[i]
    <3>1. a \in some
      OBVIOUS
    <3>2. PICK i \in 1..n : order[i] = a
      BY <3>1, <1>3
    <3> QED
      BY <3>2, <1>5
  <2> HIDE DEF decisions
  <2> QED
    BY <2>1, <2>2 DEF Made, AllDecisions
<1>8. built = CollapseSupersededDecisions(decisions)
  BY <1>2
<1> HIDE DEF decisions
<1>9. PICK kept : IsPass(kept, decisions, n) /\ built = kept[n]
  BY <1>3, <1>4, <1>8, CollapseIsPass
<1> QED
  BY <1>3, <1>6, <1>7, <1>9, PassCovers

LEMMA AllComparable ==
    ASSUME NEW snapshot, NEW advisories \in SUBSET Advisories, NEW streams
    PROVE  \A d \in AllDecisions(snapshot, advisories, streams) :
              /\ Comparable(d)
              /\ d.action = "update_package" => d.fixed \in FixedBuilds(Advisories)
              /\ d.action \in {"reboot_host", "update_package", "investigate", "none"}
<1> SUFFICES ASSUME NEW d \in AllDecisions(snapshot, advisories, streams)
             PROVE  /\ Comparable(d)
                    /\ d.action = "update_package" => d.fixed \in FixedBuilds(Advisories)
                    /\ d.action \in {"reboot_host", "update_package", "investigate", "none"}
  OBVIOUS
<1>1. PICK a \in advisories : d \in AdvisoryDecisions(snapshot, a, streams)
  BY DEF AllDecisions
<1>2. SaysOf(d, a, d.pkg)
  BY <1>1, AdvisoryDecisionsSay
<1>3. FixedBuilds({a}) \subseteq Nat /\ FixedBuilds({a}) \subseteq FixedBuilds(Advisories) /\ a.id \in Nat
  BY AdvisoriesAssumption DEF FixedBuilds
<1> QED
  BY <1>2, <1>3 DEF SaysOf, Comparable, NoEVR

LEMMA BuildDecisionsOne ==
    ASSUME NEW snapshot, NEW advisories \in SUBSET Advisories, IsFiniteSet(advisories), NEW streams,
           NEW built \in BuildDecisions(snapshot, advisories, streams)
    PROVE  BuildDecisions(snapshot, advisories, streams) = {built}
<1>1. ASSUME NEW other \in BuildDecisions(snapshot, advisories, streams)
      PROVE  other = built
  <2>1. Covers(built, AllDecisions(snapshot, advisories, streams))
    BY BuildDecisionsCover
  <2>2. Covers(other, AllDecisions(snapshot, advisories, streams))
    BY BuildDecisionsCover
  <2>3. built \subseteq other
    BY <2>1, <2>2, AllComparable, CoversUnique
  <2>4. other \subseteq built
    BY <2>1, <2>2, AllComparable, CoversUnique
  <2> QED
    BY <2>3, <2>4
<1> QED
  BY <1>1

-----------------------------------------------------------------------------
(* The inductive invariant.                                                     *)

\* The streams of a host do not depend on its packages or its kernel.
LEMMA SameStreams ==
    ASSUME NEW g, NEW h, g.family = h.family, g.osName = h.osName, g.major = h.major,
           g.arch = h.arch, g.repos = h.repos
    PROVE  ResolveProductStreams(g, g.repos, Streams) = ResolveProductStreams(h, h.repos, Streams)
  BY DEF ResolveProductStreams, MatchesHostDistro

LEMMA NoKernels ==
    ASSUME NEW family
    PROVE  KernelsOK(family, {})
  BY FS_EmptySet DEF KernelsOK, APTImages, Images

\* A new build of a versioned kernel package has the name of its ABI.
LEMMA BuildOfFacts ==
    ASSUME NEW q \in Package, IsVersionedKernelPackageAPT(q.name), NEW evr \in FixedBuilds(Advisories)
    PROVE  /\ BuildOf(q, evr) \in Package
           /\ BuildOf(q, evr).evr = evr
           /\ Parts[BuildOf(q, evr).name].base = Parts[q.name].base
           /\ Parts[BuildOf(q, evr).name].flavor = Parts[q.name].flavor
           /\ Parts[BuildOf(q, evr).name].abi = evr \div 10
<1> DEFINE p == Parts[q.name]
           n == CHOOSE m \in DOMAIN Parts : Parts[m] = [p EXCEPT !.abi = evr \div 10]
<1>1. evr \in Nat \ {NoEVR}
  BY AdvisoriesAssumption DEF FixedBuilds
<1>2. q.name \in DOMAIN Parts
  BY DEF Package
<1>3. p \in [base : STRING, abi : Nat, flavor : Flavors]
  BY <1>2, PartsAssumption
<1>4. n \in DOMAIN Parts /\ Parts[n] = [p EXCEPT !.abi = evr \div 10]
  BY <1>2, AdvisoriesAssumption
<1>5. BuildOf(q, evr) = [q EXCEPT !.evr = evr, !.name = n]
  BY DEF BuildOf
<1> HIDE DEF n, p
<1>6. Parts[n].base = p.base /\ Parts[n].flavor = p.flavor /\ Parts[n].abi = evr \div 10
  BY <1>3, <1>4
<1>7. BuildOf(q, evr) \in Package /\ BuildOf(q, evr).evr = evr /\ BuildOf(q, evr).name = n
  BY <1>1, <1>4, <1>5 DEF Package
<1> QED
  BY <1>6, <1>7 DEF p

\* An update leaves the packages in order.
LEMMA InstalledOK ==
    ASSUME NEW family, NEW packages \in SUBSET Package, KernelsOK(family, packages),
           NEW pkg \in packages, NEW evr \in FixedBuilds(Advisories)
    PROVE  /\ Installed(packages, pkg, evr) \subseteq Package
           /\ KernelsOK(family, Installed(packages, pkg, evr))
<1> DEFINE p == Parts[pkg.name]
           alone == [pkg EXCEPT !.evr = evr]
           after == Installed(packages, pkg, evr)
<1>1. evr \in Nat \ {NoEVR}
  BY AdvisoriesAssumption DEF FixedBuilds
<1>2. alone \in Package /\ alone.name = pkg.name
  BY <1>1 DEF Package
<1>3. IsFiniteSet(packages)
  BY DEF KernelsOK
<1>4. CASE p.base = "kernel" \/ ~IsVersionedKernelPackageAPT(pkg.name)
  <2>1. after = packages \cup {alone} \/ after = (packages \ {pkg}) \cup {alone}
    BY <1>4 DEF Installed
  <2>0. ~(p.base = "linux-image-" /\ p.abi > 0)
    BY <1>4 DEF IsVersionedKernelPackageAPT, IsKernelPackageAPT
  <2> HIDE DEF after, alone
  <2>2. after \subseteq Package
    BY <2>1, <1>2
  <2>3. IsFiniteSet(after)
    <3>1. IsFiniteSet(packages \ {pkg})
      BY <1>3, FS_RemoveElement
    <3>2. IsFiniteSet(packages \cup {alone}) /\ IsFiniteSet((packages \ {pkg}) \cup {alone})
      BY <3>1, <1>3, FS_AddElement
    <3> QED
      BY <3>2, <2>1
  <2>4. APTImages(after) \subseteq APTImages(packages)
    <3> SUFFICES ASSUME NEW q \in after, q \in APTImages(after) PROVE q \in APTImages(packages)
      BY DEF APTImages, Images
    <3>1. q # alone
      BY <1>2, <2>0 DEF APTImages, Images
    <3> QED
      BY <3>1, <2>1 DEF APTImages, Images
  <2>5. KernelsOK(family, after)
    <3>1. \A q \in after : \E r \in packages : r.name = q.name
      BY <2>1, <1>2
    <3>2. \A q \in Images(after) : \E r \in Images(packages) : r.name = q.name
      BY <3>1 DEF Images
    <3> QED
      BY <2>3, <2>4, <3>2 DEF KernelsOK
  <2> QED
    BY <2>2, <2>5 DEF after
<1>5. CASE ~(p.base = "kernel" \/ ~IsVersionedKernelPackageAPT(pkg.name))
  <2> DEFINE kernel == {q \in packages : /\ IsVersionedKernelPackageAPT(q.name)
                                         /\ Parts[q.name].abi = p.abi
                                         /\ Parts[q.name].flavor = p.flavor}
             new == {BuildOf(q, evr) : q \in kernel}
             old == {q \in packages : \A r \in new : q.name # r.name}
  <2>1. after = old \cup new
    BY <1>5 DEF Installed
  <2>2. \A q \in kernel : q \in packages /\ q \in Package /\ IsVersionedKernelPackageAPT(q.name)
    OBVIOUS
  <2>3. \A q \in kernel : Parts[q.name].abi = p.abi /\ Parts[q.name].flavor = p.flavor
    OBVIOUS
  <2>4. IsFiniteSet(new)
    <3>1. IsFiniteSet(kernel)
      BY <1>3, FS_Subset
    <3> HIDE DEF kernel
    <3> DEFINE build == [q \in kernel |-> BuildOf(q, evr)]
    <3>2. build \in Surjection(kernel, new)
      BY DEF Surjection
    <3> HIDE DEF build, new
    <3> QED
      BY <3>1, <3>2, FS_Surjection
  <2>5. \A r \in new : \E q \in kernel : r = BuildOf(q, evr)
    OBVIOUS
  <2>6. old \subseteq packages /\ \A q \in old, r \in new : q.name # r.name
    OBVIOUS
  <2> HIDE DEF after, kernel, new, old
  <2>7. after \subseteq Package
    <3>1. new \subseteq Package
      BY <2>2, <2>5, BuildOfFacts
    <3> QED
      BY <3>1, <2>1, <2>6
  <2>8. IsFiniteSet(after)
    <3>1. IsFiniteSet(old)
      BY <1>3, <2>6, FS_Subset
    <3> QED
      BY <3>1, <2>1, <2>4, FS_Union
  \* A new image comes from an image that is there.
  <2>9. ASSUME NEW r \in new, r \in Images(after)
        PROVE  /\ Parts[r.name].base = "linux-image-" /\ Parts[r.name].abi = evr \div 10 /\ r.evr = evr
               /\ \E q \in APTImages(packages) : q \in kernel /\ r = BuildOf(q, evr)
    <3>1. PICK q \in kernel : r = BuildOf(q, evr)
      BY <2>5
    <3>2. /\ Parts[r.name].base = Parts[q.name].base /\ Parts[r.name].abi = evr \div 10
          /\ r.evr = evr
      BY <3>1, <2>2, BuildOfFacts
    <3>3. Parts[q.name].base # "kernel" /\ Parts[q.name].abi > 0
      BY <2>2 DEF IsVersionedKernelPackageAPT, IsKernelPackageAPT
    <3>4. Parts[r.name].base = "linux-image-"
      BY <2>9, <3>2, <3>3 DEF Images
    <3>5. q \in APTImages(packages)
      BY <2>2, <3>2, <3>3, <3>4 DEF APTImages, Images
    <3> QED
      BY <3>1, <3>2, <3>4, <3>5
  <2>10. \A r, s \in new : r \in Images(after) /\ s \in Images(after) => r = s
    <3> SUFFICES ASSUME NEW r \in new, NEW s \in new, r \in Images(after), s \in Images(after)
                 PROVE  r = s
      OBVIOUS
    <3>1. PICK q \in APTImages(packages) : q \in kernel /\ r = BuildOf(q, evr)
      BY <2>9
    <3>2. PICK t \in APTImages(packages) : t \in kernel /\ s = BuildOf(t, evr)
      BY <2>9
    <3>3. q \in packages /\ t \in packages /\ q.name \in DOMAIN Parts /\ t.name \in DOMAIN Parts
      BY <3>1, <3>2, <2>2 DEF Package
    <3>4. /\ Parts[q.name].base = Parts[t.name].base /\ Parts[q.name].abi = Parts[t.name].abi
          /\ Parts[q.name].flavor = Parts[t.name].flavor
      BY <3>1, <3>2, <2>3 DEF APTImages
    <3>5. Parts[q.name] = Parts[t.name] /\ Parts[q.name].base = "linux-image-" /\ Parts[q.name].abi > 0
      BY <3>1, <3>3, <3>4, PartsAssumption DEF APTImages, Images
    <3>6. q.name = t.name
      BY <3>3, <3>5, PartsAssumption
    <3>7. q = t
      BY <3>1, <3>2, <3>6 DEF KernelsOK
    <3> QED
      BY <3>1, <3>2, <3>7
  <2>11. \A q \in Images(after) : q \in new \/ (q \in old /\ q \in Images(packages))
    BY <2>1, <2>6 DEF Images
  <2>12. \A q \in Images(after) : Parts[q.name].base = "linux-image-" <=> family = "apt"
    <3> SUFFICES ASSUME NEW q \in Images(after) PROVE Parts[q.name].base = "linux-image-" <=> family = "apt"
      OBVIOUS
    <3>1. CASE q \in new
      <4>1. Parts[q.name].base = "linux-image-" /\ APTImages(packages) # {}
        BY <3>1, <2>9
      <4>2. family = "apt"
        BY <4>1 DEF KernelsOK, APTImages
      <4> QED
        BY <4>1, <4>2
    <3>2. CASE q \in Images(packages)
      BY <3>2 DEF KernelsOK
    <3> QED
      BY <3>1, <3>2, <2>11
  <2>13. \A q, r \in APTImages(after) : (q.name = r.name => q = r) /\ Parts[q.name].abi = q.evr \div 10
    <3> SUFFICES ASSUME NEW q \in APTImages(after), NEW r \in APTImages(after)
                 PROVE  (q.name = r.name => q = r) /\ Parts[q.name].abi = q.evr \div 10
      OBVIOUS
    <3>1. q \in Images(after) /\ r \in Images(after)
      BY DEF APTImages
    <3>2. q \notin new => q \in APTImages(packages) /\ q \in old
      BY <3>1, <2>11 DEF APTImages
    <3>3. r \notin new => r \in APTImages(packages) /\ r \in old
      BY <3>1, <2>11 DEF APTImages
    <3>4. Parts[q.name].abi = q.evr \div 10
      <4>1. CASE q \in new
        BY <4>1, <3>1, <2>9
      <4>2. CASE q \notin new
        BY <4>2, <3>2 DEF KernelsOK
      <4> QED
        BY <4>1, <4>2
    <3>5. q.name = r.name => q = r
      <4>1. CASE q \in new /\ r \in new
        BY <4>1, <3>1, <2>10
      <4>2. CASE q \notin new /\ r \notin new
        BY <4>2, <3>2, <3>3 DEF KernelsOK
      <4> QED
        BY <4>1, <4>2, <3>2, <3>3, <2>6
    <3> QED
      BY <3>4, <3>5
  <2>14. KernelsOK(family, after)
    BY <2>8, <2>12, <2>13 DEF KernelsOK
  <2> QED
    BY <2>7, <2>14 DEF after
<1> QED
  BY <1>4, <1>5

\* The kernel that runs after a boot is the newest.
NewestImage(packages) == CHOOSE q \in Images(packages) : \A r \in Images(packages) : q.evr >= r.evr

LEMMA NewestImageFacts ==
    ASSUME NEW packages \in SUBSET Package, IsFiniteSet(packages), Images(packages) # {}
    PROVE  /\ NewestImage(packages) \in Images(packages)
           /\ \A r \in Images(packages) : NewestImage(packages).evr >= r.evr
<1> DEFINE S == Images(packages)
           evr == [q \in S |-> q.evr]
<1>1. S \subseteq packages
  BY DEF Images
<1>2. evr \in [S -> Int]
  BY <1>1 DEF Package
<1>3. IsFiniteSet(S) /\ S # {}
  BY <1>1, FS_Subset
<1> HIDE DEF S, evr
<1>4. \E q \in S : \A r \in S : evr[q] >= evr[r]
  BY <1>2, <1>3, Greatest
<1>5. \E q \in S : \A r \in S : q.evr >= r.evr
  BY <1>4 DEF evr
<1> QED
  BY <1>5 DEF NewestImage, S

LEMMA RunningAfterBootType ==
    ASSUME HostOK, Images(host.packages) # {}
    PROVE  RunningAfterBoot(host.packages) \in Running
<1>1. NewestImage(host.packages) \in Images(host.packages)
  BY NewestImageFacts DEF HostOK, Host, KernelsOK
<1>2. PICK p \in Package : p = NewestImage(host.packages)
  BY <1>1 DEF HostOK, Host, Images
<1>3. RunningAfterBoot(host.packages) = [abi |-> Parts[p.name].abi, flavor |-> Parts[p.name].flavor,
                                         evr |-> IF host.family = "rpm" THEN p.evr ELSE NoEVR]
  BY <1>2 DEF RunningAfterBoot, NewestImage
<1>4. p.name \in DOMAIN Parts /\ p.evr \in Nat
  BY DEF Package
<1>5. Parts[p.name].abi \in Nat /\ Parts[p.name].flavor \in Flavors
  BY <1>4, PartsAssumption
<1> QED
  BY <1>3, <1>4, <1>5 DEF Running, NoEVR

LEMMA InitOK == Init => PatchInv
<1> SUFFICES ASSUME Init PROVE PatchInv
  OBVIOUS
<1>1. HostOK
  BY HostsAssumption DEF Init, HostOK
<1>2. SnapOK
  <2>1. NoText \in Flavors
    BY DEF Flavors
  <2>2. KernelsOK(snap.family, snap.packages)
    BY NoKernels DEF Init, NoSnap
  <2> QED
    BY <2>1, <2>2 DEF Init, NoSnap, SnapOK, Running, NoEVR
<1>3. PublishedOK /\ RowsOK
  BY FS_EmptySet DEF Init, PublishedOK, RowsOK
<1>4. RowsFresh
  BY DEF Init, RowsFresh, Matched, Reported, NoSnap
<1> QED
  BY <1>1, <1>2, <1>3, <1>4 DEF PatchInv, Init

LEMMA MatchSnapshotOK ==
    ASSUME PatchInv, MatchSnapshot
    PROVE  PatchInv'
<1> USE DEF PatchInv
<1>1. UNCHANGED <<host, published, snap>> /\ due' = FALSE
  BY DEF MatchSnapshot
<1>2. Resolved' = Resolved
  BY <1>1 DEF Resolved
<1>3. HostOK' /\ SnapOK' /\ PublishedOK'
  BY <1>1 DEF HostOK, SnapOK, PublishedOK, Reported
<1>4. \/ rows' = {} /\ Resolved = {}
      \/ rows' = rows /\ MatchFails(snap, published, Resolved)
      \/ rows' \in BuildDecisions(snap, published, Resolved) /\ overall' = OverallAction(rows')
  BY DEF MatchSnapshot
<1>5. RowsOK'
  <2>1. CASE rows' \in BuildDecisions(snap, published, Resolved)
    <3>1. rows' \subseteq AllDecisions(snap, published, Resolved)
      BY <2>1, BuildDecisionsCover DEF Covers, PublishedOK
    <3> QED
      BY <3>1, AllComparable DEF RowsOK, PublishedOK
  <2> QED
    BY <1>4, <2>1 DEF RowsOK
<1>6. RowsFresh'
  BY <1>1, <1>2, <1>4 DEF RowsFresh, Matched
<1> QED
  BY <1>1, <1>3, <1>5, <1>6

LEMMA PublishOK ==
    ASSUME PatchInv, NEW adv \in Advisories, Publish(adv)
    PROVE  PatchInv'
<1> USE DEF PatchInv, Publish
<1>1. HostOK' /\ SnapOK' /\ RowsOK'
  BY DEF HostOK, SnapOK, RowsOK, Reported
<1>2. PublishedOK'
  BY FS_AddElement DEF PublishedOK
<1>3. RowsFresh'
  BY DEF RowsFresh, Matched, Reported
<1> QED
  BY <1>1, <1>2, <1>3 DEF Reported

LEMMA ReportOK ==
    ASSUME PatchInv, NEW via, NEW fails \in BOOLEAN, Report(via, fails)
    PROVE  PatchInv'
<1> USE DEF PatchInv
<1>1. UNCHANGED <<host, published, rows>> /\ due' = TRUE
  BY DEF Report
<1>2. HostOK' /\ PublishedOK' /\ RowsOK' /\ RowsFresh'
  BY <1>1 DEF HostOK, PublishedOK, RowsOK, RowsFresh, Matched
<1>3. SnapOK'
  <2> DEFINE packages == IF fails THEN {} ELSE host.packages
  <2>1. snap' = [family |-> host.family, packages |-> packages, running |-> host.running, whole |-> ~fails]
    BY DEF Report
  <2>2. packages \subseteq Package /\ KernelsOK(host.family, packages)
    BY NoKernels DEF HostOK, Host
  <2>3. host.family \in {"rpm", "apt"} /\ host.running \in Running
    BY DEF HostOK, Host
  <2> HIDE DEF packages
  <2> QED
    BY <2>1, <2>2, <2>3 DEF SnapOK
<1> QED
  BY <1>1, <1>2, <1>3

\* A change of the host's packages or kernel changes no record and no stream.
LEMMA HostChangeOK ==
    ASSUME PatchInv, HostOK', host'.family = host.family, host'.osName = host.osName,
           host'.major = host.major, host'.arch = host.arch, host'.repos = host.repos,
           UNCHANGED <<published, snap, rows, overall, due, broken>>
    PROVE  PatchInv'
<1> USE DEF PatchInv
<1>1. Resolved' = Resolved
  <2>1. ResolveProductStreams(host', host'.repos, Streams) = ResolveProductStreams(host, host.repos, Streams)
    BY SameStreams
  <2> QED
    BY <2>1 DEF Resolved
<1>2. SnapOK' /\ PublishedOK' /\ RowsOK'
  BY DEF SnapOK, PublishedOK, RowsOK, Reported
<1>3. RowsFresh'
  BY <1>1 DEF RowsFresh, Matched, Reported
<1> QED
  BY <1>2, <1>3

LEMMA UpdateOK ==
    ASSUME PatchInv, NEW row \in rows, Update(row)
    PROVE  PatchInv'
<1> DEFINE after == Installed(host.packages, row.pkg, row.fixed)
<1>1. host \in Host /\ KernelsOK(host.family, host.packages) /\ row.pkg \in host.packages
  BY DEF PatchInv, HostOK, Update
<1>2. row.fixed \in FixedBuilds(Advisories)
  BY DEF PatchInv, RowsOK, Update
<1>3. host.packages \in SUBSET Package
  BY <1>1 DEF Host
<1>4. after \subseteq Package /\ KernelsOK(host.family, after)
  BY <1>1, <1>2, <1>3, InstalledOK
<1>5. host' = [host EXCEPT !.packages = after]
  BY DEF Update
<1> HIDE DEF after
<1>6. /\ host' \in Host /\ host'.packages = after /\ host'.family = host.family
      /\ host'.osName = host.osName /\ host'.major = host.major /\ host'.arch = host.arch
      /\ host'.repos = host.repos
  BY <1>1, <1>4, <1>5 DEF Host
<1>7. HostOK'
  BY <1>4, <1>6 DEF HostOK
<1> QED
  BY <1>6, <1>7, HostChangeOK DEF Update

LEMMA RebootOK ==
    ASSUME PatchInv, Reboot
    PROVE  PatchInv'
<1>1. host \in Host /\ RunningAfterBoot(host.packages) \in Running
  BY RunningAfterBootType DEF PatchInv, HostOK, Reboot
<1>2. host' = [host EXCEPT !.running = RunningAfterBoot(host.packages)]
  BY DEF Reboot
<1>3. /\ host' \in Host /\ host'.packages = host.packages /\ host'.family = host.family
      /\ host'.osName = host.osName /\ host'.major = host.major /\ host'.arch = host.arch
      /\ host'.repos = host.repos
  BY <1>1, <1>2 DEF Host
<1>4. HostOK'
  BY <1>3 DEF PatchInv, HostOK
<1> QED
  BY <1>3, <1>4, HostChangeOK DEF Reboot

\* The inductive invariant of the cycle: hosts and snapshots with their kernels in order, and
\* records of the advisories as they are, once a match is done.
THEOREM PatchInvariant == Spec => []PatchInv
<1>1. Init => PatchInv
  BY InitOK
<1>2. PatchInv /\ [Next]_vars => PatchInv'
  <2> SUFFICES ASSUME PatchInv, [Next]_vars PROVE PatchInv'
    OBVIOUS
  <2>1. CASE MatchSnapshot
    BY <2>1, MatchSnapshotOK
  <2>2. ASSUME NEW adv \in Advisories, Publish(adv) PROVE PatchInv'
    BY <2>2, PublishOK
  <2>3. ASSUME NEW via \in {"agent", "ssh"}, NEW fails \in BOOLEAN, Report(via, fails) PROVE PatchInv'
    BY <2>3, ReportOK
  <2>4. ASSUME NEW row \in rows, Update(row) PROVE PatchInv'
    BY <2>4, UpdateOK
  <2>5. CASE Reboot
    BY <2>5, RebootOK
  <2>6. CASE UNCHANGED vars
    BY <2>6 DEF vars, PatchInv, HostOK, SnapOK, PublishedOK, RowsOK, RowsFresh, Matched, Reported, Resolved
  <2> QED
    BY <2>1, <2>2, <2>3, <2>4, <2>5, <2>6 DEF Next
<1> QED
  BY <1>1, <1>2, PTL DEF Spec

\* The records do not depend on the order in which the database returns the advisories, for every
\* set of advisories with ids of their own: preferDecision leaves one winner per package.
THEOREM OneAnswer == Spec => []OrderIndependent
<1>1. PatchInv => OrderIndependent
  BY BuildDecisionsOne DEF PatchInv, OrderIndependent, RowsFresh, PublishedOK
<1> QED
  BY <1>1, PatchInvariant, PTL

-----------------------------------------------------------------------------
(* No exposure is dropped.                                                      *)

LEMMA NoEmptyKey ==
    ASSUME NEW pkg
    PROVE  NoText \notin PackageMatchKeys(pkg)
<1>1. DerivedAPTSourceKeys(pkg.name) \subseteq {"linux", "linux-aws"}
  BY DEF DerivedAPTSourceKeys
<1>2. NoText \notin DerivedAPTSourceKeys(pkg.name)
  BY <1>1 DEF NoText
<1> QED
  BY <1>2 DEF PackageMatchKeys, KeysForPackageMatch

LEMMA SingletonOf ==
    ASSUME NEW S, IsFiniteSet(S), S # {}, ~(Cardinality(S) > 1)
    PROVE  \E x : S = {x}
<1>1. Cardinality(S) \in Nat
  BY FS_CardinalityType
<1>2. Cardinality(S) # 0
  BY FS_EmptySet
<1> QED
  BY <1>1, <1>2, FS_Singleton

\* A stream with a rule has one that no other supersedes.
LEMMA Unsuperseded ==
    ASSUME NEW rules, IsFiniteSet(rules), rules # {}, \A r \in rules : r.evr \in Nat
    PROVE  \E r \in rules : \A q \in rules : ~Supersedes(q, r)
<1> DEFINE binary == {r \in rules : r.arch = "binary"}
           from == IF binary = {} THEN rules ELSE binary
           evr == [r \in from |-> r.evr]
<1>1. from \subseteq rules /\ from # {}
  OBVIOUS
<1>2. IsFiniteSet(from)
  BY <1>1, FS_Subset
<1>3. evr \in [from -> Int]
  BY <1>1
<1>4. \A r \in from : evr[r] = r.evr
  OBVIOUS
<1> HIDE DEF evr
<1>5. PICK r \in from : \A q \in from : evr[r] >= evr[q]
  <2> HIDE DEF from
  <2> QED
    BY <1>1, <1>2, <1>3, Greatest
<1>6. \A q \in from : r.evr >= q.evr
  BY <1>4, <1>5
<1>7. ASSUME NEW q \in rules PROVE ~Supersedes(q, r)
  <2>1. r.evr \in Nat /\ q.evr \in Nat
    BY <1>1
  <2>2. CASE binary = {}
    BY <1>6, <2>1, <2>2 DEF Supersedes
  <2>3. CASE binary # {}
    BY <1>6, <2>1, <2>3 DEF Supersedes
  <2> QED
    BY <2>2, <2>3
<1> QED
  BY <1>1, <1>7

LEMMA OnePerStreamFacts ==
    ASSUME NEW rules, IsFiniteSet(rules), \A r \in rules : r.evr \in Nat
    PROVE  /\ OnePerStream(rules) \subseteq rules
           /\ \A r \in rules : \E c \in OnePerStream(rules) : c.stream = r.stream
<1> DEFINE Of(s) == {q \in rules : q.stream = s}
           Kept(s) == CHOOSE r \in Of(s) : \A q \in rules : q.stream = s => ~Supersedes(q, r)
<1>1. ASSUME NEW r0 \in rules
      PROVE  Kept(r0.stream) \in Of(r0.stream)
  <2>1. IsFiniteSet(Of(r0.stream)) /\ Of(r0.stream) # {}
    BY FS_Subset
  <2>2. \E r \in Of(r0.stream) : \A q \in Of(r0.stream) : ~Supersedes(q, r)
    BY <2>1, Unsuperseded
  <2>3. \E r \in Of(r0.stream) : \A q \in rules : q.stream = r0.stream => ~Supersedes(q, r)
    BY <2>2
  <2> QED
    BY <2>3
<1>2. OnePerStream(rules) = {Kept(s) : s \in {q.stream : q \in rules}}
  BY DEF OnePerStream
<1> HIDE DEF Kept
<1> QED
  BY <1>1, <1>2

\* The rules that count: some of those that match, one at least of each stream with a match.
LEMMA MatchedRulesFacts ==
    ASSUME NEW rules, IsFiniteSet(rules), \A r \in rules : r.evr \in Nat, NEW pkg, NEW family
    PROVE  /\ MatchedRules(rules, pkg, family) \subseteq {r \in rules : MatchesRule(pkg, r)}
           /\ IsFiniteSet(MatchedRules(rules, pkg, family))
           /\ \A r \in rules : MatchesRule(pkg, r) =>
                 \E c \in MatchedRules(rules, pkg, family) : c.stream = r.stream
<1> DEFINE hits == {r \in rules : MatchesRule(pkg, r)}
           matched == MatchedRules(rules, pkg, family)
<1>1. hits \subseteq rules
  OBVIOUS
<1>2. IsFiniteSet(hits)
  BY <1>1, FS_Subset
<1>3. matched = IF family = "apt" THEN OnePerStream(hits) ELSE hits
  BY DEF MatchedRules
<1>4. /\ OnePerStream(hits) \subseteq hits
      /\ \A r \in hits : \E c \in OnePerStream(hits) : c.stream = r.stream
  BY <1>1, <1>2, OnePerStreamFacts
<1>5. \A r \in rules : MatchesRule(pkg, r) => r \in hits
  OBVIOUS
<1>6. matched \subseteq hits
  BY <1>3, <1>4
<1> HIDE DEF matched, hits
<1>7. IsFiniteSet(matched)
  BY <1>2, <1>6, FS_Subset
<1> QED
  BY <1>3, <1>4, <1>5, <1>6, <1>7 DEF matched, hits

\* The kernel that runs is the only package of its name, so its build is what is compared.
LEMMA RunningIsOne ==
    ASSUME SnapOK, snap.family = "apt", NEW p \in snap.packages, p \in Images(snap.packages),
           p \in RunningKernelPackages(snap)
    PROVE  RunningKernelPackages(snap) = {p}
<1>1. ASSUME NEW q \in RunningKernelPackages(snap) PROVE q = p
  <2>1. q \in snap.packages /\ Parts[q.name] = Parts[p.name] /\ Parts[p.name].base = "linux-image-"
    BY DEF RunningKernelPackages
  <2>2. p.name \in DOMAIN Parts /\ q.name \in DOMAIN Parts
    BY <2>1 DEF SnapOK, Package
  <2>3. Parts[p.name].abi > 0
    BY <2>1 DEF Images
  <2>4. q.name = p.name
    BY <2>1, <2>2, <2>3, PartsAssumption
  <2>5. p \in APTImages(snap.packages) /\ q \in APTImages(snap.packages)
    BY <2>1, <2>3 DEF APTImages, Images
  <2> QED
    BY <2>4, <2>5 DEF SnapOK, KernelsOK
<1> QED
  BY <1>1

LEMMA FlavorRankFacts ==
    /\ \A f \in Flavors : FlavorRank(f) \in Nat
    /\ \A f, g \in Flavors : FlavorRank(f) = FlavorRank(g) => f = g
<1>1. NoText \notin {"amd64", "aws", "common", "generic"}
  BY DEF NoText
<1>2. /\ FlavorRank(NoText) = 0 /\ FlavorRank("amd64") = 1 /\ FlavorRank("aws") = 2
      /\ FlavorRank("common") = 3 /\ FlavorRank("generic") = 4
  BY <1>1 DEF FlavorRank
<1> QED
  BY <1>2 DEF Flavors

\* What is judged is no old kernel, and if it is older than a fix the running kernel has not the fix.
LEMMA JudgedFacts ==
    ASSUME SnapOK, snap.family # NoText, NEW p \in snap.packages, Judged(p)
    PROVE  /\ IsRelevantKernelPackage(p, snap)
           /\ \A fixed \in Nat : p.evr < fixed => ~KernelRunningSatisfiesFixedBuild(snap, p.name, fixed)
<1>0. p \in Package /\ p.evr \in Nat \ {NoEVR} /\ p.name \in DOMAIN Parts
  BY DEF SnapOK, Package
<1>1. CASE ~IsKernelPackage(p.name, snap.family)
  BY <1>1 DEF IsRelevantKernelPackage, KernelRunningSatisfiesFixedBuild
<1>2. CASE p \in Images(snap.packages) /\ snap.family = "rpm" /\ p.evr = snap.running.evr
  BY <1>0, <1>2 DEF IsRelevantKernelPackage, KernelRunningSatisfiesFixedBuild, NoEVR
<1>3. CASE p \in Images(snap.packages) /\ snap.family = "apt" /\ p \in RunningKernelPackages(snap)
  <2> DEFINE own == Parts[p.name]
  <2>1. own = [base |-> "linux-image-", abi |-> snap.running.abi, flavor |-> snap.running.flavor]
    BY <1>3 DEF RunningKernelPackages
  <2>2. own.abi = snap.running.abi /\ own.flavor = snap.running.flavor /\ own.abi > 0
    BY <1>3, <2>1 DEF Images
  <2>3. RunningKernelPackages(snap) = {p}
    BY <1>3, RunningIsOne
  <2>4. ~AbiLess(own, snap.running)
    <3>1. own.abi \in Nat /\ FlavorRank(own.flavor) \in Nat
      BY <1>0, PartsAssumption, FlavorRankFacts
    <3> HIDE DEF own
    <3> QED
      BY <3>1, <2>2 DEF AbiLess
  <2>5. \A fixed \in Nat : p.evr < fixed => ~\E q \in RunningKernelPackages(snap) : q.evr >= fixed
    BY <1>0, <2>3
  <2> HIDE DEF own
  <2>6. IsRelevantKernelPackage(p, snap)
    BY <1>3, <2>2 DEF IsRelevantKernelPackage, own
  <2>7. \A fixed \in Nat : p.evr < fixed => ~KernelRunningSatisfiesFixedBuild(snap, p.name, fixed)
    BY <1>3, <2>2, <2>4, <2>5 DEF KernelRunningSatisfiesFixedBuild, own
  <2> QED
    BY <2>6, <2>7
<1> QED
  BY <1>1, <1>2, <1>3 DEF Judged, SnapOK

\* A judged package that is older than a fix is asked for something.
LEMMA FixAsks ==
    ASSUME SnapOK, snap.family # NoText, NEW p \in snap.packages, Judged(p), NEW a, NEW fixed \in Nat,
           p.evr < fixed
    PROVE  \E d \in FixDecision(snap, a, p, fixed) :
              d.pkg = p /\ d.action \in {"reboot_host", "update_package"}
<1>1. ~KernelRunningSatisfiesFixedBuild(snap, p.name, fixed)
  BY JudgedFacts
<1> QED
  BY <1>1 DEF FixDecision, NewDecisionRecord

Asks(d, p) == d.pkg = p /\ d.action \in {"reboot_host", "update_package", "investigate"}

LEMMA ExposedIsDecided ==
    ASSUME SnapOK, PublishedOK, snap.family # NoText, NEW p \in snap.packages, NEW a \in published,
           Judged(p), Exposed(p, a)
    PROVE  \E d \in AllDecisions(snap, published, Resolved) : Asks(d, p)
<1> DEFINE fixes == OfArch(ForPackage(a.fixes, p, Resolved), p, snap.family)
           rules == OfArch(ForPackage(a.rules, p, Resolved), p, snap.family)
           matched == MatchedRules(rules, p, snap.family)
           decided == PackageDecision(snap, a, p, Resolved)
           About(entries) == {x \in entries :
                                /\ x.stream \in Resolved
                                /\ {x.name, x.source} \cap PackageMatchKeys(p) # {}
                                /\ MatchesPackageArch(p.arch, x.arch, snap.family)}
           hits == {r \in About(a.rules) : MatchesRule(p, r)}
<1>1. a \in Advisories
  BY DEF PublishedOK
<1>2. \A x : {x.name, x.source} \cap PackageMatchKeys(p) # {} =>
                KeysForPackageMatch(x.name, x.source) \cap PackageMatchKeys(p) # {}
  BY NoEmptyKey DEF KeysForPackageMatch
<1>3. About(a.fixes) = fixes /\ About(a.rules) = rules
  BY <1>2 DEF OfArch, ForPackage, KeysForPackageMatch
<1>4. a.streams \cap Resolved # {}
  BY DEF Exposed
<1>5. PICK f \in About(a.fixes) : p.evr < f.evr /\ (hits # {} => \E r \in hits : r.stream = f.stream)
  BY DEF Exposed
<1>6. f \in fixes /\ hits = {r \in rules : MatchesRule(p, r)}
  BY <1>3, <1>5
<1>7. fixes \subseteq a.fixes /\ rules \subseteq a.rules
  BY DEF OfArch, ForPackage
<1>8. p \in CandidatePackages(a, snap.packages, Resolved)
  BY <1>6 DEF CandidatePackages, OfArch, ForPackage
<1> HIDE DEF About
<1>9. /\ matched \subseteq hits
      /\ IsFiniteSet(matched)
      /\ \A r \in hits : \E c \in matched : c.stream = r.stream
  <2>1. IsFiniteSet(rules) /\ \A r \in rules : r.evr \in Nat
    BY <1>1, <1>7, FS_Subset, AdvisoriesAssumption
  <2> HIDE DEF rules
  <2> QED
    BY <1>6, <2>1, MatchedRulesFacts
<1>10. ASSUME NEW F \in SUBSET fixes, f \in F
       PROVE  \E d \in FixDecision(snap, a, p, SelectBestFix(F)) : Asks(d, p)
  <2>1. IsFiniteSet(F) /\ F # {} /\ \A g \in F : g.evr \in Nat
    BY <1>1, <1>7, <1>10, FS_Subset, AdvisoriesAssumption
  <2>2. (\E g \in F : SelectBestFix(F) = g.evr) /\ SelectBestFix(F) >= f.evr
    BY <2>1, <1>10, BestFix
  <2>3. p.evr \in Nat
    BY DEF SnapOK, Package
  <2>4. SelectBestFix(F) \in Nat /\ p.evr < SelectBestFix(F)
    BY <1>5, <1>10, <2>1, <2>2, <2>3
  <2> QED
    BY <2>4, FixAsks DEF Asks
<1>11. IsRelevantKernelPackage(p, snap)
  BY JudgedFacts
<1>12. \E d \in decided : Asks(d, p)
  <2>1. CASE matched = {}
    <3>1. decided = FixDecision(snap, a, p, SelectBestFix(fixes))
      BY <1>6, <1>11, <2>1 DEF PackageDecision
    <3> QED
      BY <1>6, <1>10, <3>1
  <2>2. CASE matched # {} /\ Cardinality(matched) > 1
    <3>1. decided = {NewDecisionRecord(a, p, "unknown", "investigate", NoEVR)}
      BY <1>11, <2>2 DEF PackageDecision
    <3> QED
      BY <3>1 DEF NewDecisionRecord, Asks
  <2>3. CASE matched # {} /\ ~(Cardinality(matched) > 1)
    <3> HIDE DEF matched, hits
    <3>1. PICK c : matched = {c}
      BY <1>9, <2>3, SingletonOf
    <3>2. c.stream = f.stream
      BY <1>5, <1>9, <2>3, <3>1
    <3> DEFINE fixed == {g \in fixes : g.stream = (CHOOSE r \in matched : TRUE).stream}
    <3>3. f \in fixed
      BY <1>6, <3>1, <3>2
    <3>4. decided = FixDecision(snap, a, p, SelectBestFix(fixed))
      BY <1>11, <2>3, <3>3 DEF PackageDecision, matched
    <3>5. fixed \in SUBSET fixes
      OBVIOUS
    <3> HIDE DEF fixed
    <3> QED
      BY <1>10, <3>3, <3>4, <3>5
  <2> QED
    BY <2>1, <2>2, <2>3
<1>13. AppliesToResolvedStream(a, Resolved)
  BY <1>4 DEF AppliesToResolvedStream
<1> HIDE DEF decided
<1>14. decided \subseteq AllDecisions(snap, published, Resolved)
  BY <1>8, <1>13 DEF AllDecisions, AdvisoryDecisions, decided
<1> QED
  BY <1>12, <1>14

\* A package that is older than the fix of a published advisory has a record that asks for
\* something, however many advisories speak of it and in whatever order they come.
THEOREM ExposuresKept == Spec => []NoExposureDropped
<1>1. PatchInv => NoExposureDropped
  <2> SUFFICES ASSUME PatchInv, Matched, NEW p \in snap.packages, NEW a \in published, Judged(p), Exposed(p, a)
               PROVE  \E d \in rows : d.pkg = p /\ d.action # "none"
    BY DEF NoExposureDropped
  <2> DEFINE all == AllDecisions(snap, published, Resolved)
  <2>1. published \in SUBSET Advisories /\ IsFiniteSet(published) /\ snap.family # NoText
    BY DEF PatchInv, PublishedOK, Matched, Reported
  <2>2. Covers(rows, all)
    BY <2>1, BuildDecisionsCover DEF PatchInv, RowsFresh
  <2>3. PICK d \in all : Asks(d, p)
    BY <2>1, ExposedIsDecided DEF PatchInv
  <2>4. PICK k \in rows : k.pkg = d.pkg /\ (k = d \/ PreferDecision(k, d))
    BY <2>2 DEF Covers
  <2>5. Comparable(k) /\ Comparable(d)
    BY <2>1, <2>2, AllComparable DEF Covers
  <2>6. k.action # "none"
    BY <2>3, <2>4, <2>5, PreferAsks DEF Asks
  <2> QED
    BY <2>3, <2>4, <2>6 DEF Asks
<1> QED
  BY <1>1, PatchInvariant, PTL

-----------------------------------------------------------------------------
(* A reboot settles what a reboot was asked for.                                *)

\* A build is installed when the latest is at or above it.
LEMMA LatestFacts ==
    ASSUME NEW packages \in SUBSET Package, IsFiniteSet(packages), NEW fixed \in Nat \ {NoEVR},
           LatestEVR(packages) >= fixed
    PROVE  \E r \in packages : r.evr >= fixed
<1>1. packages # {}
  BY DEF LatestEVR, NoEVR
<1> DEFINE evrs == {p.evr : p \in packages}
           evr == [p \in packages |-> p.evr]
<1>2. evr \in [packages -> Int] /\ \A p \in packages : evr[p] = p.evr
  BY DEF Package
<1> HIDE DEF evr
<1>3. \E p \in packages : \A q \in packages : evr[p] >= evr[q]
  BY <1>1, <1>2, Greatest
<1>4. \E x \in evrs : \A y \in evrs : x >= y
  BY <1>2, <1>3
<1> HIDE DEF evrs
<1>5. Max(evrs) \in evrs
  BY <1>4 DEF Max
<1>6. LatestEVR(packages) = Max(evrs)
  BY <1>1 DEF LatestEVR, evrs
<1> QED
  BY <1>5, <1>6 DEF evrs

\* What makes a package ask for a reboot.
AsksReboot(snapshot, pkg, fixed) ==
    /\ ~KernelRunningSatisfiesFixedBuild(snapshot, pkg.name, fixed)
    /\ IsKernelPackage(pkg.name, snapshot.family)
    /\ FixedKernelInstalled(snapshot, pkg.name, fixed) \/ ~(pkg.evr < fixed)

LEMMA RebootIsAsked ==
    ASSUME NEW snapshot, NEW a \in Advisories, NEW pkg, NEW streams,
           NEW d \in PackageDecision(snapshot, a, pkg, streams), d.action = "reboot_host"
    PROVE  \E fixed \in Nat \ {NoEVR} : AsksReboot(snapshot, pkg, fixed)
<1> DEFINE relevantFixes == OfArch(ForPackage(a.fixes, pkg, streams), pkg, snapshot.family)
<1>1. PICK F \in SUBSET relevantFixes : F # {} /\ d \in FixDecision(snapshot, a, pkg, SelectBestFix(F))
  BY DEF PackageDecision, NewDecisionRecord
<1>2. F \subseteq a.fixes
  BY DEF OfArch, ForPackage
<1>3. IsFiniteSet(F) /\ \A f \in F : f.evr \in Nat \ {NoEVR}
  BY <1>2, FS_Subset, AdvisoriesAssumption
<1>4. PICK fix \in F : fix.evr = SelectBestFix(F)
  BY <1>1, <1>3, BestFix
<1>5. AsksReboot(snapshot, pkg, fix.evr)
  BY <1>1, <1>4 DEF FixDecision, NewDecisionRecord, AsksReboot, FixedKernelInstalled
<1> QED
  BY <1>3, <1>5

\* A kernel package that asks a host with its newest kernel running for a reboot is overtaken by a
\* package that it is compared with.
LEMMA NewestSettles ==
    ASSUME HostOK, Images(host.packages) # {}, host.running = RunningAfterBoot(host.packages),
           NEW q \in host.packages, NEW fixed \in Nat \ {NoEVR}, NEW snapshot,
           snapshot.family = host.family, snapshot.packages = host.packages,
           snapshot.running = host.running, AsksReboot(snapshot, q, fixed)
    PROVE  \E r \in ComparedWith(q) : Overtakes(r)
<1> DEFINE P == host.packages
<1>1. P \in SUBSET Package /\ IsFiniteSet(P) /\ KernelsOK(host.family, P) /\ host.family \in {"rpm", "apt"}
  BY DEF HostOK, Host, KernelsOK
<1>2. PICK p \in Images(P) : p = NewestImage(P) /\ \A r \in Images(P) : p.evr >= r.evr
  BY <1>1, NewestImageFacts
<1>3. host.running = [abi |-> Parts[p.name].abi, flavor |-> Parts[p.name].flavor,
                      evr |-> IF host.family = "rpm" THEN p.evr ELSE NoEVR]
  BY <1>2 DEF RunningAfterBoot, NewestImage
<1>4. \A r \in P : r \in Package /\ r.evr \in Nat \ {NoEVR} /\ r.name \in DOMAIN Parts
  BY <1>1 DEF Package
<1>5. p \in P /\ \A r \in Images(P) : r \in P
  BY <1>2 DEF Images
<1>6. IsKernelPackage(q.name, host.family)
  BY DEF AsksReboot
<1>7. q \in ComparedWith(q)
  BY DEF ComparedWith, InstalledKernelsAPT, InstalledKernelsRPM, SameFlavor
\* A package above the newest image is above every image.
<1>8. ASSUME NEW r \in P, IsKernelPackage(r.name, host.family), r.evr > p.evr
      PROVE  Overtakes(r)
  <2>1. \A image \in Images(P) : r.evr > image.evr
    BY <1>2, <1>4, <1>5, <1>8
  <2> QED
    BY <1>8, <2>1 DEF Overtakes
\* When the fix is above the newest image, the package that has it is above it too.
<1>9. ASSUME fixed > p.evr, NEW S \in SUBSET P, S \subseteq ComparedWith(q), LatestEVR(S) >= fixed,
             \A r \in S : IsKernelPackage(r.name, host.family)
      PROVE  \E r \in ComparedWith(q) : Overtakes(r)
  <2>1. S \in SUBSET Package /\ IsFiniteSet(S)
    BY <1>1, <1>9, FS_Subset
  <2>2. PICK r \in S : r.evr >= fixed
    BY <2>1, <1>9, LatestFacts
  <2>3. r \in P /\ r.evr > p.evr
    BY <2>2, <1>4, <1>5, <1>9
  <2> QED
    BY <2>2, <2>3, <1>8, <1>9
<1>10. ASSUME fixed > p.evr, ~(q.evr < fixed) PROVE \E r \in ComparedWith(q) : Overtakes(r)
  <2>1. q.evr > p.evr
    BY <1>4, <1>5, <1>10
  <2> QED
    BY <2>1, <1>6, <1>7, <1>8
<1>11. CASE host.family = "rpm"
  <2>1. Parts[q.name].base \in {"kernel", "kernel-"}
    BY <1>6, <1>11 DEF IsKernelPackage
  <2>2. ~IsVersionedKernelPackageAPT(q.name)
    BY <2>1 DEF IsVersionedKernelPackageAPT, IsKernelPackageAPT
  <2>3. InstalledKernelsRPM(P, q.name) = ComparedWith(q) /\ InstalledKernelsRPM(P, q.name) \in SUBSET P
    BY <2>2 DEF ComparedWith, InstalledKernelsRPM
  <2>4. \A r \in InstalledKernelsRPM(P, q.name) : IsKernelPackage(r.name, host.family)
    BY <1>6 DEF InstalledKernelsRPM
  <2>5. fixed > p.evr
    BY <1>3, <1>4, <1>5, <1>6, <1>11 DEF AsksReboot, KernelRunningSatisfiesFixedBuild, NoEVR
  <2>6. FixedKernelInstalled(snapshot, q.name, fixed) => LatestEVR(InstalledKernelsRPM(P, q.name)) >= fixed
    BY <1>11 DEF FixedKernelInstalled
  <2> QED
    BY <1>9, <1>10, <2>3, <2>4, <2>5, <2>6 DEF AsksReboot
<1>12. CASE host.family = "apt"
  <2> DEFINE own == Parts[q.name]
             run == Parts[p.name]
  <2>1. run.base = "linux-image-" /\ run.abi > 0
    BY <1>1, <1>2, <1>12 DEF KernelsOK, Images
  <2>2. /\ own \in [base : STRING, abi : Nat, flavor : Flavors]
        /\ run \in [base : STRING, abi : Nat, flavor : Flavors]
    BY <1>4, <1>5, PartsAssumption
  <2>3. snapshot.running.abi = run.abi /\ snapshot.running.flavor = run.flavor
    BY <1>3
  <2>4. p \in RunningKernelPackages(snapshot)
    <3>1. run = [base |-> "linux-image-", abi |-> run.abi, flavor |-> run.flavor]
      BY <2>1, <2>2
    <3> QED
      BY <3>1, <2>3, <1>5 DEF RunningKernelPackages
  <2>5. IsKernelPackageAPT(q.name)
    BY <1>6, <1>12 DEF IsKernelPackage
  <2>6. own.abi > 0 /\ AbiLess(snapshot.running, own) => Overtakes(q)
    BY <1>6, <2>5 DEF Overtakes, IsVersionedKernelPackageAPT
  <2>7. (own.abi > 0 /\ AbiLess(snapshot.running, own)) \/ fixed > p.evr
    <3>1. p.evr \in Nat
      BY <1>4, <1>5
    <3> HIDE DEF own, run
    <3>2. ~(p.evr >= fixed) => fixed > p.evr
      BY <3>1
    <3>3. own.abi > 0 => ~AbiLess(own, snapshot.running)
      BY <1>6, <1>12, <2>1, <2>3 DEF AsksReboot, KernelRunningSatisfiesFixedBuild, own
    <3>4. own.abi > 0 /\ ~AbiLess(snapshot.running, own) => ~(p.evr >= fixed)
      BY <1>6, <1>12, <2>1, <2>3, <2>4 DEF AsksReboot, KernelRunningSatisfiesFixedBuild, own
    <3>5. ~(own.abi > 0) => ~(p.evr >= fixed)
      BY <1>6, <1>12, <2>4 DEF AsksReboot, KernelRunningSatisfiesFixedBuild, own
    <3> QED
      BY <3>2, <3>3, <3>4, <3>5
  <2>8. CASE fixed > p.evr
    <3>1. CASE FixedKernelInstalled(snapshot, q.name, fixed)
      <4>1. IsVersionedKernelPackageAPT(q.name) /\ LatestEVR(InstalledKernelsAPT(P, q.name)) >= fixed
        BY <1>12, <3>1 DEF FixedKernelInstalled
      <4>2. InstalledKernelsAPT(P, q.name) = ComparedWith(q) /\ InstalledKernelsAPT(P, q.name) \in SUBSET P
        BY <4>1 DEF ComparedWith, InstalledKernelsAPT
      <4>3. \A r \in InstalledKernelsAPT(P, q.name) : IsKernelPackage(r.name, host.family)
        BY <1>12 DEF InstalledKernelsAPT, IsVersionedKernelPackageAPT, IsKernelPackage
      <4> QED
        BY <1>9, <2>8, <4>1, <4>2, <4>3
    <3> QED
      BY <1>10, <2>8, <3>1 DEF AsksReboot
  <2> QED
    BY <2>6, <2>7, <2>8, <1>7
<1> QED
  BY <1>1, <1>11, <1>12

\* A reboot settles what a reboot was asked for: a host that runs its newest kernel is asked for
\* another reboot only over a kernel package that the code takes for newer than every kernel it can
\* boot.  The theorem is about every host, whatever kernel packages it has.
THEOREM RebootSettles == Spec => []RebootCures
<1>1. PatchInv => RebootCures
  <2> DEFINE snapshot == [snap EXCEPT !.family = host.family, !.packages = host.packages,
                                      !.running = host.running]
  <2> SUFFICES ASSUME PatchInv, Images(host.packages) # {}, host.running = RunningAfterBoot(host.packages),
                      NEW built \in BuildDecisions(snapshot, published, Resolved), NEW d \in built,
                      d.action = "reboot_host"
               PROVE  \E r \in ComparedWith(d.pkg) : Overtakes(r)
    BY DEF RebootCures, RebootAdvice
  <2>1. /\ snapshot.family = host.family /\ snapshot.packages = host.packages
        /\ snapshot.running = host.running
    BY DEF PatchInv, SnapOK
  <2> HIDE DEF snapshot
  <2>2. published \in SUBSET Advisories /\ IsFiniteSet(published)
    BY DEF PatchInv, PublishedOK
  <2>3. d \in AllDecisions(snapshot, published, Resolved)
    BY <2>2, BuildDecisionsCover DEF Covers
  <2>4. PICK a \in published : d \in AdvisoryDecisions(snapshot, a, Resolved)
    BY <2>3 DEF AllDecisions
  <2>5. a \in Advisories /\ d.pkg \in host.packages /\ d \in PackageDecision(snapshot, a, d.pkg, Resolved)
    BY <2>1, <2>2, <2>4, AdvisoryDecisionsSay
  <2>6. PICK fixed \in Nat \ {NoEVR} : AsksReboot(snapshot, d.pkg, fixed)
    BY <2>5, RebootIsAsked
  <2> QED
    BY <2>1, <2>5, <2>6, NewestSettles DEF PatchInv
<1> QED
  BY <1>1, PatchInvariant, PTL

-----------------------------------------------------------------------------
(* The pages and the host list.                                                 *)

\* The records are decisions of published advisories.
LEMMA RowsSay ==
    ASSUME PatchInv, Matched
    PROVE  \A d \in rows : \E a \in published : SaysOf(d, a, d.pkg)
<1> SUFFICES ASSUME NEW d \in rows PROVE \E a \in published : SaysOf(d, a, d.pkg)
  OBVIOUS
<1>1. published \in SUBSET Advisories /\ IsFiniteSet(published)
  BY DEF PatchInv, PublishedOK
<1>2. d \in AllDecisions(snap, published, Resolved)
  BY <1>1, BuildDecisionsCover DEF PatchInv, RowsFresh, Covers
<1>3. PICK a \in published : d \in AdvisoryDecisions(snap, a, Resolved)
  BY <1>2 DEF AllDecisions
<1> QED
  BY <1>1, <1>3, AdvisoryDecisionsSay

\* Every record is joined with an advisory of its kind.
LEMMA JoinedFacts ==
    ASSUME PatchInv, Matched
    PROVE  /\ \A r \in Joined : r.d \in rows /\ r.adv \in published /\ r.d.security = r.adv.security
           /\ \A d \in rows : \E r \in Joined : r.d = d
<1>0. Joined = {row \in [d : rows, adv : published] : row.d.adv = row.adv.id}
  BY DEF Joined, ListDecisionPageRows
<1>1. ASSUME NEW r \in Joined
      PROVE  r.d \in rows /\ r.adv \in published /\ r.d.security = r.adv.security
  <2>1. r.d \in rows /\ r.adv \in published /\ r.d.adv = r.adv.id
    BY <1>0
  <2>2. PICK a \in published : SaysOf(r.d, a, r.d.pkg)
    BY <2>1, RowsSay
  <2>3. a = r.adv
    BY <2>1, <2>2, AdvisoriesAssumption DEF SaysOf, PatchInv, PublishedOK
  <2> QED
    BY <2>1, <2>2, <2>3 DEF SaysOf
<1>2. ASSUME NEW d \in rows PROVE \E r \in Joined : r.d = d
  <2>1. PICK a \in published : SaysOf(d, a, d.pkg)
    BY RowsSay
  <2>2. [d |-> d, adv |-> a] \in Joined
    BY <1>0, <2>1 DEF SaysOf
  <2> QED
    BY <2>2
<1> QED
  BY <1>1, <1>2

\* The overall action is the highest of the records.
LEMMA OverallFacts ==
    ASSUME PatchInv, Matched
    PROVE  /\ overall \in {"none"} \cup {d.action : d \in rows}
           /\ overall \in {"reboot_host", "update_package", "investigate", "none"}
           /\ \A d \in rows : ActionPriority(overall) >= ActionPriority(d.action)
<1> DEFINE actions == {"none"} \cup {d.action : d \in rows}
           priority == [a \in actions |-> ActionPriority(a)]
           known == {"reboot_host", "update_package", "investigate", "none"}
<1>1. actions \subseteq known
  BY RowsSay DEF SaysOf
<1>2. \A a \in known : ActionPriority(a) \in 0..4
  BY DEF ActionPriority
<1>3. IsFiniteSet(actions) /\ actions # {}
  <2>2. IsFiniteSet({"reboot_host"})
    BY FS_Singleton
  <2>3. IsFiniteSet({"reboot_host"} \cup {"update_package"})
    BY <2>2, FS_AddElement
  <2>4. IsFiniteSet(({"reboot_host"} \cup {"update_package"}) \cup {"investigate"})
    BY <2>3, FS_AddElement
  <2>5. IsFiniteSet((({"reboot_host"} \cup {"update_package"}) \cup {"investigate"}) \cup {"none"})
    BY <2>4, FS_AddElement
  <2>6. known = (({"reboot_host"} \cup {"update_package"}) \cup {"investigate"}) \cup {"none"}
    OBVIOUS
  <2>7. IsFiniteSet(known)
    BY <2>5, <2>6
  <2> HIDE DEF known
  <2> QED
    BY <2>7, <1>1, FS_Subset
<1>4. priority \in [actions -> Int] /\ \A a \in actions : priority[a] = ActionPriority(a)
  BY <1>1, <1>2
<1>5. \E a \in actions : \A b \in actions : priority[a] >= priority[b]
  <2> HIDE DEF actions, priority
  <2> QED
    BY <1>3, <1>4, Greatest
<1>6. \E a \in actions : \A b \in actions : ActionPriority(a) >= ActionPriority(b)
  BY <1>4, <1>5
<1>7. overall = CHOOSE a \in actions : \A b \in actions : ActionPriority(a) >= ActionPriority(b)
  BY DEF PatchInv, RowsFresh, OverallAction
<1>8. overall \in actions /\ \A b \in actions : ActionPriority(overall) >= ActionPriority(b)
  BY <1>6, <1>7
<1> QED
  BY <1>1, <1>8

\* The CVEs of a kernel page are those of the advisories behind it.
LEMMA RiskCVEs ==
    ASSUME PatchInv, NEW rs, \A r \in rs : r.adv \in published
    PROVE  Cardinality(BuildKernelRiskView({MapDecisionRow(r) : r \in rs}).cves) \in Nat
<1> DEFINE items == {MapDecisionRow(r) : r \in rs}
           view == BuildKernelRiskView(items)
           advisories == UNION {g.advisories : g \in GroupDecisionsByRemediation(items)}
           lists == {a.cves : a \in published}
           list == [a \in published |-> a.cves]
<1>1. view.cves = UNION {a.cves : a \in advisories}
  BY DEF BuildKernelRiskView
<1>2. \A i \in items : \E a \in published : i.cves = a.cves
  BY DEF MapDecisionRow
<1> HIDE DEF items
<1>3. ASSUME NEW a \in advisories PROVE a.cves \subseteq UNION {i.cves : i \in items}
  <2>1. PICK g \in GroupDecisionsByRemediation(items) : a \in g.advisories
    OBVIOUS
  <2>2. PICK f : g = RemediationGroup(f, {i \in items : i.family = f})
    BY <2>1 DEF GroupDecisionsByRemediation
  <2> DEFINE own == {i \in items : i.family = f}
  <2>3. g.advisories = {AdvisoryGroup(b, {i \in own : i.adv = b}) : b \in {i.adv : i \in own}}
    BY <2>2 DEF RemediationGroup
  <2>4. PICK b : a = AdvisoryGroup(b, {i \in own : i.adv = b})
    BY <2>1, <2>3
  <2> QED
    BY <2>4 DEF AdvisoryGroup
<1> HIDE DEF advisories
<1>4. view.cves \subseteq UNION lists
  BY <1>1, <1>2, <1>3
<1>5. IsFiniteSet(published) /\ \A a \in published : IsFiniteSet(a.cves)
  BY AdvisoriesAssumption DEF PatchInv, PublishedOK
<1>6. list \in Surjection(published, lists)
  BY DEF Surjection
<1>7. IsFiniteSet(lists)
  <2> HIDE DEF list, lists
  <2> QED
    BY <1>5, <1>6, FS_Surjection
<1>8. \A l \in lists : IsFiniteSet(l)
  BY <1>5
<1> HIDE DEF lists, view
<1>9. IsFiniteSet(UNION lists)
  BY <1>7, <1>8, FS_UNION
<1>10. IsFiniteSet(view.cves)
  BY <1>4, <1>9, FS_Subset
<1>11. Cardinality(view.cves) \in Nat
  BY <1>10, FS_CardinalityType
<1> QED
  BY <1>11 DEF view, items

\* The kernel page promises that a reboot removes CVEs only when the host list asks for a reboot.
THEOREM RebootPromised == Spec => [](Matched => PromiseKept)
<1>1. PatchInv /\ Matched => PromiseKept
  <2> SUFFICES ASSUME PatchInv, Matched, GetKernelPosture(Joined, snap).rebootWouldReduceCVECount
               PROVE  overall = "reboot_host"
    BY DEF PromiseKept
  <2> DEFINE kernel == {r \in Joined : /\ r.adv.security
                                       /\ r.d.action # "none"
                                       /\ MapDecisionRow(r).family = "kernel"}
             left == {r \in kernel : r.d.status # "fixed_package_installed_pending_activation"}
             Risk(rs) == BuildKernelRiskView({MapDecisionRow(r) : r \in rs})
  <2>1. Cardinality(Risk(kernel).cves) > Cardinality(Risk(left).cves)
    BY DEF GetKernelPosture
  <2> HIDE DEF Risk
  <2>2. kernel # left
    <3> SUFFICES ASSUME kernel = left PROVE FALSE
      OBVIOUS
    <3>1. Cardinality(Risk(kernel).cves) \in Nat
      BY JoinedFacts, RiskCVEs DEF Risk
    <3> HIDE DEF kernel, left
    <3>2. Cardinality(Risk(kernel).cves) > Cardinality(Risk(kernel).cves)
      BY <2>1
    <3> QED
      BY <3>1, <3>2
  <2>3. PICK r \in Joined : r.d.status = "fixed_package_installed_pending_activation"
    BY <2>2
  <2>4. r.d \in rows
    BY JoinedFacts
  <2>5. r.d.action = "reboot_host"
    BY <2>3, <2>4, RowsSay DEF SaysOf
  <2>6. ActionPriority(overall) >= ActionPriority("reboot_host")
    BY <2>4, <2>5, OverallFacts
  <2> QED
    BY <2>6, OverallFacts DEF ActionPriority
<1> QED
  BY <1>1, PatchInvariant, PTL

\* Actions and their labels have one order.
LEMMA LabelFacts ==
    /\ \A l : ActionPriorityLabel(l) \in 0..4
    /\ \A a \in {"reboot_host", "update_package", "investigate", "none"} :
          ActionPriorityLabel(ActionLabel(a)) = ActionPriority(a)
<1>1. \A l : ActionPriorityLabel(l) \in 0..4
  BY DEF ActionPriorityLabel
<1>2. /\ ActionLabel("reboot_host") = "Reboot required" /\ ActionPriority("reboot_host") = 4
      /\ ActionLabel("update_package") = "Update available" /\ ActionPriority("update_package") = 2
      /\ ActionLabel("investigate") = "Investigate" /\ ActionPriority("investigate") = 1
      /\ ActionLabel("none") = "Clear" /\ ActionPriority("none") = 0
  BY DEF ActionLabel, ActionPriority
<1>3. /\ ActionPriorityLabel("Reboot required") = 4 /\ ActionPriorityLabel("Update available") = 2
      /\ ActionPriorityLabel("Investigate") = 1 /\ ActionPriorityLabel("Clear") = 0
  BY DEF ActionPriorityLabel
<1> QED
  BY <1>1, <1>2, <1>3

LEMMA HighestActionFacts ==
    ASSUME NEW labels, labels # {}
    PROVE  /\ HighestAction(labels) \in labels
           /\ \A k \in labels : ActionPriorityLabel(HighestAction(labels)) >= ActionPriorityLabel(k)
<1> DEFINE S == {4 - ActionPriorityLabel(l) : l \in labels}
<1>1. S \in SUBSET Nat /\ S # {}
  BY LabelFacts
<1>2. PICK m \in S : \A n \in S : m <= n
  <2> HIDE DEF S
  <2> QED
    BY <1>1, LeastNat
<1>3. \E l \in labels : \A k \in labels : ActionPriorityLabel(l) >= ActionPriorityLabel(k)
  BY <1>2, LabelFacts
<1> QED
  BY <1>3 DEF HighestAction

\* The groups of a page show the highest action of its items.
LEMMA GroupsShow ==
    ASSUME NEW items
    PROVE  /\ \A g \in GroupDecisionsByRemediation(items) : \E i \in items : g.action = i.action
           /\ \A i \in items : \E g \in GroupDecisionsByRemediation(items) :
                 ActionPriorityLabel(g.action) >= ActionPriorityLabel(i.action)
<1> DEFINE Own(f) == {i \in items : i.family = f}
           Labels(f) == {i.action : i \in Own(f)}
<1>1. ASSUME NEW f \in {i.family : i \in items}
      PROVE  /\ RemediationGroup(f, Own(f)).action \in Labels(f)
             /\ \A l \in Labels(f) : ActionPriorityLabel(RemediationGroup(f, Own(f)).action) >= ActionPriorityLabel(l)
  <2>1. Labels(f) # {}
    OBVIOUS
  <2>2. RemediationGroup(f, Own(f)).action = HighestAction(Labels(f))
    BY DEF RemediationGroup
  <2> HIDE DEF Labels
  <2> QED
    BY <2>1, <2>2, HighestActionFacts
<1>2. GroupDecisionsByRemediation(items) = {RemediationGroup(f, Own(f)) : f \in {i.family : i \in items}}
  BY DEF GroupDecisionsByRemediation
<1>3. ASSUME NEW g \in GroupDecisionsByRemediation(items) PROVE \E i \in items : g.action = i.action
  <2>1. PICK f \in {i.family : i \in items} : g = RemediationGroup(f, Own(f))
    BY <1>2
  <2> QED
    BY <2>1, <1>1
<1>4. ASSUME NEW i \in items
      PROVE  \E g \in GroupDecisionsByRemediation(items) :
                ActionPriorityLabel(g.action) >= ActionPriorityLabel(i.action)
  <2>1. i.family \in {j.family : j \in items} /\ i.action \in Labels(i.family)
    OBVIOUS
  <2>2. RemediationGroup(i.family, Own(i.family)) \in GroupDecisionsByRemediation(items)
    BY <1>2, <2>1
  <2> HIDE DEF Own, Labels
  <2> QED
    BY <2>1, <2>2, <1>1
<1> QED
  BY <1>3, <1>4

LEMMA SameMax ==
    ASSUME NEW A \in SUBSET (0..4), NEW B \in SUBSET (0..4), A # {}, B # {},
           \A x \in A : \E y \in B : y >= x, \A y \in B : \E x \in A : x >= y
    PROVE  Max(A) = Max(B)
<1>1. ASSUME NEW S \in SUBSET (0..4), S # {}
      PROVE  Max(S) \in S /\ \A y \in S : Max(S) >= y
  <2> DEFINE T == {4 - x : x \in S}
  <2>0. \A x \in S : x \in Int /\ 0 <= x /\ x <= 4
    BY <1>1
  <2>1. T \in SUBSET Nat /\ T # {}
    <3>1. T \in SUBSET Nat
      BY <2>0
    <3>2. PICK x \in S : TRUE
      BY <1>1
    <3>3. 4 - x \in T
      OBVIOUS
    <3> HIDE DEF T
    <3> QED
      BY <3>1, <3>3
  <2>2. PICK m \in T : \A n \in T : m <= n
    <3> HIDE DEF T
    <3> QED
      BY <2>1, LeastNat
  <2>3. \E x \in S : \A y \in S : x >= y
    BY <2>0, <2>2
  <2> QED
    BY <2>3 DEF Max
<1>2. Max(A) \in A /\ \A y \in A : Max(A) >= y
  BY <1>1
<1>3. Max(B) \in B /\ \A y \in B : Max(B) >= y
  BY <1>1
<1>4. \A x \in A \cup B : x \in Int
  OBVIOUS
<1>5. PICK u \in B : u >= Max(A)
  BY <1>2
<1>6. PICK v \in A : v >= Max(B)
  BY <1>3
<1>7. Max(B) >= u /\ Max(A) >= v
  BY <1>2, <1>3, <1>5, <1>6
<1>8. PICK x \in Int, y \in Int : x = Max(A) /\ y = Max(B)
  BY <1>2, <1>3, <1>4
<1>9. y >= x /\ x >= y
  BY <1>4, <1>5, <1>6, <1>7, <1>8
<1> QED
  BY <1>8, <1>9

\* The highest action on the pages of a host is the overall action of the host list, or an update
\* that only the package manager knows of.
THEOREM PagesShowOverall == Spec => [](Matched => TopAgrees)
<1>1. PatchInv /\ Matched => TopAgrees
  <2> SUFFICES ASSUME PatchInv, Matched PROVE TopAgrees
    OBVIOUS
  <2> DEFINE security == {q \in Joined : q.adv.security /\ q.d.action # "none"}
             backed == {q \in Joined : ~q.adv.security /\ q.d.action # "none"}
             names == {r.d.pkg.name : r \in backed}
             observed == MapObservedUpgradablePackages(Upgradable, names)
             V == {MapDecisionRow(r) : r \in security}
             W == {MapDecisionRow(r) : r \in backed} \cup observed
             groups == VulnerablePage \cup UpgradablePage
             A == {0} \cup {ActionPriorityLabel(g.action) : g \in groups}
             B == {ActionPriority(overall)} \cup {2 : p \in Observed}
             known == {"reboot_host", "update_package", "investigate", "none"}
  <2>1. groups = GroupDecisionsByRemediation(V) \cup GroupDecisionsByRemediation(W)
    BY DEF VulnerablePage, UpgradablePage, GetVulnerablePackages, GetUpgradablePackages
  <2>2. \A r \in Joined : r.d \in rows /\ r.d.action \in known
    BY JoinedFacts, RowsSay DEF SaysOf
  <2>3. \A r \in Joined : MapDecisionRow(r).action = ActionLabel(r.d.action)
    BY DEF MapDecisionRow
  <2>0. /\ \A d \in rows : d.security \/ d.action = "none" \/ d.pkg.name \in names
        /\ \A n \in names : \E d \in rows : d.pkg.name = n /\ ~d.security /\ d.action # "none"
    <3>1. ASSUME NEW d \in rows, ~d.security, d.action # "none" PROVE d.pkg.name \in names
      <4>1. PICK r \in Joined : r.d = d
        BY JoinedFacts
      <4>2. r \in backed
        BY <3>1, <4>1, JoinedFacts
      <4> HIDE DEF backed
      <4> QED
        BY <4>1, <4>2
    <3>2. ASSUME NEW n \in names
          PROVE  \E d \in rows : d.pkg.name = n /\ ~d.security /\ d.action # "none"
      BY JoinedFacts
    <3> HIDE DEF names
    <3> QED
      BY <3>1, <3>2
  <2>15. V \subseteq {MapDecisionRow(r) : r \in Joined}
    OBVIOUS
  <2>16. W \subseteq {MapDecisionRow(r) : r \in Joined} \cup observed
    <3> HIDE DEF observed
    <3> QED
      OBVIOUS
  <2> HIDE DEF names
  <2>4. \A i \in observed : i.action = "Update available" /\ Observed # {}
    <3>1. ASSUME NEW i \in observed PROVE i.action = "Update available" /\ Observed # {}
      <4> DEFINE item(q) == [adv |-> HostPackageManager, pkg |-> q, status |-> "observed_upgradable", cves |-> {},
                             family |-> PackageFamilyLabel(q.name, NoText), action |-> "Update available",
                             severity |-> "Unknown"]
      <4>0. observed = {item(q) : q \in {r \in Upgradable : r.name \notin names}}
        BY DEF MapObservedUpgradablePackages
      <4>5. \A q : item(q).action = "Update available"
        OBVIOUS
      <4> HIDE DEF item, observed
      <4>1. PICK p \in Upgradable : p.name \notin names /\ i.action = "Update available"
        BY <4>0, <4>5
      <4>2. ASSUME NEW d \in rows, d.pkg.name = p.name PROVE d.security \/ d.action = "none"
        BY <4>1, <4>2, <2>0
      <4>3. p \in Observed
        BY <4>2 DEF Observed
      <4> QED
        BY <4>1, <4>3
    <3> QED
      BY <3>1
  <2>5. ASSUME NEW p \in Observed PROVE \E i \in observed : i.action = "Update available"
    <3>1. p \in Upgradable /\ p.name \notin names
      BY <2>0 DEF Observed
    <3> DEFINE item(q) == [adv |-> HostPackageManager, pkg |-> q, status |-> "observed_upgradable", cves |-> {},
                           family |-> PackageFamilyLabel(q.name, NoText), action |-> "Update available",
                           severity |-> "Unknown"]
    <3>2. item(p) \in observed
      BY <3>1 DEF MapObservedUpgradablePackages
    <3> QED
      BY <3>2
  <2>6. ActionPriority("none") = 0 /\ ActionPriorityLabel("Update available") = 2
    BY DEF ActionPriority, ActionPriorityLabel
  <2>7. overall \in known /\ ActionPriority(overall) \in 0..4
    <3>1. \A a \in known : ActionPriority(a) \in 0..4
      BY LabelFacts
    <3> QED
      BY <3>1, OverallFacts
  <2> HIDE DEF known, observed
  <2>8. A \in SUBSET (0..4) /\ B \in SUBSET (0..4) /\ A # {} /\ B # {}
    BY <2>7, LabelFacts
  <2>9. ASSUME NEW i \in V \cup W
        PROVE  \E x \in B : x >= ActionPriorityLabel(i.action)
    <3>1. CASE i \in observed
      <4>1. 2 \in B
        BY <3>1, <2>4
      <4>2. ActionPriorityLabel(i.action) = 2
        BY <3>1, <2>4, <2>6, Zenon
      <4>3. 2 >= 2
        OBVIOUS
      <4> HIDE DEF B
      <4> QED
        BY <4>1, <4>2, <4>3, Zenon
    <3>2. CASE i \notin observed
      <4>1. PICK r \in Joined : i = MapDecisionRow(r)
        <5> HIDE DEF V, W
        <5> QED
          BY <3>2, <2>15, <2>16
      <4>2. ActionPriorityLabel(i.action) = ActionPriority(r.d.action)
        BY <4>1, <2>2, <2>3, LabelFacts DEF known
      <4>3. ActionPriority(overall) >= ActionPriority(r.d.action)
        BY <2>2, OverallFacts
      <4> QED
        BY <4>2, <4>3
    <3> QED
      BY <3>1, <3>2
  <2>10. \A y \in A : \E x \in B : x >= y
    <3> HIDE DEF groups, V, W
    <3>2. \A g \in GroupDecisionsByRemediation(V) : \E i \in V : g.action = i.action
      BY GroupsShow
    <3>3. \A g \in GroupDecisionsByRemediation(W) : \E i \in W : g.action = i.action
      BY GroupsShow
    <3>1. \A g \in groups : \E i \in V \cup W : g.action = i.action
      BY <2>1, <3>2, <3>3
    <3> QED
      BY <3>1, <2>7, <2>9
  <2>11. ASSUME NEW i \in V \cup W
         PROVE  \E x \in A : x >= ActionPriorityLabel(i.action)
    <3> HIDE DEF groups, V, W
    <3>1. PICK g \in groups : ActionPriorityLabel(g.action) >= ActionPriorityLabel(i.action)
      BY <2>1, GroupsShow
    <3> QED
      BY <3>1
  <2>12. \E x \in A : x >= ActionPriority(overall)
    <3>1. CASE overall = "none"
      <4>1. 0 \in A
        OBVIOUS
      <4>2. ActionPriority(overall) = 0
        BY <3>1, <2>6, Zenon
      <4>3. 0 >= 0
        OBVIOUS
      <4> HIDE DEF A
      <4> QED
        BY <4>1, <4>2, <4>3, Zenon
    <3>2. CASE overall # "none"
      <4>1. PICK d \in rows : d.action = overall
        BY <3>2, OverallFacts
      <4>2. PICK r \in Joined : r.d = d
        BY JoinedFacts
      <4>3. MapDecisionRow(r) \in V \cup W
        BY <3>2, <4>1, <4>2
      <4>4. ActionPriorityLabel(MapDecisionRow(r).action) = ActionPriority(overall)
        BY <4>1, <4>2, <2>3, <2>7, LabelFacts DEF known
      <4> HIDE DEF V, W, A
      <4> QED
        BY <4>3, <4>4, <2>11
    <3> QED
      BY <3>1, <3>2
  <2>13. \A y \in B : \E x \in A : x >= y
    <3>1. ASSUME NEW p \in Observed PROVE \E x \in A : x >= 2
      <4>1. PICK i \in observed : i.action = "Update available"
        BY <2>5
      <4>2. i \in V \cup W
        OBVIOUS
      <4> HIDE DEF V, W, A
      <4> QED
        BY <4>1, <4>2, <2>6, <2>11
    <3> HIDE DEF A
    <3> QED
      BY <3>1, <2>12
  <2>14. Max(A) = Max(B)
    <3> HIDE DEF A, B
    <3> QED
      BY <2>8, <2>10, <2>13, SameMax
  <2> QED
    BY <2>14 DEF TopAgrees
<1> QED
  BY <1>1, PatchInvariant, PTL

-----------------------------------------------------------------------------
(* The number of entries on the pages.                                          *)

LEMMA SizeOfParts ==
    ASSUME NEW S, NEW T, IsFiniteSet(S), IsFiniteSet(T), S \cap T = {}
    PROVE  /\ IsFiniteSet(S \cup T)
           /\ Cardinality(S \cup T) = Cardinality(S) + Cardinality(T)
<1>1. Cardinality(S) \in Nat /\ Cardinality(T) \in Nat
  BY FS_CardinalityType
<1>2. Cardinality(S \cap T) = 0
  BY FS_EmptySet, Zenon
<1>3. /\ IsFiniteSet(S \cup T)
      /\ Cardinality(S \cup T) = Cardinality(S) + Cardinality(T) - Cardinality(S \cap T)
  BY FS_Union
<1> QED
  BY <1>1, <1>2, <1>3

LEMMA SameSize ==
    ASSUME NEW S, NEW T, IsFiniteSet(S), NEW f \in [S -> T],
           \A x, y \in S : f[x] = f[y] => x = y, \A z \in T : \E x \in S : f[x] = z
    PROVE  IsFiniteSet(T) /\ Cardinality(T) = Cardinality(S)
<1>1. f \in Surjection(S, T)
  BY DEF Surjection
<1>2. f \in Injection(S, T)
  BY DEF Injection, IsInjective
<1> QED
  BY <1>1, <1>2, FS_Surjection

\* iter adds up the packages of the groups in each subset of G, one group after the other.
IsSum(iter, G) ==
    iter = [s \in SUBSET G |-> IF s = {} THEN 0
                               ELSE (CHOOSE x \in s : TRUE).packages + iter[s \ {CHOOSE x \in s : TRUE}]]

\* A function on the subsets of G that grows with each group by its packages is their sum.
LEMMA PackagesSum ==
    ASSUME NEW G, IsFiniteSet(G), NEW size \in [SUBSET G -> Nat], size[{}] = 0,
           \A s \in SUBSET G : \A x \in s : size[s] = x.packages + size[s \ {x}]
    PROVE  MapThenSumSet(LAMBDA g : g.packages, G) = size[G]
<1> DEFINE Pick(s) == CHOOSE x \in s : TRUE
           chosen == CHOOSE iter : IsSum(iter, G)
<1>1. \A s \in SUBSET G : s # {} => Pick(s) \in s
  OBVIOUS
<1>2. IsSum(size, G)
  <2>1. \A s \in SUBSET G : size[s] = IF s = {} THEN 0 ELSE Pick(s).packages + size[s \ {Pick(s)}]
    <3> HIDE DEF Pick
    <3> QED
      BY <1>1
  <2> QED
    BY <2>1 DEF IsSum
<1>3. IsSum(chosen, G)
  BY <1>2, Zenon
<1>4. MapThenSumSet(LAMBDA g : g.packages, G) = chosen[G]
  BY Zenon DEF MapThenSumSet, MapThenFoldSet, IsSum
<1> HIDE DEF chosen
<1>5. \A s \in SUBSET G : chosen[s] = IF s = {} THEN 0 ELSE Pick(s).packages + chosen[s \ {Pick(s)}]
  BY <1>3 DEF IsSum
<1> DEFINE wrong == {s \in SUBSET G : chosen[s] # size[s]}
<1>6. ASSUME wrong # {} PROVE FALSE
  <2>1. wrong \in SUBSET (SUBSET G)
    OBVIOUS
  <2> HIDE DEF wrong
  <2>2. PICK s \in wrong : \A t \in wrong : t \subseteq s => t = s
    BY <1>6, <2>1, MinimalSubset
  <2>3. s \in SUBSET G /\ chosen[s] # size[s]
    BY <2>2 DEF wrong
  <2> HIDE DEF Pick
  <2>4. s # {}
    BY <2>3, <1>5
  <2>5. Pick(s) \in s /\ s \ {Pick(s)} \in SUBSET G /\ s \ {Pick(s)} # s
    BY <2>3, <2>4, <1>1
  <2>6. ~(s \ {Pick(s)} \in wrong)
    BY <2>2, <2>5
  <2>7. chosen[s \ {Pick(s)}] = size[s \ {Pick(s)}]
    BY <2>5, <2>6 DEF wrong
  <2>8. chosen[s] = Pick(s).packages + chosen[s \ {Pick(s)}]
    BY <2>3, <2>4, <1>5
  <2>9. size[s] = Pick(s).packages + size[s \ {Pick(s)}]
    BY <2>3, <2>5
  <2> QED
    BY <2>3, <2>7, <2>8, <2>9
<1>7. chosen[G] = size[G]
  BY <1>6
<1> QED
  BY <1>4, <1>7

\* The groups of a page count each of its items once.
LEMMA GroupsCount ==
    ASSUME NEW items, IsFiniteSet(items)
    PROVE  MapThenSumSet(LAMBDA g : g.packages, GroupDecisionsByRemediation(items)) = Cardinality(items)
<1> DEFINE G == GroupDecisionsByRemediation(items)
           families == {i.family : i \in items}
           Own(f) == {i \in items : i.family = f}
           group == [f \in families |-> RemediationGroup(f, Own(f))]
           family == [i \in items |-> i.family]
           Of(s) == {i \in items : \E g \in s : g.family = i.family}
           size == [s \in SUBSET G |-> Cardinality(Of(s))]
<1>1. G = {group[f] : f \in families}
  BY DEF GroupDecisionsByRemediation
<1>2. \A f \in families : group[f].family = f /\ group[f].packages = Cardinality(Own(f))
  BY DEF RemediationGroup
<1>3. IsFiniteSet(G)
  <2>1. family \in Surjection(items, families)
    BY DEF Surjection
  <2>2. IsFiniteSet(families)
    <3> HIDE DEF family, families
    <3> QED
      BY <2>1, FS_Surjection
  <2>3. group \in Surjection(families, G)
    <3> HIDE DEF families
    <3>1. \A f \in families : group[f] \in G
      BY <1>1
    <3>2. DOMAIN group = families /\ group = [f \in families |-> group[f]]
      OBVIOUS
    <3> HIDE DEF group, G
    <3> QED
      BY <1>1, <3>1, <3>2 DEF Surjection
  <2> HIDE DEF group, families, G
  <2> QED
    BY <2>2, <2>3, FS_Surjection
<1>4. \A g \in G : g.family \in families /\ g.packages = Cardinality(Own(g.family)) /\ g = group[g.family]
  <2> HIDE DEF group, families, Own
  <2> QED
    BY <1>1, <1>2
<1> HIDE DEF G, group
<1>5. \A s \in SUBSET G : IsFiniteSet(Of(s)) /\ Cardinality(Of(s)) \in Nat
  <2> SUFFICES ASSUME NEW s \in SUBSET G PROVE IsFiniteSet(Of(s)) /\ Cardinality(Of(s)) \in Nat
    OBVIOUS
  <2>1. Of(s) \in SUBSET items
    OBVIOUS
  <2> HIDE DEF Of
  <2> QED
    BY <2>1, FS_Subset, FS_CardinalityType
<1>6. ASSUME NEW s \in SUBSET G, NEW x \in s
      PROVE  Cardinality(Of(s)) = x.packages + Cardinality(Of(s \ {x}))
  <2> DEFINE own == Own(x.family)
             rest == Of(s \ {x})
  <2>1. Of(s) = own \cup rest
    OBVIOUS
  <2>2. own \cap rest = {}
    <3> SUFFICES ASSUME NEW g \in s \ {x}, g.family = x.family PROVE FALSE
      OBVIOUS
    <3> QED
      BY <1>4
  <2>3. own \in SUBSET items /\ rest \in SUBSET items
    OBVIOUS
  <2>4. x.packages = Cardinality(own)
    BY <1>4
  <2> HIDE DEF own, rest, Of
  <2>5. IsFiniteSet(own) /\ IsFiniteSet(rest)
    BY <2>3, FS_Subset
  <2>6. Cardinality(own \cup rest) = Cardinality(own) + Cardinality(rest)
    BY <2>2, <2>5, SizeOfParts
  <2> QED
    BY <2>1, <2>4, <2>6 DEF rest
<1>7. size \in [SUBSET G -> Nat] /\ \A s \in SUBSET G : size[s] = Cardinality(Of(s))
  BY <1>5
<1>8. size[{}] = 0
  <2>1. Of({}) = {}
    OBVIOUS
  <2> HIDE DEF Of, size
  <2> QED
    BY <2>1, <1>7, FS_EmptySet
<1>9. \A s \in SUBSET G : \A x \in s : size[s] = x.packages + size[s \ {x}]
  <2> HIDE DEF Of, size
  <2> QED
    BY <1>6, <1>7
<1>10. Of(G) = items
  <2>1. ASSUME NEW i \in items PROVE \E g \in G : g.family = i.family
    <3>1. i.family \in families
      OBVIOUS
    <3> HIDE DEF families
    <3> QED
      BY <3>1, <1>1, <1>2
  <2> QED
    BY <2>1
<1>11. MapThenSumSet(LAMBDA g : g.packages, G) = size[G]
  <2> HIDE DEF size
  <2> QED
    BY <1>3, <1>7, <1>8, <1>9, PackagesSum
<1>12. size[G] = Cardinality(items)
  <2> HIDE DEF Of, size
  <2> QED
    BY <1>7, <1>10
<1> QED
  BY <1>11, <1>12 DEF G

\* There is one record about a package of the snapshot, and it asks for nothing when it is resolved.
LEMMA RowsFacts ==
    ASSUME PatchInv, Matched
    PROVE  /\ IsFiniteSet(rows)
           /\ \A d, e \in rows : d.pkg = e.pkg => d = e
           /\ \A d \in rows : d.status = "resolved" <=> d.action = "none"
<1>1. published \in SUBSET Advisories /\ IsFiniteSet(published)
  BY DEF PatchInv, PublishedOK
<1>2. Covers(rows, AllDecisions(snap, published, Resolved))
  BY <1>1, BuildDecisionsCover DEF PatchInv, RowsFresh
<1>3. \A d, e \in rows : d.pkg = e.pkg => d = e
  BY <1>2 DEF Covers
<1>4. \A d \in rows : d.pkg \in snap.packages
  <2> SUFFICES ASSUME NEW d \in rows PROVE d.pkg \in snap.packages
    OBVIOUS
  <2>1. PICK a \in published : d \in AdvisoryDecisions(snap, a, Resolved)
    BY <1>2 DEF Covers, AllDecisions
  <2> QED
    BY <1>1, <2>1, AdvisoryDecisionsSay
<1>5. IsFiniteSet(snap.packages)
  BY DEF PatchInv, SnapOK, KernelsOK
<1> DEFINE pkg == [d \in rows |-> d.pkg]
<1>6. pkg \in Injection(rows, snap.packages)
  BY <1>3, <1>4 DEF Injection, IsInjective
<1>7. IsFiniteSet(rows)
  <2> HIDE DEF pkg
  <2> QED
    BY <1>5, <1>6, FS_Injection
<1> QED
  BY <1>3, <1>7, RowsSay DEF SaysOf

\* A page has one item for each record it is made of.
LEMMA ItemsCount ==
    ASSUME PatchInv, Matched, NEW rs \in SUBSET Joined
    PROVE  /\ IsFiniteSet({MapDecisionRow(r) : r \in rs})
           /\ Cardinality({MapDecisionRow(r) : r \in rs}) = Cardinality({r.d : r \in rs})
<1> DEFINE D == {r.d : r \in rs}
           items == {MapDecisionRow(r) : r \in rs}
           Row(d) == CHOOSE r \in Joined : r.d = d
           item == [d \in D |-> MapDecisionRow(Row(d))]
<1>1. \A r \in Joined : r.d \in rows /\ r.d.adv = r.adv.id /\ r.adv \in published
                        /\ r = [d |-> r.d, adv |-> r.adv]
  BY DEF Joined, ListDecisionPageRows
<1>2. \A r, q \in Joined : r.d = q.d => r = q
  <2> SUFFICES ASSUME NEW r \in Joined, NEW q \in Joined, r.d = q.d PROVE r = q
    OBVIOUS
  <2>1. r.adv = q.adv
    BY <1>1, AdvisoriesAssumption DEF PatchInv, PublishedOK
  <2> QED
    BY <1>1, <2>1
<1>3. \A r \in Joined : Row(r.d) = r
  BY <1>2
<1>4. \A r \in rs : item[r.d] = MapDecisionRow(r)
  BY <1>3
<1>5. \A r \in rs : MapDecisionRow(r).pkg = r.d.pkg
  BY DEF MapDecisionRow
<1> HIDE DEF item, Row
<1>6. item \in [D -> items]
  BY <1>3 DEF item
<1>7. \A x, y \in D : item[x] = item[y] => x = y
  <2> SUFFICES ASSUME NEW r \in rs, NEW q \in rs, item[r.d] = item[q.d] PROVE r.d = q.d
    OBVIOUS
  <2>1. r.d.pkg = q.d.pkg
    BY <1>4, <1>5
  <2> QED
    BY <2>1, <1>1, RowsFacts
<1>8. \A i \in items : \E d \in D : item[d] = i
  BY <1>4
<1>9. IsFiniteSet(D)
  <2>1. D \in SUBSET rows
    BY <1>1
  <2> HIDE DEF D
  <2> QED
    BY <2>1, RowsFacts, FS_Subset
<1> HIDE DEF D, items
<1>10. IsFiniteSet(items) /\ Cardinality(items) = Cardinality(D)
  BY <1>6, <1>7, <1>8, <1>9, SameSize
<1> QED
  BY <1>10 DEF D, items

\* The upgradable page also has one item for each package that only the package manager knows of.
LEMMA ObservedCount ==
    ASSUME PatchInv, Matched, NEW names,
           \A p \in Upgradable : p.name \in names <=> p \notin Observed
    PROVE  LET items == MapObservedUpgradablePackages(Upgradable, names)
           IN  /\ IsFiniteSet(items)
               /\ Cardinality(items) = Cardinality(Observed)
               /\ \A i \in items : i.pkg \in Observed
<1> DEFINE Item(p) == [adv |-> HostPackageManager, pkg |-> p, status |-> "observed_upgradable", cves |-> {},
                       family |-> PackageFamilyLabel(p.name, NoText), action |-> "Update available",
                       severity |-> "Unknown"]
           items == MapObservedUpgradablePackages(Upgradable, names)
           item == [p \in Observed |-> Item(p)]
<1>1. Observed \subseteq Upgradable
  BY DEF Observed
<1>2. {q \in Upgradable : q.name \notin names} = Observed
  BY <1>1
<1>3. items = {Item(p) : p \in {q \in Upgradable : q.name \notin names}}
  BY DEF MapObservedUpgradablePackages
<1>4. \A p : Item(p).pkg = p
  OBVIOUS
<1> HIDE DEF items, Item
<1>5. items = {Item(p) : p \in Observed}
  BY <1>2, <1>3
<1>6. item \in [Observed -> items] /\ \A i \in items : \E p \in Observed : item[p] = i
  BY <1>5
<1>7. \A p, q \in Observed : item[p] = item[q] => p = q
  BY <1>4
<1>8. IsFiniteSet(Observed)
  <2>1. Observed \in SUBSET snap.packages
    BY DEF Observed, Upgradable
  <2>2. IsFiniteSet(snap.packages)
    BY DEF PatchInv, SnapOK, KernelsOK
  <2> QED
    BY <2>1, <2>2, FS_Subset
<1> HIDE DEF item
<1>9. IsFiniteSet(items) /\ Cardinality(items) = Cardinality(Observed)
  BY <1>6, <1>7, <1>8, SameSize
<1> QED
  BY <1>4, <1>5, <1>9 DEF items

LEMMA CountsHold ==
    ASSUME PatchInv, Matched
    PROVE  CountsAgree
<1> DEFINE security == {q \in Joined : q.adv.security /\ q.d.action # "none"}
           backed == {q \in Joined : ~q.adv.security /\ q.d.action # "none"}
           names == {r.d.pkg.name : r \in backed}
           observed == MapObservedUpgradablePackages(Upgradable, names)
           V == {MapDecisionRow(r) : r \in security}
           U == {MapDecisionRow(r) : r \in backed}
           A == {r.d : r \in security}
           B == {r.d : r \in backed}
<1>1. /\ VulnerablePage = GroupDecisionsByRemediation(V)
      /\ UpgradablePage = GroupDecisionsByRemediation(U \cup observed)
  BY DEF VulnerablePage, UpgradablePage, GetVulnerablePackages, GetUpgradablePackages
<1>2. A = {d \in rows : d.security /\ d.action # "none"}
  BY JoinedFacts
<1>3. B = {d \in rows : ~d.security /\ d.action # "none"}
  BY JoinedFacts
<1>4. security \in SUBSET Joined /\ backed \in SUBSET Joined
  OBVIOUS
<1>5. \A n : n \in names <=> \E d \in B : d.pkg.name = n
  OBVIOUS
<1>6. \A i \in U : i.pkg.name \in names
  BY DEF MapDecisionRow
<1> HIDE DEF security, backed, names
<1>7. IsFiniteSet(V) /\ Cardinality(V) = Cardinality(A)
  BY <1>4, ItemsCount
<1>8. IsFiniteSet(U) /\ Cardinality(U) = Cardinality(B)
  BY <1>4, ItemsCount
<1> HIDE DEF V, U, A, B
<1>9. \A p \in Upgradable : p.name \in names <=> p \notin Observed
  BY <1>3, <1>5 DEF Observed
<1>10. /\ IsFiniteSet(observed) /\ Cardinality(observed) = Cardinality(Observed)
       /\ \A i \in observed : i.pkg \in Observed
  BY <1>9, ObservedCount
<1> HIDE DEF observed
<1>11. U \cap observed = {}
  <2> SUFFICES ASSUME NEW i \in U, i \in observed PROVE FALSE
    OBVIOUS
  <2>1. i.pkg \in Observed /\ i.pkg.name \in names
    BY <1>6, <1>10
  <2>2. i.pkg \in Upgradable
    BY <2>1 DEF Observed
  <2> QED
    BY <2>1, <2>2, <1>9
<1>12. /\ IsFiniteSet(U \cup observed)
       /\ Cardinality(U \cup observed) = Cardinality(B) + Cardinality(Observed)
  <2>1. /\ IsFiniteSet(U \cup observed)
        /\ Cardinality(U \cup observed) = Cardinality(U) + Cardinality(observed)
    BY <1>8, <1>10, <1>11, SizeOfParts
  <2> QED
    BY <2>1, <1>8, <1>10
<1>13. {d \in rows : d.status # "resolved"} = A \cup B /\ A \cap B = {}
  BY <1>2, <1>3, RowsFacts
<1>14. IsFiniteSet(A) /\ IsFiniteSet(B)
  <2>1. A \in SUBSET rows /\ B \in SUBSET rows
    BY <1>2, <1>3
  <2> QED
    BY <2>1, RowsFacts, FS_Subset
<1>15. Cardinality({d \in rows : d.status # "resolved"}) = Cardinality(A) + Cardinality(B)
  <2>1. Cardinality(A \cup B) = Cardinality(A) + Cardinality(B)
    BY <1>13, <1>14, SizeOfParts
  <2> QED
    BY <2>1, <1>13
<1>16. MapThenSumSet(LAMBDA g : g.packages, VulnerablePage) = Cardinality(A)
  BY <1>1, <1>7, GroupsCount
<1>17. MapThenSumSet(LAMBDA g : g.packages, UpgradablePage) = Cardinality(B) + Cardinality(Observed)
  BY <1>1, <1>12, GroupsCount
<1>18. Cardinality(A) \in Nat /\ Cardinality(B) \in Nat /\ Cardinality(Observed) \in Nat
  BY <1>10, <1>14, FS_CardinalityType
<1> QED
  BY <1>15, <1>16, <1>17, <1>18 DEF CountsAgree

\* The pages of a host and the host list tell the same: the highest action, the number of records
\* that ask for something, and what a reboot is good for.
THEOREM PagesTellTheSame == Spec => []PagesAgree
<1>1. PatchInv /\ Matched => CountsAgree
  BY CountsHold
<1> QED
  BY <1>1, PatchInvariant, RebootPromised, PagesShowOverall, PTL DEF PagesAgree
=============================================================================
