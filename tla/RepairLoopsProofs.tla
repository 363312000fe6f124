-------------------------- MODULE RepairLoopsProofs --------------------------
(***************************************************************************)
(* What RepairLoops' reports agree on, for any labels, claims and errata.  *)
(*                                                                         *)
(* The three state properties follow from the types alone, whatever the    *)
(* labels are: their content is that the rules of the reports fit.  The    *)
(* two about steps go through the actions.                                 *)
(***************************************************************************)
EXTENDS RepairLoops, SequenceTheorems, WellFoundedInduction, FiniteSetTheorems, TLAPS

-----------------------------------------------------------------------------
(* Types *)

LEMMA TypeInit == Init => TypeOK
  BY RepairAssumption DEF Init, TypeOK, RepairAssumption

LEMMA ClaimTyped ==
    TypeOK => \A n \in 1 .. Len(claims) : claims[n] \in [label : Labels, status : Status]
<1> DEFINE R == [label : Labels, status : Status]
<1>1. ASSUME claims \in Seq(R) PROVE \A n \in 1 .. Len(claims) : claims[n] \in R
  BY <1>1, ElementOfSeq
<1> QED
  BY <1>1 DEF TypeOK

LEMMA TypeStep == TypeOK /\ [Next]_vars => TypeOK'
<1> SUFFICES ASSUME TypeOK, [Next]_vars PROVE TypeOK'
  OBVIOUS
<1> USE DEF TypeOK
<1> MaxClaims \in Nat
  BY RepairAssumption DEF RepairAssumption
<1>1. CASE Wrap
  <2> PICK new \in Labels :
        claims' = Append(claims, [label |-> new, status |-> "PROPOSED"])
    BY <1>1 DEF Wrap
  <2>1. [label |-> new, status |-> "PROPOSED"] \in [label : Labels, status : Status]
    BY DEF Status
  <2> QED
    BY <1>1, <2>1 DEF Wrap
<1>2. CASE Settle
  <2> PICK n \in 1 .. Len(claims), status \in {"VALIDATED", "CONTRADICTED"} :
        claims' = [claims EXCEPT ![n].status = status]
    BY <1>2 DEF Settle
  <2>1. [claims[n] EXCEPT !.status = status] \in [label : Labels, status : Status]
    <3>1. claims[n] \in [label : Labels, status : Status]
      BY ClaimTyped
    <3> QED
      BY <3>1 DEF Status
  <2>2. claims' = [claims EXCEPT ![n] = [claims[n] EXCEPT !.status = status]]
    OBVIOUS
  <2>3. claims' \in Seq([label : Labels, status : Status]) /\ Len(claims') = Len(claims)
    BY <2>1, <2>2
  <2> QED
    BY <1>2, <2>3 DEF Settle
<1>3. CASE AddErratum
  BY <1>3 DEF AddErratum
<1>4. CASE UNCHANGED vars
  BY <1>4 DEF vars
<1> QED
  BY <1>1, <1>2, <1>3, <1>4 DEF Next

\* Claims and errata keep their types, however they are wrapped, settled and
\* corrected.
THEOREM TypeCorrect == Spec => []TypeOK
  BY TypeInit, TypeStep, PTL DEF Spec

-----------------------------------------------------------------------------
(* The reports of one state *)

\* The first of some claims is one of them.
LEMMA FirstIsMember ==
    ASSUME TypeOK, NEW S, S \subseteq Numbers, S # {}
    PROVE  Min(S) \in S
<1>1. S \subseteq Nat
  BY DEF TypeOK, Numbers
<1>2. PICK first \in S : \A n \in S : <<n, first>> \notin OpToRel(<, Nat)
  BY <1>1, NatLessThanWellFounded, WFMin
<1>3. \A n \in S : ~(n < first)
  BY <1>1, <1>2 DEF OpToRel
<1>4. \A n \in S : first <= n
  BY <1>1, <1>3
<1> QED
  BY <1>4 DEF Min

\* What preflight shows as fixed, repair-loops and preflight do not list as open:
\* the claim that decides the one closes the loop for the other, although it is
\* looked for among other claims.
THEOREM FixedStaysClosed == Spec => []FixedIsClosed
<1>1. TypeOK => FixedIsClosed
  <2> SUFFICES ASSUME TypeOK, NEW filter \in SUBSET Path, NEW n \in KnownFailures(filter),
                      RepairStatus(n, filter) = "fixed_same_scope"
               PROVE  /\ label(n).loop \notin OpenLoops
                      /\ \A other \in SUBSET Path :
                            label(n).loop \notin OpenLoopsForScope(other)
    BY DEF FixedIsClosed
  <2> DEFINE closers == {m \in InLoop(label(n).loop) \cap Candidates(filter) \cap Validated :
                           label(m).phase \in
                               {"same_scope_after_fix", "regression_check", "baseline"}}
  <2>1. closers # {} /\ label(Min(closers)).phase = "same_scope_after_fix"
    BY DEF RepairStatus
  <2>2. closers \subseteq Numbers
    BY DEF Validated
  <2>3. Min(closers) \in closers
    BY <2>1, <2>2, FirstIsMember
  <2>4. Min(closers) \in Fixes(label(n).loop)
    BY <2>1, <2>3 DEF Fixes
  <2>5. label(n).loop \notin OpenLoops
    BY <2>4 DEF OpenLoops
  <2> QED
    BY <2>5 DEF OpenLoopsForScope
<1> QED
  BY <1>1, TypeCorrect, PTL

\* A loop open or complete for repair-loops is so for doctor, which counts more
\* claims as failures.
THEOREM DoctorAgrees == Spec => []DoctorAgreesOnLoops
<1>1. DoctorAgreesOnLoops
  <2>1. \A l \in Loop : Baselines(l) # {} => l \in DoctorFailed
    BY DEF Baselines, DoctorFailed
  <2> QED
    BY <2>1 DEF DoctorAgreesOnLoops, OpenLoops, CompleteLoops, DoctorOpen, DoctorComplete,
                DoctorFixed
<1> QED
  BY <1>1, PTL

\* Every cohort of readiness holds exactly the organic failures of reliability:
\* an organic origin is a label, so no cohort leaves such a claim out.
THEOREM FailuresAgree == Spec => []OrganicFailuresAgree
<1>1. OrganicFailuresAgree
  <2>1. \A n \in Clean : Effective(n) = "organic_real" => n \in DqClaims
    BY DEF DqClaims, DqLabeled, Unlabelled
  <2>2. DqClaims \subseteq Clean
    BY DEF DqClaims
  <2> SUFFICES ASSUME NEW mode \in Mode
               PROVE  /\ OrganicFailures(Cohort(mode)) = ReliabilityFailures
                      /\ ReliabilityFailures \subseteq DoctorOrganicFailures
    BY DEF OrganicFailuresAgree
  <2>3. Cohort(mode) = DqClaims \/ Cohort(mode) = Clean
    BY DEF Cohort
  <2>4. Organic(Cohort(mode)) = {n \in Clean : Effective(n) = "organic_real"}
    BY <2>1, <2>2, <2>3 DEF Organic
  <2> QED
    BY <2>4 DEF OrganicFailures, ReliabilityFailures, DoctorOrganicFailures
<1> QED
  BY <1>1, PTL

-----------------------------------------------------------------------------
(* The reports before and after a step *)

\* What a step may do to a claim that is on file.
LEMMA LabelsStay ==
    ASSUME TypeOK, [Next]_vars
    PROVE  /\ Numbers \subseteq Numbers'
           /\ \A n \in Numbers : claims'[n].label = claims[n].label
<1> USE DEF TypeOK, Numbers
<1>1. CASE Wrap
  BY <1>1 DEF Wrap
<1>2. CASE Settle
  <2> PICK k \in 1 .. Len(claims), status \in {"VALIDATED", "CONTRADICTED"} :
        claims' = [claims EXCEPT ![k].status = status]
    BY <1>2 DEF Settle
  <2>1. Len(claims') = Len(claims)
    OBVIOUS
  <2>2. \A n \in 1 .. Len(claims) : claims[n] \in [label : Labels, status : Status]
    BY ClaimTyped
  <2>3. \A n \in 1 .. Len(claims) : claims'[n].label = claims[n].label
    BY <2>2
  <2> QED
    BY <2>1, <2>3
<1>3. CASE AddErratum
  BY <1>3 DEF AddErratum
<1>4. CASE UNCHANGED vars
  BY <1>4 DEF vars
<1> QED
  BY <1>1, <1>2, <1>3, <1>4 DEF Next

\* A loop stops being open only when its scope passes after the fix, or when one
\* of its failures is settled again as passed.
THEOREM LoopsStayOpen == Spec => OpenUntilFixed
<1> DEFINE Closer(l) ==
      \E n \in InLoop(l) :
         /\ claims[n].status # "VALIDATED"
         /\ claims'[n].status = "VALIDATED"
         /\ label(n).phase \in {"same_scope_after_fix", "baseline", "repair_attempt"}
<1>1. ASSUME TypeOK, [Next]_vars
      PROVE  \A l \in OpenLoops \ OpenLoops' : Closer(l)
  <2> SUFFICES ASSUME NEW l \in OpenLoops, l \notin OpenLoops' PROVE Closer(l)
    OBVIOUS
  <2> DEFINE failing(n) ==
        /\ claims'[n].label.loop = l /\ claims'[n].status = "CONTRADICTED"
        /\ claims'[n].label.phase \in {"baseline", "repair_attempt"}
             fix(n) ==
        /\ claims'[n].label.loop = l /\ claims'[n].status = "VALIDATED"
        /\ claims'[n].label.phase = "same_scope_after_fix"
  <2>1. (\A n \in Numbers' : ~failing(n)) \/ \E n \in Numbers' : fix(n)
    BY DEF OpenLoops, Baselines, Fixes, InLoop, Validated, Contradicted, label, Numbers
  <2>2. PICK b \in Numbers : /\ claims[b].label.loop = l
                             /\ claims[b].status = "CONTRADICTED"
                             /\ claims[b].label.phase \in {"baseline", "repair_attempt"}
    BY DEF OpenLoops, Baselines, InLoop, Contradicted, label
  <2>3. \A n \in Numbers : ~(/\ claims[n].label.loop = l /\ claims[n].status = "VALIDATED"
                             /\ claims[n].label.phase = "same_scope_after_fix")
    BY DEF OpenLoops, Fixes, InLoop, Validated, label
  <2>4. \A n \in Numbers : claims'[n].label = claims[n].label
    BY <1>1, LabelsStay
  <2>5. b \in Numbers'
    BY <1>1, LabelsStay
  <2>6. CASE Settle
    <3> PICK k \in 1 .. Len(claims), status \in {"VALIDATED", "CONTRADICTED"} :
          claims' = [claims EXCEPT ![k].status = status]
      BY <2>6 DEF Settle
    <3>1. Numbers' = Numbers
      BY <1>1 DEF Numbers, TypeOK
    <3>2. \A n \in Numbers \ {k} : claims'[n] = claims[n]
      BY <1>1 DEF Numbers, TypeOK
    <3>3. k \in Numbers /\ claims'[k].status = status
      <4>1. claims[k] \in [label : Labels, status : Status]
        BY <1>1, ClaimTyped
      <4> QED
        BY <1>1, <4>1 DEF Numbers, TypeOK
    <3>4. CASE \E n \in Numbers' : fix(n)
      <4> PICK n \in Numbers : fix(n)
        BY <3>1, <3>4
      <4>1. claims[n].status # "VALIDATED"
        BY <2>3, <2>4
      <4> QED
        BY <2>4, <4>1 DEF InLoop, label
    <3>5. CASE \A n \in Numbers' : ~failing(n)
      <4>1. claims'[b].status # "CONTRADICTED"
        BY <2>2, <2>4, <2>5, <3>5
      <4>2. b = k /\ status = "VALIDATED"
        BY <2>2, <3>2, <3>3, <4>1
      <4>3. claims'[b].status = "VALIDATED"
        BY <3>3, <4>2
      <4> QED
        BY <2>2, <4>3 DEF InLoop, label
    <3> QED
      BY <2>1, <3>4, <3>5
  <2>7. CASE Wrap
    <3> PICK new \in Labels :
          claims' = Append(claims, [label |-> new, status |-> "PROPOSED"])
      BY <2>7 DEF Wrap
    <3>1. \A n \in Numbers' : n \in Numbers \/ claims'[n].status = "PROPOSED"
      BY <1>1 DEF Numbers, TypeOK
    <3>2. \A n \in Numbers : claims'[n] = claims[n]
      BY <1>1 DEF Numbers, TypeOK
    <3> QED
      BY <2>1, <2>2, <2>3, <2>5, <3>1, <3>2
  <2>8. CASE AddErratum \/ UNCHANGED vars
    <3>1. claims' = claims
      BY <2>8 DEF AddErratum, vars
    <3> QED
      BY <2>1, <2>2, <2>3, <3>1 DEF Numbers
  <2> QED
    BY <1>1, <2>6, <2>7, <2>8 DEF Next
<1> QED
  BY <1>1, TypeCorrect, PTL DEF Spec, OpenUntilFixed

-----------------------------------------------------------------------------
(* Withdrawing an organic claim *)

LEMMA SubsetIsSmaller ==
    ASSUME NEW S, IsFiniteSet(S), NEW T \in SUBSET S, NEW k \in Nat, Cardinality(S) < k
    PROVE  Cardinality(T) < k
<1>1. Cardinality(T) <= Cardinality(S) /\ IsFiniteSet(T)
  BY FS_Subset
<1>2. Cardinality(T) \in Nat /\ Cardinality(S) \in Nat
  BY <1>1, FS_CardinalityType
<1> QED
  BY <1>1, <1>2

LEMMA NumbersFinite == ASSUME TypeOK PROVE IsFiniteSet(Numbers)
<1>1. Len(claims) \in Nat
  BY DEF TypeOK
<1> QED
  BY <1>1, FS_Interval DEF Numbers

\* Effective(n), and what Blocked(mode) looks at in cohort c, in the next state.
EffectiveAfter(n) == IF errata'[n] # NoErratum THEN errata'[n] ELSE claims'[n].label.origin

OrganicAfter(c) == {n \in c : EffectiveAfter(n) = "organic_real"}

FailuresAfter(c) ==
    OrganicAfter(c) \cap {n \in 1 .. Len(claims') : claims'[n].status = "CONTRADICTED"}

ComparableAfter(c) ==
    {key \in Group \X (Verification \cup Unlabelled) :
        Cardinality({n \in OrganicAfter(c) :
                        <<claims'[n].label.group, claims'[n].label.verification>> = key})
            >= PerGroupMin}

TooLowAfter(c, dqMode) ==
    LET total      == Cardinality(c)
        originless == {n \in c : EffectiveAfter(n) \in Unlabelled}
        unmeasured == {n \in c : claims'[n].label.verification \in Unlabelled}
    IN  IF dqMode
        THEN Cardinality(c \ (originless \cup unmeasured)) * 100 < CoverageMin * total
        ELSE (Cardinality(originless) + Cardinality(unmeasured)) * 100
                 > UnknownPctMax * 2 * total

\* The only step that changes the effective origin of a claim on file is its
\* correction, and then the claims and the other origins stay.
LEMMA OnlyACorrection ==
    ASSUME TypeOK, [Next]_vars, NEW n \in Numbers,
           Effective(n) = "organic_real", Effective(n)' # "organic_real"
    PROVE  /\ claims' = claims
           /\ \A m \in Numbers \ {n} : errata'[m] = errata[m]
<1>1. claims'[n].label = claims[n].label
  BY LabelsStay
<1>2. errata' # errata
  BY <1>1 DEF Effective, label
<1>3. AddErratum
  BY <1>2 DEF Next, vars, Wrap, Settle
<1>4. PICK k \in 1 .. Len(claims), origin \in Corrections :
        errata' = [errata EXCEPT ![k] = origin]
  BY <1>3 DEF AddErratum
<1>5. \A m \in Numbers \ {k} : errata'[m] = errata[m]
  BY <1>4 DEF Numbers, TypeOK
<1>6. k = n
  BY <1>1, <1>5 DEF Effective, label
<1> QED
  BY <1>3, <1>5, <1>6 DEF AddErratum

\* A cohort that was too small, failed too seldom, or could not be compared, is
\* no better off with one organic claim fewer.
LEMMA BlockedStays ==
    ASSUME TypeOK, [Next]_vars, NEW n \in Numbers, NEW mode \in Mode,
           Effective(n) = "organic_real",
           Effective(n)' \notin Unlabelled \cup {"organic_real"},
           Blocked(mode)
    PROVE  Blocked(mode)'
<1>1. claims' = claims /\ \A m \in Numbers \ {n} : errata'[m] = errata[m]
  BY OnlyACorrection
<1>2. EffectiveAfter(n) \notin Unlabelled \cup {"organic_real"}
  BY <1>1 DEF Effective, EffectiveAfter, label
<1>3. \A m \in Numbers \ {n} : EffectiveAfter(m) = Effective(m)
  BY <1>1 DEF Effective, EffectiveAfter, label
<1> DEFINE c == Cohort(mode)
<1>4. c \subseteq Numbers
  BY DEF Cohort, DqClaims, Clean
<1>5. \A m \in Numbers : EffectiveAfter(m) \in Unlabelled <=> Effective(m) \in Unlabelled
  BY <1>2, <1>3 DEF Unlabelled
<1>6. Clean' = Clean /\ Numbers' = Numbers
  BY <1>1 DEF Clean, Numbers, label
<1>7. DqClaims' = DqClaims
  <2>1. DqClaims' = {m \in Clean : \/ EffectiveAfter(m) \notin Unlabelled
                                   \/ Measured(m)
                                   \/ label(m).loop # NoLoop}
    BY <1>1, <1>6 DEF DqClaims, DqLabeled, Measured, Effective, EffectiveAfter, label
  <2>2. Clean \subseteq Numbers
    BY DEF Clean
  <2> QED
    BY <1>5, <2>1, <2>2 DEF DqClaims, DqLabeled
<1>8. Cohort(mode)' = c /\ (DqMode(mode)' <=> DqMode(mode))
  BY <1>6, <1>7 DEF Cohort, DqMode
<1>9. OrganicAfter(c) \subseteq Organic(c)
  BY <1>2, <1>3, <1>4 DEF OrganicAfter, Organic
<1>10. IsFiniteSet(Organic(c))
  <2>1. Organic(c) \subseteq Numbers
    BY <1>4 DEF Organic
  <2> QED
    BY <2>1, NumbersFinite, FS_Subset
<1>11. TooLowAfter(c, DqMode(mode)) <=> CoverageTooLow(c, DqMode(mode))
  <2>1. {m \in c : EffectiveAfter(m) \in Unlabelled} = {m \in c : Effective(m) \in Unlabelled}
    BY <1>4, <1>5
  <2>2. {m \in c : claims'[m].label.verification \in Unlabelled} = {m \in c : ~Measured(m)}
    BY <1>1 DEF label, Measured
  <2> QED
    BY <2>1, <2>2 DEF TooLowAfter, CoverageTooLow
<1>12. FailuresAfter(c) \subseteq OrganicFailures(c)
  BY <1>1, <1>9 DEF FailuresAfter, OrganicFailures, Contradicted, Numbers
<1>13. ComparableAfter(c) \subseteq Comparable(c)
  <2> SUFFICES ASSUME NEW key \in ComparableAfter(c) PROVE key \in Comparable(c)
    OBVIOUS
  <2> DEFINE new == {m \in OrganicAfter(c) :
                        <<claims'[m].label.group, claims'[m].label.verification>> = key}
             old == {m \in Organic(c) : <<label(m).group, label(m).verification>> = key}
  <2>1. new \subseteq old
    BY <1>1, <1>9 DEF label
  <2>2. IsFiniteSet(old)
    BY <1>10, FS_Subset
  <2>3. Cardinality(new) >= PerGroupMin /\ key \in Group \X (Verification \cup Unlabelled)
    BY DEF ComparableAfter
  <2>4. Cardinality(old) >= PerGroupMin
    <3>1. Cardinality(new) <= Cardinality(old) /\ IsFiniteSet(new)
      BY <2>1, <2>2, FS_Subset
    <3>2. Cardinality(new) \in Nat /\ Cardinality(old) \in Nat
      BY <2>2, <3>1, FS_CardinalityType
    <3> QED
      BY <2>3, <3>1, <3>2, RepairAssumption DEF RepairAssumption
  <2> QED
    BY <2>3, <2>4 DEF Comparable
<1>14. Blocked(mode)' <=>
          \/ Cohort(mode)' = {}
          \/ TooLowAfter(Cohort(mode)', DqMode(mode)')
          \/ Cardinality(OrganicAfter(Cohort(mode)')) < OrganicMin
          \/ Cardinality(FailuresAfter(Cohort(mode)')) < FailuresMin
          \/ Cardinality(ComparableAfter(Cohort(mode)')) < GroupsMin
  BY DEF Blocked, CoverageTooLow, Measured, Organic, OrganicFailures, Comparable, TooLowAfter,
         OrganicAfter, FailuresAfter, ComparableAfter, Effective, EffectiveAfter,
         Contradicted, Numbers, label
<1>15. {OrganicMin, FailuresMin, GroupsMin} \subseteq Nat /\ IsFiniteSet(Group)
  BY RepairAssumption DEF RepairAssumption
<1>16. CASE Cardinality(Organic(c)) < OrganicMin
  <2>1. Cardinality(OrganicAfter(c)) < OrganicMin
    BY <1>9, <1>10, <1>15, <1>16, SubsetIsSmaller
  <2> QED
    BY <1>8, <1>14, <2>1
<1>17. CASE Cardinality(OrganicFailures(c)) < FailuresMin
  <2>1. IsFiniteSet(OrganicFailures(c))
    BY <1>10, FS_Subset DEF OrganicFailures
  <2>2. Cardinality(FailuresAfter(c)) < FailuresMin
    BY <1>12, <1>15, <1>17, <2>1, SubsetIsSmaller
  <2> QED
    BY <1>8, <1>14, <2>2
<1>18. CASE Cardinality(Comparable(c)) < GroupsMin
  <2>1. IsFiniteSet(Group \X (Verification \cup Unlabelled))
    <3>1. IsFiniteSet({"none"}) /\ IsFiniteSet({"unknown"})
      BY FS_Singleton
    <3>2. IsFiniteSet({"none"} \cup {"unknown"})
      BY <3>1, FS_Union
    <3>3. Unlabelled = {"none"} \cup {"unknown"}
      BY DEF Unlabelled
    <3>4. IsFiniteSet(Verification \cup Unlabelled)
      BY <3>2, <3>3, FS_Union, RepairAssumption DEF RepairAssumption
    <3> QED
      BY <1>15, <3>4, FS_Product
  <2>2. IsFiniteSet(Comparable(c))
    BY <2>1, FS_Subset DEF Comparable
  <2>3. Cardinality(ComparableAfter(c)) < GroupsMin
    BY <1>13, <1>15, <1>18, <2>2, SubsetIsSmaller
  <2> QED
    BY <1>8, <1>14, <2>3
<1>19. CASE c = {} \/ CoverageTooLow(c, DqMode(mode))
  <2>1. TooLowAfter(c, DqMode(mode)') <=> TooLowAfter(c, DqMode(mode))
    BY <1>8 DEF TooLowAfter
  <2>2. TooLowAfter(Cohort(mode)', DqMode(mode)') <=> TooLowAfter(c, DqMode(mode)')
    BY <1>8, Zenon
  <2> QED
    BY <1>8, <1>11, <1>14, <1>19, <2>1, <2>2
<1> QED
  BY <1>16, <1>17, <1>18, <1>19 DEF Blocked

\* Correcting an organic claim to another known origin never turns a blocked
\* level into a better one, in any mode.
THEOREM WithdrawalStaysBlocked == Spec => WithdrawalNeverUnblocks
<1>1. ASSUME TypeOK, [Next]_vars
      PROVE  \A n \in Numbers :
                /\ Effective(n) = "organic_real"
                /\ Effective(n)' \notin Unlabelled \cup {"organic_real"}
                => \A mode \in Mode :
                      ReadinessLevel(mode) = "blocked" => ReadinessLevel(mode)' = "blocked"
  <2> SUFFICES ASSUME NEW n \in Numbers,
                      Effective(n) = "organic_real",
                      Effective(n)' \notin Unlabelled \cup {"organic_real"},
                      NEW mode \in Mode, ReadinessLevel(mode) = "blocked"
               PROVE  ReadinessLevel(mode)' = "blocked"
    OBVIOUS
  <2>1. Blocked(mode)
    BY DEF ReadinessLevel
  <2>2. Blocked(mode)'
    BY <1>1, <2>1, BlockedStays
  <2> QED
    BY <2>2 DEF ReadinessLevel
<1> QED
  BY <1>1, TypeCorrect, PTL DEF Spec, WithdrawalNeverUnblocks

=============================================================================
