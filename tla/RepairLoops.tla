----------------------------- MODULE RepairLoops -----------------------------
(***************************************************************************)
(* What the advisory reports make of labelled claims: repair-loops and     *)
(* doctor (cli.py), preflight (preflight.py), m2b-readiness                *)
(* (m2b_readiness.py) and reliability (reliability.py).                    *)
(*                                                                         *)
(* A wrapped command is labelled when it is recorded, gets its outcome     *)
(* later, and its failure origin may be corrected by an erratum at any     *)
(* time; each report reads the two files and works out its own idea of     *)
(* which loops are closed and which failures count.  A claim is its latest *)
(* record, in the order in which claims were first recorded.               *)
(***************************************************************************)
EXTENDS Naturals, Sequences, FiniteSets, FiniteSetsExt

CONSTANTS
    Loop,          \* the repair loops
    NoLoop,        \* a claim without repair_loop_id
    Path,          \* scope paths
    Inside,        \* <<inner, outer>>: the one path lies under the other
    Group,         \* an agent, with its model and task type
    Verification,  \* the verification scopes, but for "unknown"
    Labels,        \* the labels commands are wrapped with
    Corrections,   \* the origins errata correct to
    NoErratum,     \* no erratum for a claim
    MaxClaims,     \* bound: claims recorded
    MaxErrata,     \* bound: claims corrected
    OrganicMin, FailuresMin, GroupsMin, PerGroupMin, LoopsMin,
    UnknownPctMax, CoverageMin      \* _THRESHOLDS of m2b_readiness

Origin == {"organic_real", "controlled_real", "invocation_artifact", "synthetic",
           "test_first_contract", "unresolved_downstream", "unknown"}
Unlabelled == {"none", "unknown"}

Phase == {"baseline", "repair_attempt", "same_scope_after_fix", "regression_check", "none"}

\* clean: the attribution is complete (is_clean); origin or verification "none": no
\* failure_origin, no verification_scope is given.
Label == [loop : Loop \cup {NoLoop}, phase : Phase, origin : Origin \cup {"none"},
          scope : SUBSET Path, verification : Verification \cup Unlabelled,
          group : Group, clean : BOOLEAN]

Status == {"PROPOSED", "VALIDATED", "CONTRADICTED"}

ASSUME RepairAssumption ==
    /\ NoLoop \notin Loop
    /\ NoErratum \notin Origin
    /\ Inside \subseteq Path \X Path
    /\ Labels \subseteq Label
    /\ Corrections \subseteq Origin
    /\ IsFiniteSet(Group) /\ IsFiniteSet(Verification)
    /\ Verification \cap Unlabelled = {}
    /\ {MaxClaims, MaxErrata, OrganicMin, FailuresMin, GroupsMin, PerGroupMin,
        LoopsMin, UnknownPctMax, CoverageMin} \subseteq Nat

VARIABLES
    claims,    \* claims.jsonl: label and status of each claim
    errata     \* errata.jsonl: the last correction of each claim

vars == <<claims, errata>>

TypeOK ==
    /\ claims \in Seq([label : Labels, status : Status])
    /\ Len(claims) <= MaxClaims
    /\ errata \in [1 .. MaxClaims -> Corrections \cup {NoErratum}]

-----------------------------------------------------------------------------
Init ==
    /\ claims = <<>>
    /\ errata = [n \in 1 .. MaxClaims |-> NoErratum]

\* wrap, up to the command: the claim is on file before its outcome is known.
Wrap ==
    /\ Len(claims) < MaxClaims
    /\ \E label \in Labels :
          claims' = Append(claims, [label |-> label, status |-> "PROPOSED"])
    /\ UNCHANGED errata

\* settle_claim, by wrap or by hand, and as often as it is asked.
Settle ==
    /\ \E n \in 1 .. Len(claims), status \in {"VALIDATED", "CONTRADICTED"} :
          claims' = [claims EXCEPT ![n].status = status]
    /\ UNCHANGED errata

\* errata add: the last correction of a claim wins.
AddErratum ==
    /\ \E n \in 1 .. Len(claims), origin \in Corrections :
          errata' = [errata EXCEPT ![n] = origin]
    /\ Cardinality({n \in 1 .. MaxClaims : errata'[n] # NoErratum}) <= MaxErrata
    /\ UNCHANGED claims

Next == Wrap \/ Settle \/ AddErratum

Spec == Init /\ [][Next]_vars

-----------------------------------------------------------------------------
(* The claims and what is known about them *)

Numbers == 1 .. Len(claims)
label(n) == claims[n].label

Validated    == {n \in Numbers : claims[n].status = "VALIDATED"}
Contradicted == {n \in Numbers : claims[n].status = "CONTRADICTED"}

\* effective_failure_origin
Effective(n) == IF errata[n] # NoErratum THEN errata[n] ELSE label(n).origin

\* rm.clean_claims, which takes in claims that have no outcome yet.
Clean == {n \in Numbers : label(n).clean}

InLoop(l) == {n \in Numbers : label(n).loop = l}

-----------------------------------------------------------------------------
(* repair-loops *)

Baselines(l) ==
    {n \in InLoop(l) \cap Contradicted : label(n).phase \in {"baseline", "repair_attempt"}}

\* Mutant of Fixes: a regression check closes a loop as well.
FixesOrRegressions(l) ==
    {n \in InLoop(l) \cap Validated :
        label(n).phase \in {"same_scope_after_fix", "regression_check"}}

Fixes(l) == {n \in InLoop(l) \cap Validated : label(n).phase = "same_scope_after_fix"}

OpenLoops     == {l \in Loop : Baselines(l) # {} /\ Fixes(l) = {}}
CompleteLoops == {l \in Loop : Baselines(l) # {} /\ Fixes(l) # {}}

-----------------------------------------------------------------------------
(* doctor: evidence hygiene *)

\* Mutant of DoctorFailed: failures are looked for in the clean claims only.
DoctorFailedClean == {l \in Loop : InLoop(l) \cap Contradicted \cap Clean # {}}

DoctorFailed   == {l \in Loop : InLoop(l) \cap Contradicted # {}}
DoctorFixed    == {l \in Loop : Fixes(l) # {}}
DoctorComplete == DoctorFailed \cap DoctorFixed
DoctorOpen     == (DoctorFailed \cup DoctorFixed) \ DoctorComplete

\* The failures of doctor and of failures, clean or not.
DoctorOrganicFailures == {n \in Contradicted : Effective(n) = "organic_real"}

-----------------------------------------------------------------------------
(* preflight *)

Near(p, q) == p = q \/ <<p, q>> \in Inside \/ <<q, p>> \in Inside

Candidates(filter) ==
    {n \in Clean : filter # {} => \E p \in filter, q \in label(n).scope : Near(p, q)}

KnownFailures(filter) ==
    {n \in Candidates(filter) \cap Contradicted :
        Effective(n) \in {"organic_real", "controlled_real"}}

\* Mutant of RepairStatus: any validation after the failure closes it.
RepairStatusByAny(n, filter) ==
    IF Effective(n) # label(n).origin THEN "classified_errata"
    ELSE IF InLoop(label(n).loop) \cap Candidates(filter) \cap Validated # {}
         THEN "fixed_same_scope" ELSE "open"

\* The first validated claim of the loop that closes anything decides, whether
\* it came before or after the failure.
RepairStatus(n, filter) ==
    LET closers == {m \in InLoop(label(n).loop) \cap Candidates(filter) \cap Validated :
                      label(m).phase \in
                          {"same_scope_after_fix", "regression_check", "baseline"}}
    IN  IF Effective(n) # label(n).origin THEN "classified_errata"
        ELSE IF label(n).loop = NoLoop \/ closers = {} THEN "open"
        ELSE IF label(Min(closers)).phase = "same_scope_after_fix"
             THEN "fixed_same_scope" ELSE "later_regression_validated"

\* The scope of a loop is that of its first claim that has one.
LoopScope(l) ==
    LET scoped == {n \in InLoop(l) : label(n).scope # {}}
    IN  IF scoped = {} THEN {} ELSE label(Min(scoped)).scope

OpenLoopsForScope(filter) ==
    {l \in OpenLoops : \E p \in filter, q \in LoopScope(l) : Near(p, q)}

-----------------------------------------------------------------------------
(* m2b-readiness and reliability *)

\* A verification_scope is given, and is not "unknown".
Measured(n) == label(n).verification \notin Unlabelled

\* Mutants of DqLabeled: errata are not looked at; or only an organic failure
\* is a label.
DqLabeledRaw(n) ==
    \/ label(n).origin \notin Unlabelled
    \/ Measured(n)
    \/ label(n).loop # NoLoop

DqLabeledIfOrganic(n) ==
    \/ Effective(n) = "organic_real"
    \/ Measured(n)
    \/ label(n).loop # NoLoop

DqLabeled(n) ==
    \/ Effective(n) \notin Unlabelled
    \/ Measured(n)
    \/ label(n).loop # NoLoop

DqClaims == {n \in Clean : DqLabeled(n)}

Mode == {"default", "dq_cohort", "all_ledger"}

DqMode(mode) == mode = "dq_cohort" \/ (mode = "default" /\ DqClaims # {})

Cohort(mode) == IF DqMode(mode) THEN DqClaims ELSE Clean

Organic(cohort) == {n \in cohort : Effective(n) = "organic_real"}
OrganicFailures(cohort) == Organic(cohort) \cap Contradicted

\* Groups are told apart by their verification scope as well, and one that is "unknown"
\* is another than none.
Comparable(cohort) ==
    {key \in Group \X (Verification \cup Unlabelled) :
        Cardinality({n \in Organic(cohort) :
                        <<label(n).group, label(n).verification>> = key}) >= PerGroupMin}

\* Loops of the cohort with both labels, whatever their outcomes.
CompleteByLabel(cohort) ==
    {l \in Loop :
        {"baseline", "same_scope_after_fix"} \subseteq
            {label(n).phase : n \in InLoop(l) \cap cohort}}

\* Percentages, multiplied out.
CoverageTooLow(cohort, dqMode) ==
    LET total      == Cardinality(cohort)
        originless == {n \in cohort : Effective(n) \in Unlabelled}
        unmeasured == {n \in cohort : ~Measured(n)}
    IN  IF dqMode
        THEN Cardinality(cohort \ (originless \cup unmeasured)) * 100 < CoverageMin * total
        ELSE (Cardinality(originless) + Cardinality(unmeasured)) * 100
                 > UnknownPctMax * 2 * total

Blocked(mode) ==
    LET cohort == Cohort(mode)
    IN  \/ cohort = {}
        \/ CoverageTooLow(cohort, DqMode(mode))
        \/ Cardinality(Organic(cohort)) < OrganicMin
        \/ Cardinality(OrganicFailures(cohort)) < FailuresMin
        \/ Cardinality(Comparable(cohort)) < GroupsMin

ReadinessLevel(mode) ==
    LET cohort == Cohort(mode)
    IN  IF Blocked(mode) THEN "blocked"
        ELSE IF \/ Cardinality(CompleteByLabel(cohort)) < LoopsMin
                \/ \E n \in cohort : Effective(n) = "invocation_artifact"
             THEN "weak" ELSE "review_ready"

\* reliability --organic-only: the clean claims it counts as failures.
ReliabilityFailures == {n \in Clean : Effective(n) = "organic_real"} \cap Contradicted

-----------------------------------------------------------------------------
(* Properties *)

\* repair-loops-json.md: "regression_check does NOT make a loop complete".  A
\* loop stops being open only when a check of the same scope passes after the
\* fix, or when one of its failures is itself settled again as passed.
OpenUntilFixed ==
    [][\A l \in OpenLoops \ OpenLoops' :
          \E n \in InLoop(l) :
             /\ claims[n].status # "VALIDATED"
             /\ claims'[n].status = "VALIDATED"
             /\ label(n).phase \in {"same_scope_after_fix", "baseline", "repair_attempt"}]_vars

\* What preflight shows as fixed by a check of the same scope is in no loop that
\* repair-loops, or the same preflight, lists as open; although the one looks at
\* the clean claims of a scope and the other at all there are.
FixedIsClosed ==
    \A filter \in SUBSET Path : \A n \in KnownFailures(filter) :
        RepairStatus(n, filter) = "fixed_same_scope" =>
            /\ label(n).loop \notin OpenLoops
            /\ \A other \in SUBSET Path : label(n).loop \notin OpenLoopsForScope(other)

\* doctor and repair-loops count failures differently; but what repair-loops has
\* as open or complete, doctor has as open or complete.
DoctorAgreesOnLoops == OpenLoops \subseteq DoctorOpen /\ CompleteLoops \subseteq DoctorComplete

\* Three reports and four cohorts, one count: every organic failure that
\* readiness counts, in whichever mode, is one that reliability counts and
\* doctor shows, and readiness loses none of those of reliability to a cohort,
\* however claims were labelled, corrected and settled.
OrganicFailuresAgree ==
    \A mode \in Mode :
        /\ OrganicFailures(Cohort(mode)) = ReliabilityFailures
        /\ ReliabilityFailures \subseteq DoctorOrganicFailures

\* Taking evidence back never makes readiness look better: when a claim counted
\* as organic is corrected to another known origin, a blocked level stays so.
WithdrawalNeverUnblocks ==
    [][\A n \in Numbers :
          /\ Effective(n) = "organic_real"
          /\ Effective(n)' \notin Unlabelled \cup {"organic_real"}
          => \A mode \in Mode :
                ReadinessLevel(mode) = "blocked" => ReadinessLevel(mode)' = "blocked"]_vars

=============================================================================
