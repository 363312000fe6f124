------------------------ MODULE ClaimSettlementProofs ------------------------
(***************************************************************************)
(* Proofs about ClaimSettlement, for any processes, claim ids and times,   *)
(* and any number of settlements.                                          *)
(*                                                                         *)
(* No property here is inductive by itself: what a settlement will write   *)
(* was computed when it began, and others have written since.  Each gets a *)
(* clause about the settlements under way.                                 *)
(***************************************************************************)
EXTENDS ClaimSettlement, SequenceTheorems, FiniteSetTheorems, WellFoundedInduction, TLAPS

\* Among numbers up to n there is a largest, and Max names it: counted down from n,
\* one of them comes first.
LEMMA MaxOfBounded ==
    ASSUME NEW n \in Nat, NEW S \in SUBSET (1 .. n), S # {}
    PROVE  Max(S) \in S /\ \A x \in S : x <= Max(S)
<1> DEFINE D == {k \in Nat : n - k \in S}
<1>1. \A x \in S : n - x \in D /\ n - (n - x) = x
    OBVIOUS
<1>2. PICK d \in D : \A e \in D : <<e, d>> \notin OpToRel(<, Nat)
    BY <1>1, NatLessThanWellFounded, WFMin
<1>3. \A x \in S : ~(n - x < d)
    BY <1>1, <1>2 DEF OpToRel
<1>4. n - d \in S /\ \A x \in S : x <= n - d
    BY <1>3
<1> QED
    BY <1>4 DEF Max

Busy == {p \in Proc : pc[p] # "idle"}

\* A settlement under way holds a settled record, which ends with the event it was
\* called with.
JobInv ==
    \A p \in Busy :
        /\ job[p] \in Job
        /\ job[p].record.status # "PROPOSED"
        /\ job[p].record.events # <<>>
        /\ job[p].record.events[Len(job[p].record.events)] = job[p].event

Base == TypeOK /\ JobInv

-----------------------------------------------------------------------------
(* Sequences as sets of elements *)

\* An append adds one element.
LEMMA ElementsOfAppend ==
    ASSUME NEW S, NEW seq \in Seq(S), NEW e \in S
    PROVE  Elements(Append(seq, e)) = Elements(seq) \cup {e}
<1>1. Len(Append(seq, e)) = Len(seq) + 1 /\ Len(seq) \in Nat
    BY AppendProperties, LenProperties
<1>2. /\ \A n \in 1 .. Len(seq) : Append(seq, e)[n] = seq[n]
      /\ Append(seq, e)[Len(seq) + 1] = e
    BY AppendProperties
<1> QED
    BY <1>1, <1>2 DEF Elements

\* The elements are of the type of the sequence.
LEMMA ElementsType ==
    ASSUME NEW S, NEW seq \in Seq(S)
    PROVE  Elements(seq) \subseteq S
    BY ElementOfSeq DEF Elements

\* A recorded claim has a latest record, which is one of its records.
LEMMA LatestIsARecord ==
    ASSUME TypeOK, NEW id \in Recorded
    PROVE  /\ Latest(id) \in Elements(claims)
           /\ Latest(id) \in ClaimRecord
           /\ Latest(id).id = id
<1> DEFINE S == {n \in 1 .. Len(claims) : claims[n].id = id}
<1>1. Len(claims) \in Nat
    BY LenProperties DEF TypeOK
<1>2. S # {} /\ S \in SUBSET (1 .. Len(claims))
    BY DEF Recorded, Elements
<1>3. Max(S) \in S
    BY <1>1, <1>2, MaxOfBounded
<1>4. Latest(id) = claims[Max(S)]
    BY DEF Latest
<1>5. Latest(id) \in Elements(claims) /\ Latest(id).id = id
    BY <1>3, <1>4 DEF Elements
<1> QED
    BY <1>5, ElementsType DEF TypeOK

\* What a settlement makes of a record is a record of the same claim and seal, with
\* one more event, the event of the settlement, and a verdict.
LEMMA SettledRecordFacts ==
    ASSUME NEW record \in ClaimRecord, NEW event \in Event
    PROVE  LET new == SettledRecord(record, event)
           IN  /\ new \in ClaimRecord
               /\ new.id = record.id /\ new.predicted = record.predicted
               /\ new.claimTime = record.claimTime
               /\ new.evidenceEnd = record.evidenceEnd
               /\ new.outcomeTime = IF record.outcomeTime = None THEN event.at
                                                                  ELSE record.outcomeTime
               /\ new.status # "PROPOSED"
               /\ new.events = Append(record.events, event)
<1> DEFINE new == SettledRecord(record, event)
<1>1. record.events \in Seq(Event)
    BY DEF ClaimRecord
<1>2. Append(record.events, event) \in Seq(Event)
    BY <1>1, AppendProperties
<1>3. Verdict(record.predicted, event.observed) \in {"VALIDATED", "CONTRADICTED"}
    BY DEF Verdict
<1>4. event.at \in Time
    BY DEF Event
<1> QED
    BY <1>2, <1>3, <1>4 DEF SettledRecord, ClaimRecord, Status

-----------------------------------------------------------------------------
(* Types, and what the settlements under way hold *)

\* What BeginSettle picks: a claim that was recorded, and an event later than it.
LEMMA BeginSettleFacts ==
    ASSUME TypeOK, NEW p \in Proc, BeginSettle(p)
    PROVE  \E id \in Recorded, event \in Event :
              /\ event.at > Latest(id).claimTime
              /\ ~Poisoned(Latest(id).claimTime, Latest(id).evidenceEnd,
                           Latest(id).outcomeTime)
              /\ job' = [job EXCEPT ![p] = [event  |-> event,
                                            record |-> SettledRecord(Latest(id), event)]]
    BY DEF BeginSettle

\* A job that was just begun is well formed.
LEMMA NewJob ==
    ASSUME TypeOK, NEW id \in Recorded, NEW event \in Event,
           NEW j, j = [event |-> event, record |-> SettledRecord(Latest(id), event)]
    PROVE  /\ j \in Job
           /\ j.record.status # "PROPOSED"
           /\ j.record.events # <<>>
           /\ j.record.events[Len(j.record.events)] = j.event
<1> DEFINE old == Latest(id)
           new == SettledRecord(old, event)
<1>1. old \in ClaimRecord
    BY LatestIsARecord
<1>2. /\ new \in ClaimRecord /\ new.status # "PROPOSED"
      /\ new.events = Append(old.events, event)
    BY <1>1, SettledRecordFacts
<1>3. old.events \in Seq(Event)
    BY <1>1 DEF ClaimRecord
<1> HIDE DEF new, old
<1>4. /\ Append(old.events, event) # <<>>
      /\ Append(old.events, event)[Len(Append(old.events, event))] = event
    BY <1>3, AppendProperties
<1>5. j.record = new /\ j.event = event /\ j \in Job
    BY <1>2 DEF Job, new, old
<1> QED
    BY <1>2, <1>4, <1>5

\* Every step of a settlement keeps the types and the jobs.
LEMMA BaseStep == Base /\ [Next]_vars => Base'
<1> SUFFICES ASSUME Base, [Next]_vars PROVE Base'
    OBVIOUS
<1>0. TypeOK /\ JobInv
    BY DEF Base
<1>1. ASSUME NEW p \in Proc, RecordClaim(p) PROVE Base'
  <2>1. PICK r \in ClaimRecord : claims' = Append(claims, r)
    <3>1. PICK id \in ClaimId \ Recorded, predicted \in BOOLEAN,
               claimTime \in Time, evidenceEnd \in Time, outcomeTime \in Time \cup {None} :
             claims' = Append(claims,
                [id |-> id, predicted |-> predicted,
                 claimTime |-> claimTime, evidenceEnd |-> evidenceEnd,
                 outcomeTime |-> outcomeTime,
                 status |-> "PROPOSED", events |-> <<>>])
      BY <1>1 DEF RecordClaim
    <3>2. <<>> \in Seq(Event)
      BY EmptySeq
    <3> QED
      BY <3>1, <3>2 DEF ClaimRecord, Status
  <2>2. claims' \in Seq(ClaimRecord)
    BY <1>0, <2>1, AppendProperties DEF TypeOK
  <2>3. UNCHANGED <<outcomes, scores, pc, job, settles, disturbed>>
    BY <1>1 DEF RecordClaim
  <2> QED
    BY <1>0, <2>2, <2>3 DEF Base, TypeOK, JobInv, Busy
<1>2. ASSUME NEW p \in Proc, BeginSettle(p) PROVE Base'
  <2>1. PICK id \in Recorded, event \in Event :
           job' = [job EXCEPT ![p] = [event  |-> event,
                                      record |-> SettledRecord(Latest(id), event)]]
    BY <1>0, <1>2, BeginSettleFacts
  <2> DEFINE j == [event |-> event, record |-> SettledRecord(Latest(id), event)]
  <2>2. /\ j \in Job /\ j.record.status # "PROPOSED" /\ j.record.events # <<>>
        /\ j.record.events[Len(j.record.events)] = j.event
    BY <1>0, NewJob
  <2>3. job' = [job EXCEPT ![p] = j]
    BY <2>1
  <2> HIDE DEF j
  <2>4. pc' = [pc EXCEPT ![p] = "computed"] /\ settles < MaxSettles /\ settles' = settles + 1
    BY <1>2 DEF BeginSettle
  <2>5. disturbed' \subseteq ClaimId
    <3>1. Recorded \subseteq ClaimId
      <4>1. Elements(claims) \subseteq ClaimRecord
        BY <1>0, ElementsType DEF TypeOK
      <4> QED
        BY <4>1 DEF Recorded, ClaimRecord
    <3>2. disturbed \subseteq ClaimId
      BY <1>0 DEF TypeOK
    <3>3. \E c \in Recorded : disturbed' = disturbed \/ disturbed' = disturbed \cup {c}
      BY <1>2 DEF BeginSettle
    <3> QED
      BY <3>1, <3>2, <3>3
  <2>6. UNCHANGED <<claims, outcomes, scores>>
    BY <1>2 DEF BeginSettle
  <2>7. TypeOK'
    <3>1. job' \in [Proc -> Job \cup {None}]
      BY <1>0, <2>2, <2>3 DEF TypeOK
    <3>2. /\ pc' \in [Proc -> {"idle", "computed", "observed", "scored"}]
          /\ settles' \in 0 .. MaxSettles
      BY <1>0, <2>4, SettlementAssumption DEF TypeOK
    <3> QED
      BY <1>0, <2>5, <2>6, <3>1, <3>2 DEF TypeOK
  <2>8. JobInv'
    BY <1>0, <2>2, <2>3, <2>4 DEF JobInv, Busy, TypeOK
  <2> QED
    BY <2>7, <2>8 DEF Base
<1>3. ASSUME NEW p \in Proc, WriteOutcome(p) PROVE Base'
  <2>1. job[p] \in Job
    BY <1>0, <1>3 DEF JobInv, Busy, WriteOutcome
  <2>2. [id |-> job[p].record.id, event |-> job[p].event] \in Outcome
    BY <2>1 DEF Job, ClaimRecord, Outcome
  <2>3. outcomes' \in Seq(Outcome)
    BY <1>0, <1>3, <2>2, AppendProperties DEF TypeOK, WriteOutcome
  <2> QED
    BY <1>0, <1>3, <2>3 DEF Base, TypeOK, JobInv, Busy, WriteOutcome
<1>4. ASSUME NEW p \in Proc, WriteScore(p) PROVE Base'
  <2>1. job[p] \in Job
    BY <1>0, <1>4 DEF JobInv, Busy, WriteScore
  <2>2. [id |-> job[p].record.id, status |-> job[p].record.status,
         events |-> job[p].record.events] \in Score
    BY <2>1 DEF Job, ClaimRecord, Score
  <2>3. scores' \in Seq(Score)
    BY <1>0, <1>4, <2>2, AppendProperties DEF TypeOK, WriteScore
  <2> QED
    BY <1>0, <1>4, <2>3 DEF Base, TypeOK, JobInv, Busy, WriteScore
<1>5. ASSUME NEW p \in Proc, WriteClaim(p) PROVE Base'
  <2>1. job[p] \in Job
    BY <1>0, <1>5 DEF JobInv, Busy, WriteClaim
  <2>2. job[p].record \in ClaimRecord
    BY <2>1 DEF Job
  <2>3. claims' \in Seq(ClaimRecord)
    BY <1>0, <1>5, <2>2, AppendProperties DEF TypeOK, WriteClaim
  <2> QED
    BY <1>0, <1>5, <2>3 DEF Base, TypeOK, JobInv, Busy, WriteClaim
<1>6. ASSUME NEW p \in Proc, Crash(p) PROVE Base'
  <2>1. job[p].record.id \in ClaimId
    BY <1>0, <1>6 DEF JobInv, Busy, Crash, Job, ClaimRecord
  <2> QED
    BY <1>0, <1>6, <2>1 DEF Base, TypeOK, JobInv, Busy, Crash
<1>7. CASE UNCHANGED vars
    BY <1>0, <1>7 DEF Base, TypeOK, JobInv, Busy, vars
<1> QED
    BY <1>1, <1>2, <1>3, <1>4, <1>5, <1>6, <1>7 DEF Next

\* There is nothing at first.
LEMMA BaseInit == Init => Base
    BY EmptySeq, SettlementAssumption DEF Init, Base, TypeOK, JobInv, Busy

\* Every file, and what every settlement holds, is of its type.
THEOREM TypeCorrect == Spec => []TypeOK
<1>1. Spec => []Base
    BY BaseInit, BaseStep, PTL DEF Spec
<1>2. Base => TypeOK
    BY DEF Base
<1> QED
    BY <1>1, <1>2, PTL

\* What any step does to claims.jsonl: nothing, or the record of a claim that had
\* none, or the record of a settlement that has written its score.
LEMMA ClaimsStep ==
    ASSUME Base, [Next]_vars
    PROVE  \/ claims' = claims
           \/ \E r \in ClaimRecord :
                /\ claims' = Append(claims, r) /\ r.id \notin Recorded
                /\ r.status = "PROPOSED" /\ r.events = <<>>
                /\ ~Poisoned(r.claimTime, r.evidenceEnd, r.outcomeTime)
                /\ UNCHANGED <<outcomes, scores, pc, job>>
           \/ \E p \in Proc : /\ WriteClaim(p) /\ p \in Busy
                              /\ job[p].record \in ClaimRecord
                              /\ claims' = Append(claims, job[p].record)
<1>1. ASSUME NEW p \in Proc, RecordClaim(p)
      PROVE  \E r \in ClaimRecord :
                /\ claims' = Append(claims, r) /\ r.id \notin Recorded
                /\ r.status = "PROPOSED" /\ r.events = <<>>
                /\ ~Poisoned(r.claimTime, r.evidenceEnd, r.outcomeTime)
                /\ UNCHANGED <<outcomes, scores, pc, job>>
  <2>1. PICK id \in ClaimId \ Recorded, predicted \in BOOLEAN,
             claimTime \in Time, evidenceEnd \in Time, outcomeTime \in Time \cup {None} :
           /\ ~Poisoned(claimTime, evidenceEnd, outcomeTime)
           /\ claims' = Append(claims,
                [id |-> id, predicted |-> predicted,
                 claimTime |-> claimTime, evidenceEnd |-> evidenceEnd,
                 outcomeTime |-> outcomeTime,
                 status |-> "PROPOSED", events |-> <<>>])
    BY <1>1 DEF RecordClaim
  <2> DEFINE r == [id |-> id, predicted |-> predicted,
                   claimTime |-> claimTime, evidenceEnd |-> evidenceEnd,
                   outcomeTime |-> outcomeTime, status |-> "PROPOSED", events |-> <<>>]
  <2>2. r \in ClaimRecord
    BY EmptySeq DEF ClaimRecord, Status
  <2>3. /\ r.id \notin Recorded /\ r.status = "PROPOSED" /\ r.events = <<>>
        /\ ~Poisoned(r.claimTime, r.evidenceEnd, r.outcomeTime)
    BY <2>1
  <2>4. UNCHANGED <<outcomes, scores, pc, job>>
    BY <1>1 DEF RecordClaim
  <2> QED
    BY <2>1, <2>2, <2>3, <2>4
<1>2. ASSUME NEW p \in Proc, WriteClaim(p)
      PROVE  /\ p \in Busy /\ job[p].record \in ClaimRecord
             /\ claims' = Append(claims, job[p].record)
    BY <1>2 DEF WriteClaim, Busy, Base, JobInv, Job
<1>3. ASSUME NEW p \in Proc,
             BeginSettle(p) \/ WriteOutcome(p) \/ WriteScore(p) \/ Crash(p)
      PROVE  claims' = claims
    BY <1>3 DEF BeginSettle, WriteOutcome, WriteScore, Crash
<1>4. CASE UNCHANGED vars
    BY <1>4 DEF vars
<1> QED
    BY <1>1, <1>2, <1>3, <1>4 DEF Next

\* What any step does to the jobs: those still under way are as they were, except the
\* one a settlement begins with, which is made of the latest record of its claim.
LEMMA JobsStep ==
    ASSUME Base, [Next]_vars, NEW q \in Busy'
    PROVE  \/ q \in Busy /\ job'[q] = job[q]
           \/ \E id \in Recorded, event \in Event :
                /\ job'[q] = [event |-> event, record |-> SettledRecord(Latest(id), event)]
                /\ event.at > Latest(id).claimTime
                /\ ~Poisoned(Latest(id).claimTime, Latest(id).evidenceEnd,
                             Latest(id).outcomeTime)
                /\ UNCHANGED <<claims, outcomes, scores>> /\ pc'[q] = "computed"
<1>0. TypeOK
    BY DEF Base
<1>1. ASSUME NEW p \in Proc, BeginSettle(p)
      PROVE  \/ q \in Busy /\ job'[q] = job[q]
             \/ \E id \in Recorded, event \in Event :
                /\ job'[q] = [event |-> event, record |-> SettledRecord(Latest(id), event)]
                /\ event.at > Latest(id).claimTime
                /\ ~Poisoned(Latest(id).claimTime, Latest(id).evidenceEnd,
                             Latest(id).outcomeTime)
                /\ UNCHANGED <<claims, outcomes, scores>> /\ pc'[q] = "computed"
  <2>1. PICK id \in Recorded, event \in Event :
              /\ event.at > Latest(id).claimTime
              /\ ~Poisoned(Latest(id).claimTime, Latest(id).evidenceEnd,
                           Latest(id).outcomeTime)
              /\ job' = [job EXCEPT ![p] = [event  |-> event,
                                            record |-> SettledRecord(Latest(id), event)]]
    BY <1>0, <1>1, BeginSettleFacts
  <2>2. pc' = [pc EXCEPT ![p] = "computed"] /\ UNCHANGED <<claims, outcomes, scores>>
    BY <1>1 DEF BeginSettle
  <2>3. CASE q = p
    BY <1>0, <2>1, <2>2, <2>3 DEF TypeOK
  <2>4. CASE q # p
    BY <1>0, <2>1, <2>2, <2>4 DEF TypeOK, Busy
  <2> QED
    BY <2>3, <2>4
<1>2. ASSUME NEW p \in Proc, RecordClaim(p) \/ WriteOutcome(p) \/ WriteScore(p)
      PROVE  q \in Busy /\ job'[q] = job[q]
    BY <1>0, <1>2 DEF RecordClaim, WriteOutcome, WriteScore, Busy, TypeOK
<1>3. ASSUME NEW p \in Proc, WriteClaim(p) \/ Crash(p)
      PROVE  q \in Busy /\ job'[q] = job[q]
    BY <1>0, <1>3 DEF WriteClaim, Crash, Busy, TypeOK
<1>4. CASE UNCHANGED vars
    BY <1>4 DEF vars, Busy
<1> QED
    BY <1>1, <1>2, <1>3, <1>4 DEF Next

-----------------------------------------------------------------------------
(* Nothing leaks *)

\* A record whose evidence is not younger than the claim and whose outcomes are.
Clean(record) ==
    /\ record.evidenceEnd <= record.claimTime
    /\ record.outcomeTime # None => record.outcomeTime > record.claimTime
    /\ \A n \in 1 .. Len(record.events) : record.events[n].at > record.claimTime

LeakInv ==
    /\ Base
    /\ \A record \in Elements(claims) : Clean(record)
    /\ \A p \in Busy : Clean(job[p].record)

\* A settlement keeps a record clean when its event comes after the claim.
LEMMA CleanSettled ==
    ASSUME NEW record \in ClaimRecord, NEW event \in Event, Clean(record),
           event.at > record.claimTime
    PROVE  Clean(SettledRecord(record, event))
<1> DEFINE new == SettledRecord(record, event)
<1>1. /\ new.claimTime = record.claimTime /\ new.evidenceEnd = record.evidenceEnd
      /\ new.outcomeTime = IF record.outcomeTime = None THEN event.at
                                                         ELSE record.outcomeTime
      /\ new.events = Append(record.events, event)
    BY SettledRecordFacts
<1>2. record.events \in Seq(Event)
    BY DEF ClaimRecord
<1>3. Len(record.events) \in Nat
    BY <1>2, LenProperties
<1>4. /\ Len(Append(record.events, event)) = Len(record.events) + 1
      /\ \A n \in 1 .. Len(record.events) : Append(record.events, event)[n] = record.events[n]
      /\ Append(record.events, event)[Len(record.events) + 1] = event
    BY <1>2, AppendProperties
<1> HIDE DEF new
<1>5. \A n \in 1 .. Len(new.events) : new.events[n].at > new.claimTime
  <2> SUFFICES ASSUME NEW n \in 1 .. Len(new.events)
               PROVE  new.events[n].at > new.claimTime
    OBVIOUS
  <2>1. CASE n = Len(record.events) + 1
    BY <1>1, <1>4, <2>1
  <2>2. CASE n \in 1 .. Len(record.events)
    BY <1>1, <1>4, <2>2 DEF Clean
  <2> QED
    BY <1>1, <1>3, <1>4, <2>1, <2>2
<1>6. new.evidenceEnd <= new.claimTime
    BY <1>1 DEF Clean
<1>7. new.outcomeTime # None => new.outcomeTime > new.claimTime
    BY <1>1 DEF Clean
<1>8. Clean(new)
    BY <1>5, <1>6, <1>7 DEF Clean
<1> QED
    BY <1>8 DEF new

\* Every step leaves clean records only, in the file and in the settlements under way.
LEMMA LeakStep == LeakInv /\ [Next]_vars => LeakInv'
<1> SUFFICES ASSUME LeakInv, [Next]_vars PROVE LeakInv'
    OBVIOUS
<1>0. Base /\ TypeOK /\ Base'
    BY BaseStep DEF LeakInv, Base
<1>1. \A record \in Elements(claims') : Clean(record)
  <2>1. CASE claims' = claims
    BY <2>1 DEF LeakInv
  <2>2. ASSUME NEW r \in ClaimRecord, claims' = Append(claims, r), r.events = <<>>,
               ~Poisoned(r.claimTime, r.evidenceEnd, r.outcomeTime)
        PROVE  \A record \in Elements(claims') : Clean(record)
    <3>1. /\ r.claimTime \in Int /\ r.evidenceEnd \in Int
          /\ r.outcomeTime \in Int \/ r.outcomeTime = None
      BY SettlementAssumption DEF ClaimRecord, Time
    <3>2. r.evidenceEnd <= r.claimTime
      BY <2>2, <3>1 DEF Poisoned
    <3>3. r.outcomeTime # None => r.outcomeTime > r.claimTime
      BY <2>2, <3>1 DEF Poisoned
    <3>4. Len(r.events) = 0
      BY <2>2, EmptySeq
    <3>5. Clean(r)
      BY <3>2, <3>3, <3>4 DEF Clean
    <3> QED
      BY <1>0, <2>2, <3>5, ElementsOfAppend DEF LeakInv, TypeOK
  <2>3. ASSUME NEW p \in Busy, job[p].record \in ClaimRecord,
               claims' = Append(claims, job[p].record)
        PROVE  \A record \in Elements(claims') : Clean(record)
    BY <1>0, <2>3, ElementsOfAppend DEF LeakInv, TypeOK
  <2> QED
    BY <1>0, <2>1, <2>2, <2>3, ClaimsStep
<1>2. ASSUME NEW q \in Busy' PROVE Clean(job'[q].record)
  <2>1. CASE q \in Busy /\ job'[q] = job[q]
    BY <2>1 DEF LeakInv
  <2>2. ASSUME NEW id \in Recorded, NEW event \in Event,
               job'[q] = [event |-> event, record |-> SettledRecord(Latest(id), event)],
               event.at > Latest(id).claimTime
        PROVE  Clean(job'[q].record)
    <3>1. Latest(id) \in Elements(claims) /\ Latest(id) \in ClaimRecord
      BY <1>0, LatestIsARecord
    <3>2. Clean(SettledRecord(Latest(id), event))
      BY <2>2, <3>1, CleanSettled DEF LeakInv
    <3> QED
      BY <2>2, <3>2
  <2> QED
    BY <1>0, <2>1, <2>2, JobsStep
<1> QED
    BY <1>0, <1>1, <1>2 DEF LeakInv, Elements, Busy

\* What was known never reaches back before the claim, in any record stored.
THEOREM NothingLeaks == Spec => []NoLeakage
<1>1. Init => LeakInv
    BY BaseInit, EmptySeq DEF Init, LeakInv, Elements, Busy
<1>2. LeakInv => NoLeakage
    BY DEF LeakInv, NoLeakage, Clean
<1> QED
    BY <1>1, <1>2, LeakStep, PTL DEF Spec

-----------------------------------------------------------------------------
(* The seal is frozen *)

\* Two records of one claim that say the same of what was sealed.
SameSeal(r, s) ==
    /\ r.predicted = s.predicted
    /\ r.claimTime = s.claimTime
    /\ r.evidenceEnd = s.evidenceEnd

\* All records of a claim have one seal, only the first of them is a proposal, and
\* a settlement under way is of a claim that was recorded and has that seal too.
SealInv ==
    /\ Base
    /\ \A r, s \in Elements(claims) : r.id = s.id => SameSeal(r, s)
    /\ \A m, n \in 1 .. Len(claims) :
          m < n /\ claims[m].id = claims[n].id => claims[n].status # "PROPOSED"
    /\ \A p \in Busy :
          /\ job[p].record.id \in Recorded
          /\ \A r \in Elements(claims) :
                r.id = job[p].record.id => SameSeal(r, job[p].record)

\* The records of claims.jsonl after any step.
LEMMA SealOfClaims ==
    ASSUME SealInv, [Next]_vars
    PROVE  /\ \A r, s \in Elements(claims') : r.id = s.id => SameSeal(r, s)
           /\ \A m, n \in 1 .. Len(claims') :
                 m < n /\ claims'[m].id = claims'[n].id => claims'[n].status # "PROPOSED"
<1>0. Base /\ claims \in Seq(ClaimRecord) /\ Len(claims) \in Nat
    BY LenProperties DEF SealInv, Base, TypeOK
<1>1. CASE claims' = claims
    BY <1>1 DEF SealInv
<1>2. ASSUME NEW e \in ClaimRecord, claims' = Append(claims, e),
             \A r \in Elements(claims) : r.id = e.id => SameSeal(r, e),
             e.status # "PROPOSED" \/ e.id \notin Recorded
      PROVE  /\ \A r, s \in Elements(claims') : r.id = s.id => SameSeal(r, s)
             /\ \A m, n \in 1 .. Len(claims') :
                   m < n /\ claims'[m].id = claims'[n].id => claims'[n].status # "PROPOSED"
  <2>1. Elements(claims') = Elements(claims) \cup {e}
    BY <1>0, <1>2, ElementsOfAppend
  <2>2. \A r, s \in Elements(claims') : r.id = s.id => SameSeal(r, s)
    BY <1>2, <2>1 DEF SealInv, SameSeal
  <2>3. /\ Len(claims') = Len(claims) + 1
        /\ \A n \in 1 .. Len(claims) : claims'[n] = claims[n]
        /\ claims'[Len(claims) + 1] = e
    BY <1>0, <1>2, AppendProperties
  <2>4. ASSUME NEW m \in 1 .. Len(claims'), NEW n \in 1 .. Len(claims'),
               m < n, claims'[m].id = claims'[n].id
        PROVE  claims'[n].status # "PROPOSED"
    <3>1. m \in 1 .. Len(claims) /\ claims[m] \in Elements(claims)
      BY <1>0, <2>3, <2>4 DEF Elements
    <3>2. CASE n \in 1 .. Len(claims)
      BY <2>3, <2>4, <3>1, <3>2 DEF SealInv
    <3>3. CASE n = Len(claims) + 1
      BY <1>2, <2>3, <2>4, <3>1, <3>3 DEF Recorded
    <3> QED
      BY <1>0, <2>3, <3>2, <3>3
  <2> QED
    BY <2>2, <2>4
<1>3. ASSUME NEW e \in ClaimRecord, claims' = Append(claims, e), e.id \notin Recorded
      PROVE  \A r \in Elements(claims) : r.id = e.id => SameSeal(r, e)
    BY <1>3 DEF Recorded
<1>4. ASSUME NEW p \in Busy
      PROVE  /\ \A r \in Elements(claims) :
                   r.id = job[p].record.id => SameSeal(r, job[p].record)
             /\ job[p].record.status # "PROPOSED"
    BY <1>0, <1>4 DEF SealInv, Base, JobInv
<1> QED
    BY <1>0, <1>1, <1>2, <1>3, <1>4, ClaimsStep

\* The settlements under way after any step.
LEMMA SealOfJobs ==
    ASSUME SealInv, [Next]_vars, NEW q \in Busy'
    PROVE  /\ job'[q].record.id \in Recorded'
           /\ \A r \in Elements(claims') :
                 r.id = job'[q].record.id => SameSeal(r, job'[q].record)
<1>0. Base /\ TypeOK /\ claims \in Seq(ClaimRecord)
    BY DEF SealInv, Base, TypeOK
<1>1. CASE q \in Busy /\ job'[q] = job[q]
  <2>1. /\ job[q].record.id \in Recorded
        /\ \A r \in Elements(claims) :
              r.id = job[q].record.id => SameSeal(r, job[q].record)
    BY <1>1 DEF SealInv
  <2>2. CASE claims' = claims
    BY <1>1, <2>1, <2>2 DEF Recorded
  <2>3. ASSUME NEW e \in ClaimRecord, claims' = Append(claims, e),
               e.id = job[q].record.id => SameSeal(e, job[q].record)
        PROVE  /\ job'[q].record.id \in Recorded'
               /\ \A r \in Elements(claims') :
                     r.id = job'[q].record.id => SameSeal(r, job'[q].record)
    BY <1>0, <1>1, <2>1, <2>3, ElementsOfAppend DEF Recorded
  <2>4. ASSUME NEW p \in Busy, job[p].record.id = job[q].record.id
        PROVE  SameSeal(job[p].record, job[q].record)
    <3>1. PICK r \in Elements(claims) : r.id = job[q].record.id
      BY <2>1 DEF Recorded
    <3>2. SameSeal(r, job[p].record) /\ SameSeal(r, job[q].record)
      BY <2>1, <2>4, <3>1 DEF SealInv
    <3> QED
      BY <3>2 DEF SameSeal
  <2> QED
    BY <1>0, <2>1, <2>2, <2>3, <2>4, ClaimsStep
<1>2. ASSUME NEW id \in Recorded, NEW event \in Event,
             job'[q] = [event |-> event, record |-> SettledRecord(Latest(id), event)],
             UNCHANGED claims
      PROVE  /\ job'[q].record.id \in Recorded'
             /\ \A r \in Elements(claims') :
                   r.id = job'[q].record.id => SameSeal(r, job'[q].record)
  <2> DEFINE old == Latest(id)
             new == SettledRecord(old, event)
  <2>1. old \in Elements(claims) /\ old \in ClaimRecord /\ old.id = id
    BY <1>0, LatestIsARecord
  <2>2. new.id = id /\ SameSeal(old, new)
    BY <2>1, SettledRecordFacts DEF SameSeal
  <2>3. job'[q].record = new
    BY <1>2
  <2> HIDE DEF old, new
  <2>4. \A r \in Elements(claims) : r.id = id => SameSeal(r, new)
    BY <2>1, <2>2 DEF SealInv, SameSeal
  <2> QED
    BY <1>2, <2>2, <2>3, <2>4 DEF Recorded
<1> QED
    BY <1>0, <1>1, <1>2, JobsStep

\* Every step keeps the seals.
LEMMA SealStep == SealInv /\ [Next]_vars => SealInv'
<1> SUFFICES ASSUME SealInv, [Next]_vars PROVE SealInv'
    OBVIOUS
<1>1. Base'
    BY BaseStep DEF SealInv
<1>2. \A q \in Busy' :
          /\ job'[q].record.id \in Recorded'
          /\ \A r \in Elements(claims') :
                r.id = job'[q].record.id => SameSeal(r, job'[q].record)
    BY SealOfJobs
<1> QED
    BY <1>1, <1>2, SealOfClaims DEF SealInv, Elements, Busy, Recorded

\* A claim that was settled stays settled, and every record of it has the seal it
\* was recorded with.
THEOREM SealStaysFrozen == Spec => []SealIsFrozen
<1>1. Init => SealInv
    BY BaseInit, EmptySeq DEF Init, SealInv, Elements, Busy
<1>2. SealInv => SealIsFrozen
  <2> SUFFICES ASSUME SealInv, NEW m \in 1 .. Len(claims), NEW n \in 1 .. Len(claims),
                      m < n, claims[m].id = claims[n].id
               PROVE  IsSettled(claims[n]) /\ SameSeal(claims[m], claims[n])
    BY DEF SealIsFrozen, SameSeal
  <2>1. claims[m] \in Elements(claims) /\ claims[n] \in Elements(claims)
    BY DEF Elements
  <2>2. claims[n] \in ClaimRecord
    BY <2>1, ElementsType DEF SealInv, Base, TypeOK
  <2> QED
    BY <2>1, <2>2 DEF SealInv, IsSettled, ClaimRecord, Status
<1> QED
    BY <1>1, <1>2, SealStep, PTL DEF Spec

-----------------------------------------------------------------------------
(* A settlement is accounted for *)

ScoreOf(record) ==
    [id |-> record.id, status |-> record.status, events |-> record.events]

\* The outcome of each of these events of a claim is among those written.
Backed(id, events, written) ==
    \A n \in 1 .. Len(events) : [id |-> id, event |-> events[n]] \in written

\* A stored record rests on outcomes, and a settled one has a last event and a score;
\* so will the record of a settlement, by the time it has written that much.
AccountInv ==
    /\ Base
    /\ \A record \in Elements(claims) :
          /\ Backed(record.id, record.events, Elements(outcomes))
          /\ record.status # "PROPOSED" =>
                record.events # <<>> /\ ScoreOf(record) \in Elements(scores)
    /\ \A score \in Elements(scores) : Backed(score.id, score.events, Elements(outcomes))
    /\ \A p \in Busy :
          /\ \A n \in 1 .. Len(job[p].record.events) - 1 :
                [id |-> job[p].record.id, event |-> job[p].record.events[n]]
                    \in Elements(outcomes)
          /\ pc[p] \in {"observed", "scored"} =>
                Backed(job[p].record.id, job[p].record.events, Elements(outcomes))
          /\ pc[p] = "scored" => ScoreOf(job[p].record) \in Elements(scores)

\* No step takes an outcome or a score away.
LEMMA FilesGrow ==
    ASSUME Base, [Next]_vars
    PROVE  /\ Elements(outcomes) \subseteq Elements(outcomes')
           /\ Elements(scores) \subseteq Elements(scores')
<1>0. TypeOK /\ JobInv
    BY DEF Base
<1>1. ASSUME NEW p \in Proc, WriteOutcome(p)
      PROVE  /\ Elements(outcomes) \subseteq Elements(outcomes') /\ scores' = scores
  <2>1. [id |-> job[p].record.id, event |-> job[p].event] \in Outcome
    BY <1>0, <1>1 DEF WriteOutcome, JobInv, Busy, Job, ClaimRecord, Outcome
  <2> QED
    BY <1>0, <1>1, <2>1, ElementsOfAppend DEF WriteOutcome, TypeOK
<1>2. ASSUME NEW p \in Proc, WriteScore(p)
      PROVE  outcomes' = outcomes /\ Elements(scores) \subseteq Elements(scores')
  <2>1. ScoreOf(job[p].record) \in Score
    BY <1>0, <1>2 DEF WriteScore, JobInv, Busy, Job, ClaimRecord, Score, ScoreOf
  <2> QED
    BY <1>0, <1>2, <2>1, ElementsOfAppend DEF WriteScore, TypeOK, ScoreOf
<1>3. ASSUME NEW p \in Proc, RecordClaim(p) \/ BeginSettle(p) \/ WriteClaim(p) \/ Crash(p)
      PROVE  UNCHANGED <<outcomes, scores>>
    BY <1>3 DEF RecordClaim, BeginSettle, WriteClaim, Crash
<1>4. CASE UNCHANGED vars
    BY <1>4 DEF vars
<1> QED
    BY <1>1, <1>2, <1>3, <1>4 DEF Next, Elements

\* claims.jsonl after any step.
LEMMA AccountOfClaims ==
    ASSUME AccountInv, [Next]_vars, NEW record \in Elements(claims')
    PROVE  /\ Backed(record.id, record.events, Elements(outcomes'))
           /\ record.status # "PROPOSED" =>
                 record.events # <<>> /\ ScoreOf(record) \in Elements(scores')
<1>0. Base /\ TypeOK /\ JobInv /\ claims \in Seq(ClaimRecord)
    BY DEF AccountInv, Base, TypeOK
<1>1. CASE record \in Elements(claims)
    BY <1>0, <1>1, FilesGrow DEF AccountInv, Backed
<1>2. ASSUME NEW r \in ClaimRecord, claims' = Append(claims, r), record = r,
             r.status = "PROPOSED", r.events = <<>>
      PROVE  Backed(record.id, record.events, Elements(outcomes')) /\ record.status = "PROPOSED"
  <2>1. Len(r.events) = 0
    BY <1>2, EmptySeq
  <2> QED
    BY <1>2, <2>1 DEF Backed
<1>3. ASSUME NEW p \in Proc, WriteClaim(p), record = job[p].record
      PROVE  /\ Backed(record.id, record.events, Elements(outcomes'))
             /\ record.events # <<>> /\ ScoreOf(record) \in Elements(scores')
    BY <1>0, <1>3 DEF WriteClaim, AccountInv, JobInv, Busy, Backed
<1>4. ASSUME NEW r \in ClaimRecord, claims' = Append(claims, r)
      PROVE  record \in Elements(claims) \/ record = r
    BY <1>0, <1>4, ElementsOfAppend
<1> QED
    BY <1>0, <1>1, <1>2, <1>3, <1>4, ClaimsStep

\* scores.jsonl after any step.
LEMMA AccountOfScores ==
    ASSUME AccountInv, [Next]_vars, NEW score \in Elements(scores')
    PROVE  Backed(score.id, score.events, Elements(outcomes'))
<1>0. Base /\ TypeOK /\ JobInv
    BY DEF AccountInv, Base
<1>1. CASE score \in Elements(scores)
    BY <1>0, <1>1, FilesGrow DEF AccountInv, Backed
<1>2. ASSUME NEW p \in Proc, WriteScore(p)
      PROVE  Backed(score.id, score.events, Elements(outcomes'))
  <2>1. ScoreOf(job[p].record) \in Score
    BY <1>0, <1>2 DEF WriteScore, JobInv, Busy, Job, ClaimRecord, Score, ScoreOf
  <2>2. score \in Elements(scores) \/ score = ScoreOf(job[p].record)
    BY <1>0, <1>2, <2>1, ElementsOfAppend DEF WriteScore, TypeOK, ScoreOf
  <2>3. /\ Backed(job[p].record.id, job[p].record.events, Elements(outcomes))
        /\ outcomes' = outcomes
    BY <1>2 DEF WriteScore, AccountInv, Busy
  <2> QED
    BY <1>1, <2>2, <2>3 DEF Backed, ScoreOf
<1>3. ASSUME NEW p \in Proc, \/ RecordClaim(p) \/ BeginSettle(p) \/ WriteOutcome(p)
                             \/ WriteClaim(p) \/ Crash(p)
      PROVE  scores' = scores
    BY <1>3 DEF RecordClaim, BeginSettle, WriteOutcome, WriteClaim, Crash
<1>4. CASE UNCHANGED vars
    BY <1>1, <1>4 DEF vars
<1> QED
    BY <1>1, <1>2, <1>3, <1>4 DEF Next

\* The events a settlement of a backed record will store but its last are backed.
LEMMA NewJobAccounted ==
    ASSUME NEW record \in ClaimRecord, NEW event \in Event,
           Backed(record.id, record.events, Elements(outcomes))
    PROVE  LET new == SettledRecord(record, event)
           IN  \A n \in 1 .. Len(new.events) - 1 :
                  [id |-> new.id, event |-> new.events[n]] \in Elements(outcomes)
<1>1. record.events \in Seq(Event)
    BY DEF ClaimRecord
<1>2. /\ Len(Append(record.events, event)) = Len(record.events) + 1
      /\ \A n \in 1 .. Len(record.events) : Append(record.events, event)[n] = record.events[n]
      /\ Len(record.events) \in Nat
    BY <1>1, AppendProperties, LenProperties
<1> DEFINE new == SettledRecord(record, event)
<1>3. new.id = record.id /\ new.events = Append(record.events, event)
    BY SettledRecordFacts
<1> HIDE DEF new
<1>4. \A n \in 1 .. Len(new.events) - 1 :
          [id |-> new.id, event |-> new.events[n]] \in Elements(outcomes)
    BY <1>2, <1>3 DEF Backed
<1> QED
    BY <1>4 DEF new

\* The settlements under way after any step.
LEMMA AccountOfJobs ==
    ASSUME AccountInv, [Next]_vars, NEW q \in Busy'
    PROVE  /\ \A n \in 1 .. Len(job'[q].record.events) - 1 :
                 [id |-> job'[q].record.id, event |-> job'[q].record.events[n]]
                     \in Elements(outcomes')
           /\ pc'[q] \in {"observed", "scored"} =>
                 Backed(job'[q].record.id, job'[q].record.events, Elements(outcomes'))
           /\ pc'[q] = "scored" => ScoreOf(job'[q].record) \in Elements(scores')
<1>0. Base /\ TypeOK /\ JobInv
    BY DEF AccountInv, Base
<1>1. ASSUME q \in Busy, job'[q] = job[q]
      PROVE  /\ \A n \in 1 .. Len(job'[q].record.events) - 1 :
                   [id |-> job'[q].record.id, event |-> job'[q].record.events[n]]
                       \in Elements(outcomes')
             /\ pc[q] \in {"observed", "scored"} =>
                   Backed(job'[q].record.id, job'[q].record.events, Elements(outcomes'))
             /\ pc[q] = "scored" => ScoreOf(job'[q].record) \in Elements(scores')
  <2>1. pc[q] = "scored" => ScoreOf(job'[q].record) \in Elements(scores')
    BY <1>0, <1>1, FilesGrow DEF AccountInv
  <2>2. \A n \in 1 .. Len(job[q].record.events) - 1 :
            [id |-> job[q].record.id, event |-> job[q].record.events[n]]
                \in Elements(outcomes')
    BY <1>0, <1>1, FilesGrow DEF AccountInv
  <2>3. pc[q] \in {"observed", "scored"} =>
            Backed(job'[q].record.id, job'[q].record.events, Elements(outcomes'))
    BY <1>0, <1>1, FilesGrow DEF AccountInv, Backed
  <2> QED
    BY <1>1, <2>1, <2>2, <2>3
<1>2. ASSUME NEW p \in Proc, WriteOutcome(p), q = p
      PROVE  /\ Backed(job'[q].record.id, job'[q].record.events, Elements(outcomes'))
             /\ pc'[q] = "observed"
  <2>1. q \in Busy /\ job'[q] = job[q] /\ pc'[q] = "observed"
    BY <1>0, <1>2 DEF WriteOutcome, Busy, TypeOK
  <2>2. /\ job[q] \in Job /\ job[q].record \in ClaimRecord
        /\ job[q].record.events[Len(job[q].record.events)] = job[q].event
    BY <1>0, <2>1 DEF JobInv, Job
  <2>3. [id |-> job[q].record.id, event |-> job[q].event] \in Outcome
    BY <2>2 DEF Job, ClaimRecord, Outcome
  <2>4. Elements(outcomes') = Elements(outcomes)
            \cup {[id |-> job[q].record.id, event |-> job[q].event]}
    BY <1>0, <1>2, <2>3, ElementsOfAppend DEF WriteOutcome, TypeOK
  <2>5. Len(job[q].record.events) \in Nat
    BY <2>2, LenProperties DEF ClaimRecord
  <2>6. \A n \in 1 .. Len(job[q].record.events) :
            [id |-> job[q].record.id, event |-> job[q].record.events[n]] \in Elements(outcomes')
    BY <1>0, <1>1, <2>1, <2>2, <2>4, <2>5
  <2> QED
    BY <2>1, <2>6 DEF Backed
<1>3. ASSUME NEW p \in Proc, WriteScore(p), q = p
      PROVE  /\ q \in Busy /\ job'[q] = job[q] /\ pc[q] = "observed"
             /\ ScoreOf(job'[q].record) \in Elements(scores')
  <2>1. q \in Busy /\ job'[q] = job[q] /\ pc[q] = "observed"
    BY <1>0, <1>3 DEF WriteScore, Busy, TypeOK
  <2>2. ScoreOf(job[q].record) \in Score
    BY <1>0, <2>1 DEF JobInv, Job, ClaimRecord, Score, ScoreOf
  <2> QED
    BY <1>0, <1>3, <2>1, <2>2, ElementsOfAppend DEF WriteScore, TypeOK, ScoreOf
<1>4. ASSUME NEW p \in Proc, ~(q = p /\ (BeginSettle(p) \/ WriteOutcome(p) \/ WriteScore(p))),
             \/ RecordClaim(p) \/ BeginSettle(p) \/ WriteOutcome(p) \/ WriteScore(p)
             \/ WriteClaim(p) \/ Crash(p)
      PROVE  pc'[q] = pc[q]
    BY <1>0, <1>4 DEF RecordClaim, BeginSettle, WriteOutcome, WriteScore, WriteClaim, Crash,
                      Busy, TypeOK
<1>5. ASSUME NEW p \in Proc, BeginSettle(p), q = p
      PROVE  pc[q] = "idle"
    BY <1>5 DEF BeginSettle
<1>6. CASE q \in Busy /\ job'[q] = job[q]
  <2>1. CASE UNCHANGED vars
    BY <1>1, <1>6, <2>1 DEF vars
  <2>2. ASSUME NEW p \in Proc,
               \/ RecordClaim(p) \/ BeginSettle(p) \/ WriteOutcome(p) \/ WriteScore(p)
               \/ WriteClaim(p) \/ Crash(p)
        PROVE  \/ pc'[q] = pc[q]
               \/ /\ pc'[q] = "observed"
                  /\ Backed(job'[q].record.id, job'[q].record.events, Elements(outcomes'))
               \/ /\ pc'[q] = "scored" /\ pc[q] = "observed"
                  /\ ScoreOf(job'[q].record) \in Elements(scores')
    <3>1. CASE q = p /\ BeginSettle(p)
      BY <1>5, <1>6, <3>1 DEF Busy
    <3>2. CASE q = p /\ WriteScore(p)
      BY <1>0, <1>3, <3>2 DEF WriteScore, TypeOK
    <3> QED
      BY <1>2, <1>4, <2>2, <3>1, <3>2
  <2> QED
    BY <1>1, <1>6, <2>1, <2>2 DEF Next
<1>7. ASSUME NEW id \in Recorded, NEW event \in Event,
             job'[q] = [event |-> event, record |-> SettledRecord(Latest(id), event)],
             UNCHANGED <<claims, outcomes, scores>>, pc'[q] = "computed"
      PROVE  \A n \in 1 .. Len(job'[q].record.events) - 1 :
                 [id |-> job'[q].record.id, event |-> job'[q].record.events[n]]
                     \in Elements(outcomes')
  <2>1. Latest(id) \in Elements(claims) /\ Latest(id) \in ClaimRecord
    BY <1>0, LatestIsARecord
  <2>2. Backed(Latest(id).id, Latest(id).events, Elements(outcomes))
    BY <2>1 DEF AccountInv
  <2> QED
    BY <1>7, <2>1, <2>2, NewJobAccounted
<1> QED
    BY <1>0, <1>6, <1>7, JobsStep

\* Whichever process died or overtook, a settled record has its last outcome and its
\* score in the files, and a score the outcomes it scores.
THEOREM SettlementAccounted == Spec => []SettledIsAccounted
<1>1. Init => AccountInv
    BY BaseInit, EmptySeq DEF Init, AccountInv, Elements, Busy
<1>2. AccountInv /\ [Next]_vars => AccountInv'
  <2> SUFFICES ASSUME AccountInv, [Next]_vars PROVE AccountInv'
    OBVIOUS
  <2>1. Base'
    BY BaseStep DEF AccountInv
  <2>2. \A record \in Elements(claims') :
            /\ Backed(record.id, record.events, Elements(outcomes'))
            /\ record.status # "PROPOSED" =>
                  record.events # <<>> /\ ScoreOf(record) \in Elements(scores')
    BY AccountOfClaims
  <2>3. \A score \in Elements(scores') : Backed(score.id, score.events, Elements(outcomes'))
    BY AccountOfScores
  <2>4. \A q \in Busy' :
           /\ \A n \in 1 .. Len(job'[q].record.events) - 1 :
                 [id |-> job'[q].record.id, event |-> job'[q].record.events[n]]
                     \in Elements(outcomes')
           /\ pc'[q] \in {"observed", "scored"} =>
                 Backed(job'[q].record.id, job'[q].record.events, Elements(outcomes'))
           /\ pc'[q] = "scored" => ScoreOf(job'[q].record) \in Elements(scores')
    BY AccountOfJobs
  <2> QED
    BY <2>1, <2>2, <2>3, <2>4 DEF AccountInv, Elements, Busy, ScoreOf
<1>3. AccountInv => SettledIsAccounted
  <2> SUFFICES ASSUME AccountInv PROVE SettledIsAccounted
    OBVIOUS
  <2>1. ASSUME NEW record \in Elements(claims), record.status # "PROPOSED"
        PROVE  /\ [id |-> record.id, event |-> record.events[Len(record.events)]]
                     \in Elements(outcomes)
               /\ ScoreOf(record) \in Elements(scores)
    <3>1. record \in ClaimRecord
      BY ElementsType DEF AccountInv, Base, TypeOK
    <3>2. record.events # <<>> /\ record.events \in Seq(Event)
      BY <2>1, <3>1 DEF AccountInv, ClaimRecord
    <3>3. Len(record.events) \in Nat /\ Len(record.events) # 0
      BY <3>2, EmptySeq, LenProperties
    <3>4. Len(record.events) \in 1 .. Len(record.events)
      BY <3>3
    <3>5. Backed(record.id, record.events, Elements(outcomes))
      BY DEF AccountInv
    <3>6. [id |-> record.id, event |-> record.events[Len(record.events)]]
              \in Elements(outcomes)
      BY <3>4, <3>5 DEF Backed
    <3>7. ScoreOf(record) \in Elements(scores)
      BY <2>1 DEF AccountInv
    <3> QED
      BY <3>6, <3>7
  <2> QED
    BY <2>1 DEF AccountInv, SettledIsAccounted, ScoreOf, Backed
<1> QED
    BY <1>1, <1>2, <1>3, PTL DEF Spec

-----------------------------------------------------------------------------
(* The history of a claim was observed *)

\* A settlement under way holds a history that was observed: up to its own event until
\* it has written its outcome, all of it from then on.
HistoryOf(p) ==
    /\ pc[p] = "computed" =>
          \E earlier \in Seq(Event) :
              /\ job[p].record.events = Append(earlier, job[p].event)
              /\ InOrder(earlier, outcomes, job[p].record.id)
    /\ pc[p] # "computed" => InOrder(job[p].record.events, outcomes, job[p].record.id)

HistoryInv ==
    /\ Base
    /\ EventsWereObserved
    /\ \A p \in Busy : HistoryOf(p)

\* A line more about any claim keeps a history observed.
LEMMA InOrderStays ==
    ASSUME NEW file \in Seq(Outcome), NEW o \in Outcome, NEW events \in Seq(Event), NEW id,
           InOrder(events, file, id)
    PROVE  InOrder(events, Append(file, o), id)
<1>1. PICK line \in [1 .. Len(events) -> Lines(file, id)] :
          /\ \A m, n \in 1 .. Len(events) : m < n => line[m] < line[n]
          /\ \A n \in 1 .. Len(events) : file[line[n]].event = events[n]
    BY DEF InOrder
<1>2. /\ Len(file) \in Nat /\ Len(Append(file, o)) = Len(file) + 1
      /\ \A n \in 1 .. Len(file) : Append(file, o)[n] = file[n]
    BY AppendProperties, LenProperties
<1>3. \A n \in 1 .. Len(events) : line[n] \in 1 .. Len(file)
    BY <1>1 DEF Lines
<1>4. Lines(file, id) \subseteq Lines(Append(file, o), id)
    BY <1>2 DEF Lines
<1>5. line \in [1 .. Len(events) -> Lines(Append(file, o), id)]
    BY <1>1, <1>4
<1>6. \A n \in 1 .. Len(events) : Append(file, o)[line[n]].event = events[n]
    BY <1>1, <1>2, <1>3
<1> QED
    BY <1>1, <1>5, <1>6 DEF InOrder

\* A line that is about the claim itself adds its event to the history.
LEMMA InOrderAndOne ==
    ASSUME NEW file \in Seq(Outcome), NEW o \in Outcome, NEW events \in Seq(Event),
           InOrder(events, file, o.id)
    PROVE  InOrder(Append(events, o.event), Append(file, o), o.id)
<1> DEFINE new  == Append(file, o)
           more == Append(events, o.event)
<1>1. PICK line \in [1 .. Len(events) -> Lines(file, o.id)] :
          /\ \A m, n \in 1 .. Len(events) : m < n => line[m] < line[n]
          /\ \A n \in 1 .. Len(events) : file[line[n]].event = events[n]
    BY DEF InOrder
<1>2. /\ Len(file) \in Nat /\ Len(new) = Len(file) + 1
      /\ \A n \in 1 .. Len(file) : new[n] = file[n]
      /\ new[Len(file) + 1] = o
    BY AppendProperties, LenProperties
<1>3. /\ Len(events) \in Nat /\ Len(more) = Len(events) + 1
      /\ \A n \in 1 .. Len(events) : more[n] = events[n]
      /\ more[Len(events) + 1] = o.event
  <2>1. o.event \in Event
    BY DEF Outcome
  <2> QED
    BY <2>1, AppendProperties, LenProperties
<1> HIDE DEF new, more
<1>4. \A n \in 1 .. Len(events) : line[n] \in 1 .. Len(file) /\ file[line[n]].id = o.id
    BY <1>1 DEF Lines
<1>5. Lines(file, o.id) \subseteq Lines(new, o.id) /\ Len(file) + 1 \in Lines(new, o.id)
    BY <1>2 DEF Lines
<1> DEFINE longer == [n \in 1 .. Len(more) |->
                        IF n = Len(events) + 1 THEN Len(file) + 1 ELSE line[n]]
<1>6. \A n \in 1 .. Len(more) : n \in 1 .. Len(events) \/ n = Len(events) + 1
    BY <1>3
<1>7. longer \in [1 .. Len(more) -> Lines(new, o.id)]
    BY <1>1, <1>5, <1>6
<1>8. /\ \A n \in 1 .. Len(events) : longer[n] = line[n]
      /\ longer[Len(events) + 1] = Len(file) + 1
    BY <1>3
<1> HIDE DEF longer
<1>9. ASSUME NEW m \in 1 .. Len(more), NEW n \in 1 .. Len(more), m < n
      PROVE  longer[m] < longer[n]
  <2>1. m \in 1 .. Len(events)
    BY <1>3, <1>9
  <2>2. CASE n \in 1 .. Len(events)
    BY <1>1, <1>8, <1>9, <2>1, <2>2
  <2>3. CASE n = Len(events) + 1
    BY <1>2, <1>4, <1>8, <2>1, <2>3
  <2> QED
    BY <1>6, <2>2, <2>3
<1>10. ASSUME NEW n \in 1 .. Len(more) PROVE new[longer[n]].event = more[n]
  <2>1. CASE n \in 1 .. Len(events)
    <3>1. longer[n] = line[n] /\ line[n] \in 1 .. Len(file)
        BY <1>4, <1>8, <2>1
    <3>2. new[line[n]] = file[line[n]]
        BY <1>2, <3>1
    <3> QED
        BY <1>1, <1>3, <2>1, <3>1, <3>2
  <2>2. CASE n = Len(events) + 1
    BY <1>2, <1>3, <1>8, <2>2
  <2> QED
    BY <1>6, <2>1, <2>2
<1> QED
    BY <1>7, <1>9, <1>10 DEF InOrder, new, more

\* No events are in order in any file.
LEMMA NoneInOrder ==
    ASSUME NEW file, NEW id
    PROVE  InOrder(<<>>, file, id)
<1> DEFINE line == [n \in 1 .. 0 |-> 0]
<1>1. 1 .. 0 = {} /\ Len(<<>>) = 0
    BY EmptySeq
<1>2. line \in [1 .. 0 -> Lines(file, id)]
    BY <1>1
<1> QED
    BY <1>1, <1>2 DEF InOrder

\* What any step does to the outcomes: nothing, or one more line.
LEMMA OutcomesStep ==
    ASSUME Base, [Next]_vars
    PROVE  \/ outcomes' = outcomes
           \/ \E o \in Outcome : outcomes' = Append(outcomes, o)
<1>1. ASSUME NEW p \in Proc, WriteOutcome(p)
      PROVE  \E o \in Outcome : outcomes' = Append(outcomes, o)
  <2>1. [id |-> job[p].record.id, event |-> job[p].event] \in Outcome
    BY <1>1 DEF Base, JobInv, Busy, WriteOutcome, Job, ClaimRecord, Outcome
  <2> QED
    BY <1>1, <2>1 DEF WriteOutcome
<1> QED
    BY <1>1 DEF Next, vars, RecordClaim, BeginSettle, WriteScore, WriteClaim, Crash

\* Whatever was in order stays so.
LEMMA HistoryStays ==
    ASSUME Base, [Next]_vars, NEW events \in Seq(Event), NEW id,
           InOrder(events, outcomes, id)
    PROVE  InOrder(events, outcomes', id)
<1>1. outcomes \in Seq(Outcome)
    BY DEF Base, TypeOK
<1>2. CASE outcomes' = outcomes
    BY <1>2
<1>3. ASSUME NEW o \in Outcome, outcomes' = Append(outcomes, o)
      PROVE  InOrder(events, outcomes', id)
    BY <1>1, <1>3, InOrderStays
<1> QED
    BY <1>2, <1>3, OutcomesStep

\* The records and the scores after any step.
LEMMA HistoryOfFiles == HistoryInv /\ [Next]_vars => EventsWereObserved'
<1> SUFFICES ASSUME HistoryInv, [Next]_vars PROVE EventsWereObserved'
    OBVIOUS
<1>0. /\ Base /\ JobInv /\ claims \in Seq(ClaimRecord) /\ scores \in Seq(Score)
      /\ \A r \in Elements(claims) : InOrder(r.events, outcomes, r.id)
      /\ \A s \in Elements(scores) : InOrder(s.events, outcomes, s.id)
    BY DEF HistoryInv, Base, TypeOK, EventsWereObserved
<1>1. ASSUME NEW r \in Elements(claims) PROVE InOrder(r.events, outcomes', r.id)
  <2>1. r.events \in Seq(Event)
    BY <1>0, ElementsType DEF ClaimRecord
  <2> QED
    BY <1>0, <2>1, HistoryStays
<1>2. ASSUME NEW s \in Elements(scores) PROVE InOrder(s.events, outcomes', s.id)
  <2>1. s.events \in Seq(Event)
    BY <1>0, ElementsType DEF Score
  <2> QED
    BY <1>0, <2>1, HistoryStays
<1>3. ASSUME NEW p \in Busy, pc[p] # "computed"
      PROVE  InOrder(job[p].record.events, outcomes', job[p].record.id)
  <2>1. job[p].record.events \in Seq(Event)
    BY <1>0 DEF JobInv, Job, ClaimRecord
  <2>2. InOrder(job[p].record.events, outcomes, job[p].record.id)
    BY <1>3 DEF HistoryInv, HistoryOf
  <2> QED
    BY <1>0, <2>1, <2>2, HistoryStays
<1>4. \A r \in Elements(claims') : InOrder(r.events, outcomes', r.id)
  <2>1. CASE claims' = claims
    BY <1>1, <2>1
  <2>2. ASSUME NEW e \in ClaimRecord, claims' = Append(claims, e),
               InOrder(e.events, outcomes', e.id)
        PROVE  \A r \in Elements(claims') : InOrder(r.events, outcomes', r.id)
    BY <1>0, <1>1, <2>2, ElementsOfAppend
  <2>3. ASSUME NEW p \in Busy, WriteClaim(p) PROVE pc[p] # "computed"
    BY <2>3 DEF WriteClaim
  <2> QED
    BY <1>0, <1>3, <2>1, <2>2, <2>3, ClaimsStep, NoneInOrder
<1>5. \A s \in Elements(scores') : InOrder(s.events, outcomes', s.id)
  <2>1. ASSUME NEW p \in Proc, WriteScore(p)
        PROVE  \A s \in Elements(scores') : InOrder(s.events, outcomes', s.id)
    <3> DEFINE new == ScoreOf(job[p].record)
    <3>1. p \in Busy /\ pc[p] # "computed" /\ scores' = Append(scores, new)
        BY <2>1 DEF WriteScore, Busy, ScoreOf
    <3>2. new \in Score /\ new.id = job[p].record.id /\ new.events = job[p].record.events
        BY <1>0, <3>1 DEF JobInv, Job, ClaimRecord, Score, ScoreOf
    <3> HIDE DEF new
    <3>3. InOrder(new.events, outcomes', new.id)
        BY <1>3, <3>1, <3>2
    <3> QED
        BY <1>0, <1>2, <3>1, <3>2, <3>3, ElementsOfAppend
  <2>2. CASE scores' = scores
    BY <1>2, <2>2
  <2>3. (\E p \in Proc : WriteScore(p)) \/ scores' = scores
    BY DEF Next, vars, RecordClaim, BeginSettle, WriteOutcome, WriteClaim, Crash
  <2> QED
    BY <2>1, <2>2, <2>3
<1> QED
    BY <1>4, <1>5 DEF EventsWereObserved, Elements

\* A settlement that writes its outcome completes the history it holds.
LEMMA HistoryObserved ==
    ASSUME HistoryInv, NEW p \in Proc, WriteOutcome(p)
    PROVE  InOrder(job[p].record.events, outcomes', job[p].record.id)
<1> DEFINE o == [id |-> job[p].record.id, event |-> job[p].event]
<1>1. /\ p \in Busy /\ pc[p] = "computed" /\ outcomes' = Append(outcomes, o)
      /\ outcomes \in Seq(Outcome)
    BY DEF WriteOutcome, Busy, HistoryInv, Base, TypeOK
<1>2. o \in Outcome /\ o.id = job[p].record.id /\ o.event = job[p].event
    BY <1>1 DEF HistoryInv, Base, JobInv, Job, ClaimRecord, Outcome
<1> HIDE DEF o
<1>3. PICK earlier \in Seq(Event) :
          /\ job[p].record.events = Append(earlier, job[p].event)
          /\ InOrder(earlier, outcomes, job[p].record.id)
    BY <1>1 DEF HistoryInv, HistoryOf
<1>4. InOrder(Append(earlier, o.event), Append(outcomes, o), o.id)
    BY <1>1, <1>2, <1>3, InOrderAndOne
<1> QED
    BY <1>1, <1>2, <1>3, <1>4

\* The settlements under way after any step.
LEMMA HistoryOfJobs ==
    ASSUME HistoryInv, [Next]_vars, NEW q \in Busy'
    PROVE  HistoryOf(q)'
<1>0. Base /\ JobInv /\ TypeOK
    BY DEF HistoryInv, Base
<1>1. ASSUME NEW id \in Recorded, NEW event \in Event,
             job'[q] = [event |-> event, record |-> SettledRecord(Latest(id), event)],
             outcomes' = outcomes, pc'[q] = "computed"
      PROVE  HistoryOf(q)'
  <2> DEFINE old == Latest(id)
             new == SettledRecord(old, event)
  <2>1. old \in Elements(claims) /\ old \in ClaimRecord /\ old.id = id
    BY <1>0, LatestIsARecord
  <2>2. new.id = id /\ new.events = Append(old.events, event)
    BY <2>1, SettledRecordFacts
  <2>3. job'[q].record = new /\ job'[q].event = event
    BY <1>1
  <2> HIDE DEF old, new
  <2>4. old.events \in Seq(Event)
    BY <2>1 DEF ClaimRecord
  <2>5. InOrder(old.events, outcomes, id)
    BY <2>1 DEF HistoryInv, EventsWereObserved
  <2> QED
    BY <1>1, <2>2, <2>3, <2>4, <2>5 DEF HistoryOf
<1>2. ASSUME q \in Busy, job'[q] = job[q], pc'[q] = pc[q] PROVE HistoryOf(q)'
  <2>1. HistoryOf(q) /\ job[q].record.events \in Seq(Event)
    BY <1>0, <1>2 DEF HistoryInv, JobInv, Job, ClaimRecord
  <2>2. CASE pc[q] = "computed"
    <3>1. PICK earlier \in Seq(Event) :
              /\ job[q].record.events = Append(earlier, job[q].event)
              /\ InOrder(earlier, outcomes, job[q].record.id)
        BY <2>1, <2>2 DEF HistoryOf
    <3>2. InOrder(earlier, outcomes', job[q].record.id)
        BY <1>0, <3>1, HistoryStays
    <3> QED
        BY <1>2, <2>2, <3>1, <3>2 DEF HistoryOf
  <2>3. CASE pc[q] # "computed"
    <3>1. InOrder(job[q].record.events, outcomes, job[q].record.id)
        BY <2>1, <2>3 DEF HistoryOf
    <3>2. InOrder(job[q].record.events, outcomes', job[q].record.id)
        BY <1>0, <2>1, <3>1, HistoryStays
    <3> QED
        BY <1>2, <2>3, <3>2 DEF HistoryOf
  <2> QED
    BY <2>2, <2>3
<1>3. ASSUME WriteOutcome(q), q \in Proc PROVE HistoryOf(q)'
  <2>1. pc'[q] = "observed" /\ job' = job
    BY <1>0, <1>3 DEF WriteOutcome, TypeOK
  <2>2. InOrder(job[q].record.events, outcomes', job[q].record.id)
    BY <1>3, HistoryObserved
  <2> QED
    BY <2>1, <2>2 DEF HistoryOf
<1>4. ASSUME WriteScore(q), q \in Proc PROVE HistoryOf(q)'
  <2>1. /\ pc[q] = "observed" /\ pc'[q] = "scored" /\ UNCHANGED <<job, outcomes>>
        /\ q \in Busy
    BY <1>0, <1>4 DEF WriteScore, TypeOK, Busy
  <2>2. InOrder(job[q].record.events, outcomes, job[q].record.id)
    BY <2>1 DEF HistoryInv, HistoryOf
  <2> QED
    BY <2>1, <2>2 DEF HistoryOf
<1>5. CASE q \in Busy /\ job'[q] = job[q]
  <2>1. pc'[q] = pc[q] \/ WriteOutcome(q) \/ WriteScore(q)
    BY <1>0, <1>5 DEF Next, vars, RecordClaim, BeginSettle, WriteOutcome, WriteScore,
                      WriteClaim, Crash, Busy, TypeOK
  <2> QED
    BY <1>2, <1>3, <1>4, <1>5, <2>1 DEF Busy
<1> QED
    BY <1>0, <1>1, <1>5, JobsStep

\* The history of a claim is one that was observed, however settlements of it overlapped,
\* died and were made again.
THEOREM HistoriesWereObserved == Spec => []EventsWereObserved
<1>1. Init => HistoryInv
    BY BaseInit, EmptySeq DEF Init, HistoryInv, EventsWereObserved, Elements, Busy
<1>2. HistoryInv /\ [Next]_vars => HistoryInv'
  <2> SUFFICES ASSUME HistoryInv, [Next]_vars PROVE HistoryInv'
    OBVIOUS
  <2>1. Base' /\ EventsWereObserved'
    BY BaseStep, HistoryOfFiles DEF HistoryInv
  <2>2. \A q \in Busy' : HistoryOf(q)'
    BY HistoryOfJobs
  <2> QED
    BY <2>1, <2>2 DEF HistoryInv, Busy, HistoryOf
<1>3. HistoryInv => EventsWereObserved
    BY DEF HistoryInv
<1> QED
    BY <1>1, <1>2, <1>3, PTL DEF Spec

-----------------------------------------------------------------------------
(* Settled one at a time, a claim loses nothing *)

\* The claim was not settled by two at once: at most one process is at it.  Until that
\* process has written its outcome, the latest record holds what was written; from
\* then on the record it is about to write does.
Intact(id) ==
    /\ \A p, q \in Settling(id) : p = q
    /\ Settling(id) = {} => JustThose(Latest(id).events, outcomes, id)
    /\ \A p \in Settling(id) :
          /\ pc[p] = "computed" =>
                /\ JustThose(Latest(id).events, outcomes, id)
                /\ job[p].record.events = Append(Latest(id).events, job[p].event)
          /\ pc[p] # "computed" => JustThose(job[p].record.events, outcomes, id)

\* No outcome is about a claim that was not recorded.
IntactInv ==
    /\ SealInv
    /\ \A outcome \in Elements(outcomes) : outcome.id \in Recorded
    /\ \A id \in Recorded \ disturbed : Intact(id)

\* The lines about a claim, after an outcome is written.
LEMMA LinesOfAppend ==
    ASSUME NEW file \in Seq(Outcome), NEW o \in Outcome, NEW id
    PROVE  /\ Lines(Append(file, o), id) =
                 IF o.id = id THEN Lines(file, id) \cup {Len(file) + 1} ELSE Lines(file, id)
           /\ \A n \in Lines(file, id) : Append(file, o)[n] = file[n]
           /\ Append(file, o)[Len(file) + 1] = o
           /\ Lines(file, id) \subseteq 1 .. Len(file) /\ Len(file) \in Nat
<1>1. Len(Append(file, o)) = Len(file) + 1 /\ Len(file) \in Nat
    BY AppendProperties, LenProperties
<1>2. /\ \A n \in 1 .. Len(file) : Append(file, o)[n] = file[n]
      /\ Append(file, o)[Len(file) + 1] = o
    BY AppendProperties
<1>3. 1 .. Len(Append(file, o)) = (1 .. Len(file)) \cup {Len(file) + 1}
    BY <1>1
<1>4. Lines(file, id) \subseteq 1 .. Len(file)
    BY DEF Lines
<1>5. CASE o.id = id
    BY <1>2, <1>3, <1>5 DEF Lines
<1>6. CASE o.id # id
    BY <1>2, <1>3, <1>6 DEF Lines
<1> QED
    BY <1>1, <1>2, <1>4, <1>5, <1>6

\* The outcome of another claim changes nothing for this one.
LEMMA JustThoseOfOthers ==
    ASSUME NEW file \in Seq(Outcome), NEW o \in Outcome, NEW id, o.id # id,
           NEW events, JustThose(events, file, id)
    PROVE  JustThose(events, Append(file, o), id)
<1>1. Lines(Append(file, o), id) = Lines(file, id)
    BY LinesOfAppend
<1>2. \A n \in Lines(file, id) : Append(file, o)[n] = file[n]
    BY LinesOfAppend
<1> QED
    BY <1>1, <1>2 DEF JustThose

\* A number of lines is a number, and those up to a line about the claim are at least
\* one and at most all.
LEMMA LinesCounted ==
    ASSUME NEW file \in Seq(Outcome), NEW id
    PROVE  /\ IsFiniteSet(Lines(file, id)) /\ Cardinality(Lines(file, id)) \in Nat
           /\ \A n \in Lines(file, id) :
                Cardinality({m \in Lines(file, id) : m <= n})
                    \in 1 .. Cardinality(Lines(file, id))
<1>1. Len(file) \in Nat
    BY LenProperties
<1>2. IsFiniteSet(Lines(file, id)) /\ Cardinality(Lines(file, id)) \in Nat
  <2>1. IsFiniteSet(1 .. Len(file)) /\ Lines(file, id) \subseteq 1 .. Len(file)
    BY <1>1, FS_Interval DEF Lines
  <2> QED
    BY <2>1, FS_Subset, FS_CardinalityType
<1>3. ASSUME NEW n \in Lines(file, id)
      PROVE  Cardinality({m \in Lines(file, id) : m <= n}) \in 1 .. Cardinality(Lines(file, id))
  <2> DEFINE upto == {m \in Lines(file, id) : m <= n}
  <2>1. upto \subseteq Lines(file, id)
    OBVIOUS
  <2>2. n \in upto
    BY <1>3 DEF Lines
  <2> HIDE DEF upto
  <2>3. IsFiniteSet(upto) /\ Cardinality(upto) <= Cardinality(Lines(file, id))
    BY <1>2, <2>1, FS_Subset
  <2>4. Cardinality(upto) \in Nat /\ Cardinality(upto) # 0
    BY <2>2, <2>3, FS_CardinalityType, FS_EmptySet
  <2>5. Cardinality(upto) \in 1 .. Cardinality(Lines(file, id))
    BY <1>2, <2>3, <2>4
  <2> QED
    BY <2>5 DEF upto
<1> QED
    BY <1>2, <1>3

\* One more outcome of a claim and one more event, the same.
LEMMA JustThoseAndOne ==
    ASSUME NEW file \in Seq(Outcome), NEW o \in Outcome, NEW events \in Seq(Event),
           JustThose(events, file, o.id)
    PROVE  JustThose(Append(events, o.event), Append(file, o), o.id)
<1> DEFINE old  == Lines(file, o.id)
           next == Len(file) + 1
           new  == Lines(Append(file, o), o.id)
<1>1. /\ new = old \cup {next} /\ old \subseteq 1 .. Len(file) /\ Len(file) \in Nat
      /\ \A n \in old : Append(file, o)[n] = file[n]
      /\ Append(file, o)[next] = o
    BY LinesOfAppend
<1>2. /\ IsFiniteSet(old) /\ Cardinality(old) \in Nat
      /\ \A n \in old : Cardinality({m \in old : m <= n}) \in 1 .. Cardinality(old)
    BY LinesCounted
<1>3. /\ Len(events) = Cardinality(old)
      /\ \A n \in old : events[Cardinality({m \in old : m <= n})] = file[n].event
    BY DEF JustThose
<1>4. o.event \in Event
    BY DEF Outcome
<1>5. /\ Len(Append(events, o.event)) = Len(events) + 1
      /\ \A n \in 1 .. Len(events) : Append(events, o.event)[n] = events[n]
      /\ Append(events, o.event)[Len(events) + 1] = o.event
    BY <1>4, AppendProperties
<1> HIDE DEF old, new, next
<1>6. next \notin old /\ \A n \in old : n < next /\ n \in Nat
    BY <1>1 DEF next
<1>7. Cardinality(new) = Cardinality(old) + 1
    BY <1>1, <1>2, <1>6, FS_AddElement
<1>8. ASSUME NEW n \in old
      PROVE  Append(events, o.event)[Cardinality({m \in new : m <= n})]
                = Append(file, o)[n].event
  <2>1. {m \in new : m <= n} = {m \in old : m <= n}
    BY <1>1, <1>6, <1>8, Len(file) \in Nat DEF next
  <2> QED
    BY <1>1, <1>2, <1>3, <1>5, <2>1
<1>9. Append(events, o.event)[Cardinality({m \in new : m <= next})] = Append(file, o)[next].event
  <2>1. next \in Nat
    BY <1>1 DEF next
  <2>2. \A m \in new : m <= next
    BY <1>1, <1>6, <2>1
  <2>3. {m \in new : m <= next} = new
    BY <2>2
  <2> QED
    BY <1>1, <1>3, <1>5, <1>7, <2>3
<1>10. \A n \in new : Append(events, o.event)[Cardinality({m \in new : m <= n})]
                        = Append(file, o)[n].event
    BY <1>1, <1>8, <1>9
<1>11. Len(Append(events, o.event)) = Cardinality(new)
    BY <1>3, <1>5, <1>7
<1> QED
    BY <1>10, <1>11 DEF JustThose, new

\* The record appended is the latest of its claim, and those of the others stay.
LEMMA LatestOfAppend ==
    ASSUME TypeOK, NEW r \in ClaimRecord, claims' = Append(claims, r)
    PROVE  /\ Latest(r.id)' = r
           /\ \A id \in Recorded : id # r.id => Latest(id)' = Latest(id)
           /\ Recorded' = Recorded \cup {r.id}
<1>1. /\ Len(claims') = Len(claims) + 1 /\ Len(claims) \in Nat
      /\ \A n \in 1 .. Len(claims) : claims'[n] = claims[n]
      /\ claims'[Len(claims) + 1] = r
    BY AppendProperties, LenProperties DEF TypeOK
<1>2. 1 .. Len(claims') = (1 .. Len(claims)) \cup {Len(claims) + 1}
    BY <1>1
<1>3. Latest(r.id)' = r
  <2> DEFINE S == {n \in 1 .. Len(claims') : claims'[n].id = r.id}
  <2>1. Len(claims') \in Nat /\ S \in SUBSET (1 .. Len(claims')) /\ Len(claims') \in S
    BY <1>1
  <2>2. S # {}
    BY <2>1
  <2>3. Max(S) \in S /\ \A x \in S : x <= Max(S)
    BY <2>1, <2>2, MaxOfBounded
  <2>4. Max(S) \in 1 .. Len(claims') /\ Max(S) >= Len(claims')
    BY <2>1, <2>3
  <2> HIDE DEF S
  <2>5. Latest(r.id)' = claims'[Max(S)]
    BY DEF Latest, S
  <2>6. Max(S) = Len(claims')
    BY <1>1, <2>4
  <2> QED
    BY <1>1, <2>5, <2>6
<1>4. ASSUME NEW id \in Recorded, id # r.id PROVE Latest(id)' = Latest(id)
  <2> DEFINE S == {n \in 1 .. Len(claims) : claims[n].id = id}
  <2>1. {n \in 1 .. Len(claims') : claims'[n].id = id} = S
    BY <1>1, <1>2, <1>4
  <2>2. S # {} /\ S \in SUBSET (1 .. Len(claims))
    BY <1>4 DEF Recorded, Elements
  <2>3. Max(S) \in S
    BY <1>1, <2>2, MaxOfBounded
  <2>4. claims'[Max(S)] = claims[Max(S)]
    BY <1>1, <2>3
  <2> HIDE DEF S
  <2>5. Latest(id) = claims[Max(S)]
    BY DEF Latest, S
  <2>6. Latest(id)' = claims'[Max(S)]
    BY <2>1 DEF Latest
  <2> QED
    BY <2>4, <2>5, <2>6
<1>5. Elements(claims') = Elements(claims) \cup {r}
    BY ElementsOfAppend DEF TypeOK
<1>6. Recorded' = Recorded \cup {r.id}
    BY <1>5 DEF Recorded, Elements
<1> QED
    BY <1>3, <1>4, <1>6

\* A claim stays intact through a step that is not about it.
LEMMA IntactElsewhere ==
    ASSUME NEW id, Intact(id), NEW p \in Proc,
           p \notin Settling(id), ~(pc'[p] # "idle" /\ job'[p].record.id = id),
           \A q \in Proc \ {p} : pc'[q] = pc[q] /\ job'[q] = job[q],
           Latest(id)' = Latest(id),
           \A events : JustThose(events, outcomes, id) => JustThose(events, outcomes', id)
    PROVE  Intact(id)'
<1>1. Settling(id)' = Settling(id)
    BY DEF Settling
<1>2. \A q \in Settling(id) : pc'[q] = pc[q] /\ job'[q] = job[q]
    BY DEF Settling
<1>3. \A q, r \in Settling(id)' : q = r
    BY <1>1 DEF Intact
<1>4. Settling(id)' = {} => JustThose(Latest(id)'.events, outcomes', id)
    BY <1>1 DEF Intact
<1>5. ASSUME NEW q \in Settling(id)'
      PROVE  /\ pc'[q] = "computed" =>
                  /\ JustThose(Latest(id)'.events, outcomes', id)
                  /\ job'[q].record.events = Append(Latest(id)'.events, job'[q].event)
             /\ pc'[q] # "computed" => JustThose(job'[q].record.events, outcomes', id)
    BY <1>1, <1>2 DEF Intact
<1> QED
    BY <1>3, <1>4, <1>5 DEF Intact

\* The outcomes of any step are of recorded claims.
LEMMA OutcomesRecorded ==
    ASSUME IntactInv, [Next]_vars, NEW outcome \in Elements(outcomes')
    PROVE  outcome.id \in Recorded'
<1>0. SealInv /\ Base /\ TypeOK /\ JobInv
    BY DEF IntactInv, SealInv, Base
<1>1. Recorded \subseteq Recorded'
  <2>1. ASSUME NEW r \in ClaimRecord, claims' = Append(claims, r)
        PROVE  Recorded \subseteq Recorded'
    BY <1>0, <2>1, LatestOfAppend
  <2>2. CASE claims' = claims
    BY <2>2 DEF Recorded
  <2>3. \A p \in Busy : job[p].record \in ClaimRecord
    BY <1>0 DEF JobInv, Job
  <2> QED
    BY <1>0, <2>1, <2>2, <2>3, ClaimsStep
<1>2. ASSUME NEW p \in Proc, WriteOutcome(p)
      PROVE  outcome \in Elements(outcomes) \/ outcome.id \in Recorded
  <2>1. /\ [id |-> job[p].record.id, event |-> job[p].event] \in Outcome
        /\ job[p].record.id \in Recorded
    BY <1>0, <1>2 DEF WriteOutcome, JobInv, Busy, Job, ClaimRecord, Outcome, SealInv
  <2>2. Elements(outcomes') = Elements(outcomes)
            \cup {[id |-> job[p].record.id, event |-> job[p].event]}
    BY <1>0, <1>2, <2>1, ElementsOfAppend DEF WriteOutcome, TypeOK
  <2> QED
    BY <2>1, <2>2
<1>3. ASSUME NEW p \in Proc, \/ RecordClaim(p) \/ BeginSettle(p) \/ WriteScore(p)
                             \/ WriteClaim(p) \/ Crash(p)
      PROVE  outcomes' = outcomes
    BY <1>3 DEF RecordClaim, BeginSettle, WriteScore, WriteClaim, Crash
<1>4. CASE UNCHANGED vars
    BY <1>1, <1>4 DEF vars, IntactInv
<1>5. ASSUME outcome \in Elements(outcomes) PROVE outcome.id \in Recorded
    BY <1>5 DEF IntactInv
<1> QED
    BY <1>1, <1>2, <1>3, <1>4, <1>5 DEF Next

\* A claim that is recorded has no outcome and no settlement yet.
LEMMA IntactRecorded ==
    ASSUME IntactInv, NEW p \in Proc, RecordClaim(p), NEW id \in Recorded' \ disturbed'
    PROVE  Intact(id)'
<1>0. SealInv /\ Base /\ TypeOK /\ UNCHANGED <<outcomes, scores, pc, job, disturbed>>
    BY DEF IntactInv, SealInv, Base, RecordClaim
<1>1. PICK r \in ClaimRecord : claims' = Append(claims, r) /\ r.id \notin Recorded
                               /\ r.events = <<>>
  <2>1. PICK c \in ClaimId \ Recorded, predicted \in BOOLEAN,
             claimTime \in Time, evidenceEnd \in Time, outcomeTime \in Time \cup {None} :
           claims' = Append(claims,
                [id |-> c, predicted |-> predicted,
                 claimTime |-> claimTime, evidenceEnd |-> evidenceEnd,
                 outcomeTime |-> outcomeTime,
                 status |-> "PROPOSED", events |-> <<>>])
    BY DEF RecordClaim
  <2> DEFINE new == [id |-> c, predicted |-> predicted,
                     claimTime |-> claimTime, evidenceEnd |-> evidenceEnd,
                     outcomeTime |-> outcomeTime, status |-> "PROPOSED", events |-> <<>>]
  <2>2. new \in ClaimRecord
    BY EmptySeq DEF ClaimRecord, Status
  <2>3. new.id = c /\ new.events = <<>>
    OBVIOUS
  <2> HIDE DEF new
  <2>4. claims' = Append(claims, new)
    BY <2>1 DEF new
  <2> QED
    BY <2>2, <2>3, <2>4
<1>2. /\ Latest(r.id)' = r
      /\ \A c \in Recorded : c # r.id => Latest(c)' = Latest(c)
      /\ Recorded' = Recorded \cup {r.id}
    BY <1>0, <1>1, LatestOfAppend
<1>3. Settling(id)' = Settling(id)
    BY <1>0 DEF Settling
<1>4. CASE id \in Recorded
  <2>1. Intact(id) /\ Latest(id)' = Latest(id)
    BY <1>0, <1>1, <1>2, <1>4 DEF IntactInv
  <2>2. \A q, s \in Settling(id)' : q = s
    BY <1>3, <2>1 DEF Intact
  <2>3. Settling(id)' = {} => JustThose(Latest(id)'.events, outcomes', id)
    BY <1>0, <1>3, <2>1 DEF Intact
  <2>4. ASSUME NEW q \in Settling(id)'
        PROVE  /\ pc'[q] = "computed" =>
                    /\ JustThose(Latest(id)'.events, outcomes', id)
                    /\ job'[q].record.events = Append(Latest(id)'.events, job'[q].event)
               /\ pc'[q] # "computed" => JustThose(job'[q].record.events, outcomes', id)
    BY <1>0, <1>3, <2>1 DEF Intact
  <2> QED
    BY <2>2, <2>3, <2>4 DEF Intact
<1>5. CASE id \notin Recorded
  <2>1. id = r.id
    BY <1>2, <1>5
  <2>2. Settling(id) = {}
    BY <1>0, <1>5 DEF Settling, SealInv, Busy
  <2>3. Lines(outcomes, id) = {}
    BY <1>5 DEF Lines, IntactInv, Elements
  <2>4. Len(r.events) = 0
    BY <1>1, EmptySeq
  <2>5. JustThose(r.events, outcomes, id)
    BY <2>3, <2>4, FS_EmptySet DEF JustThose
  <2>6. JustThose(Latest(id)'.events, outcomes', id)
    BY <1>0, <1>2, <2>1, <2>5
  <2> QED
    BY <1>3, <2>2, <2>6 DEF Intact
<1> QED
    BY <1>4, <1>5

\* A settlement that begins is the only one of its claim, or the claim is disturbed.
LEMMA IntactBegun ==
    ASSUME IntactInv, NEW p \in Proc, BeginSettle(p), NEW id \in Recorded' \ disturbed'
    PROVE  Intact(id)'
<1>0. /\ TypeOK /\ UNCHANGED <<claims, outcomes>> /\ pc[p] = "idle"
      /\ pc' = [pc EXCEPT ![p] = "computed"]
    BY DEF IntactInv, SealInv, Base, BeginSettle
<1>1. PICK c \in Recorded, event \in Event :
           /\ job' = [job EXCEPT ![p] = [event  |-> event,
                                         record |-> SettledRecord(Latest(c), event)]]
           /\ disturbed' = IF Settling(c) = {} THEN disturbed ELSE disturbed \cup {c}
    BY DEF BeginSettle
<1>2. /\ Latest(c) \in ClaimRecord /\ Latest(c).id = c
    BY <1>0, LatestIsARecord
<1>3. /\ SettledRecord(Latest(c), event).id = c
      /\ SettledRecord(Latest(c), event).events = Append(Latest(c).events, event)
    BY <1>2, SettledRecordFacts
<1>4. /\ job'[p].record.id = c /\ job'[p].event = event
      /\ job'[p].record.events = Append(Latest(c).events, event)
      /\ pc'[p] = "computed"
      /\ \A q \in Proc \ {p} : job'[q] = job[q] /\ pc'[q] = pc[q]
    BY <1>0, <1>1, <1>3 DEF TypeOK
<1>5. Recorded' = Recorded /\ \A i : Latest(i)' = Latest(i)
    BY <1>0 DEF Recorded, Latest
<1>6. id \in Recorded /\ id \notin disturbed /\ Intact(id)
    BY <1>1, <1>5 DEF IntactInv
<1>7. CASE id = c
  <2>1. Settling(id) = {}
    BY <1>1, <1>7
  <2>2. Settling(id)' = {p}
    BY <1>4, <1>7, <2>1 DEF Settling
  <2>3. JustThose(Latest(id)'.events, outcomes', id)
    BY <1>0, <1>5, <1>6, <2>1 DEF Intact
  <2>4. job'[p].record.events = Append(Latest(id)'.events, job'[p].event)
    BY <1>4, <1>5, <1>7
  <2> QED
    BY <1>4, <2>2, <2>3, <2>4 DEF Intact
<1>8. CASE id # c
  <2>1. p \notin Settling(id)
    BY <1>0 DEF Settling
  <2> QED
    BY <1>0, <1>4, <1>5, <1>6, <1>8, <2>1, IntactElsewhere
<1> QED
    BY <1>7, <1>8

\* An outcome is the one its settlement was missing, or is of another claim.
LEMMA IntactObserved ==
    ASSUME IntactInv, NEW p \in Proc, WriteOutcome(p), NEW id \in Recorded' \ disturbed'
    PROVE  Intact(id)'
<1> DEFINE o == [id |-> job[p].record.id, event |-> job[p].event]
<1>0. /\ TypeOK /\ JobInv /\ UNCHANGED <<claims, job, disturbed>> /\ pc[p] = "computed"
      /\ pc' = [pc EXCEPT ![p] = "observed"] /\ outcomes' = Append(outcomes, o)
    BY DEF IntactInv, SealInv, Base, WriteOutcome
<1>1. o \in Outcome /\ o.id = job[p].record.id /\ o.event = job[p].event
    BY <1>0 DEF JobInv, Busy, Job, ClaimRecord, Outcome
<1>2. Recorded' = Recorded /\ \A i : Latest(i)' = Latest(i)
    BY <1>0 DEF Recorded, Latest
<1>3. Intact(id) /\ id \in Recorded
    BY <1>0, <1>2 DEF IntactInv
<1>4. /\ pc'[p] = "observed" /\ job'[p] = job[p]
      /\ \A q \in Proc \ {p} : pc'[q] = pc[q] /\ job'[q] = job[q]
    BY <1>0 DEF TypeOK
<1> HIDE DEF o
<1>5. CASE o.id = id
  <2>1. p \in Settling(id)
    BY <1>0, <1>1, <1>5 DEF Settling
  <2>2. Settling(id) = {p} /\ Settling(id)' = {p}
    BY <1>3, <1>4, <2>1 DEF Intact, Settling
  <2>3. /\ JustThose(Latest(id).events, outcomes, id)
        /\ job[p].record.events = Append(Latest(id).events, job[p].event)
    BY <1>0, <1>3, <2>1 DEF Intact
  <2>4. Latest(id).events \in Seq(Event)
    BY <1>0, <1>3, LatestIsARecord DEF ClaimRecord
  <2>5. JustThose(Append(Latest(id).events, o.event), Append(outcomes, o), o.id)
    BY <1>0, <1>1, <1>5, <2>3, <2>4, JustThoseAndOne DEF TypeOK
  <2>6. JustThose(job[p].record.events, outcomes', id)
    BY <1>0, <1>1, <1>5, <2>3, <2>5
  <2> QED
    BY <1>4, <2>2, <2>6 DEF Intact
<1>6. CASE o.id # id
  <2>1. p \notin Settling(id) /\ job'[p].record.id # id
    BY <1>1, <1>4, <1>6 DEF Settling
  <2>2. \A events : JustThose(events, outcomes, id) => JustThose(events, outcomes', id)
    BY <1>0, <1>1, <1>6, JustThoseOfOthers DEF TypeOK
  <2> QED
    BY <1>2, <1>3, <1>4, <2>1, <2>2, IntactElsewhere
<1> QED
    BY <1>5, <1>6

\* A score changes neither the claims nor the outcomes.
LEMMA IntactScored ==
    ASSUME IntactInv, NEW p \in Proc, WriteScore(p), NEW id \in Recorded' \ disturbed'
    PROVE  Intact(id)'
<1>0. /\ TypeOK /\ UNCHANGED <<claims, job, disturbed, outcomes>> /\ pc[p] = "observed"
      /\ pc' = [pc EXCEPT ![p] = "scored"]
    BY DEF IntactInv, SealInv, Base, WriteScore
<1>1. Recorded' = Recorded /\ Latest(id)' = Latest(id)
    BY <1>0 DEF Recorded, Latest
<1>2. Intact(id)
    BY <1>0, <1>1 DEF IntactInv
<1>3. \A q \in Proc : pc'[q] = pc[q] \/ (pc[q] = "observed" /\ pc'[q] = "scored")
    BY <1>0 DEF TypeOK
<1>4. Settling(id)' = Settling(id)
    BY <1>0, <1>3 DEF Settling
<1>5. \A q \in Settling(id) : q \in Proc
    BY DEF Settling
<1>6. \A q, r \in Settling(id)' : q = r
    BY <1>2, <1>4 DEF Intact
<1>7. Settling(id)' = {} => JustThose(Latest(id)'.events, outcomes', id)
    BY <1>0, <1>1, <1>2, <1>4 DEF Intact
<1>8. ASSUME NEW q \in Settling(id)'
      PROVE  /\ pc'[q] = "computed" =>
                  /\ JustThose(Latest(id)'.events, outcomes', id)
                  /\ job'[q].record.events = Append(Latest(id)'.events, job'[q].event)
             /\ pc'[q] # "computed" => JustThose(job'[q].record.events, outcomes', id)
    BY <1>0, <1>1, <1>2, <1>3, <1>4, <1>5 DEF Intact
<1> QED
    BY <1>6, <1>7, <1>8 DEF Intact

\* A claim written back is what its settlement held, and no other settlement is at it.
LEMMA IntactWritten ==
    ASSUME IntactInv, NEW p \in Proc, WriteClaim(p), NEW id \in Recorded' \ disturbed'
    PROVE  Intact(id)'
<1>0. /\ SealInv /\ TypeOK /\ JobInv /\ UNCHANGED <<outcomes, disturbed>> /\ pc[p] = "scored"
      /\ pc' = [pc EXCEPT ![p] = "idle"] /\ job' = [job EXCEPT ![p] = None]
      /\ claims' = Append(claims, job[p].record)
    BY DEF IntactInv, SealInv, Base, WriteClaim
<1>1. PICK r \in ClaimRecord : r = job[p].record /\ r.id \in Recorded
    BY <1>0 DEF JobInv, Busy, Job, SealInv
<1>2. /\ Latest(r.id)' = r
      /\ \A c \in Recorded : c # r.id => Latest(c)' = Latest(c)
      /\ Recorded' = Recorded
  <2>1. claims' = Append(claims, r)
    BY <1>0, <1>1
  <2>2. /\ Latest(r.id)' = r
        /\ \A c \in Recorded : c # r.id => Latest(c)' = Latest(c)
        /\ Recorded' = Recorded \cup {r.id}
    BY <1>0, <2>1, LatestOfAppend
  <2> QED
    BY <1>1, <2>2
<1>3. Intact(id) /\ id \in Recorded
    BY <1>0, <1>2 DEF IntactInv
<1>4. /\ pc'[p] = "idle"
      /\ \A q \in Proc \ {p} : pc'[q] = pc[q] /\ job'[q] = job[q]
    BY <1>0 DEF TypeOK
<1>5. CASE r.id = id
  <2>1. p \in Settling(id)
    BY <1>0, <1>1, <1>5 DEF Settling
  <2>2. Settling(id) = {p}
    BY <1>3, <2>1 DEF Intact
  <2>3. Settling(id)' = {}
    BY <1>4, <2>2 DEF Settling
  <2>4. JustThose(r.events, outcomes, id)
    BY <1>0, <1>1, <1>3, <2>1 DEF Intact
  <2>5. JustThose(Latest(id)'.events, outcomes', id)
    BY <1>0, <1>2, <1>5, <2>4
  <2> QED
    BY <2>3, <2>5 DEF Intact
<1>6. CASE r.id # id
  <2>1. p \notin Settling(id)
    BY <1>1, <1>6 DEF Settling
  <2> QED
    BY <1>0, <1>2, <1>3, <1>4, <1>6, <2>1, IntactElsewhere
<1> QED
    BY <1>5, <1>6

\* A settlement that dies has disturbed its claim and no other.
LEMMA IntactCrashed ==
    ASSUME IntactInv, NEW p \in Proc, Crash(p), NEW id \in Recorded' \ disturbed'
    PROVE  Intact(id)'
<1>0. /\ TypeOK /\ UNCHANGED <<claims, outcomes>> /\ id \notin disturbed
      /\ pc' = [pc EXCEPT ![p] = "idle"] /\ job' = [job EXCEPT ![p] = None]
      /\ job[p].record.id # id
    BY DEF IntactInv, SealInv, Base, Crash
<1>1. Recorded' = Recorded /\ Latest(id)' = Latest(id)
    BY <1>0 DEF Recorded, Latest
<1>2. Intact(id)
    BY <1>0, <1>1 DEF IntactInv
<1>3. /\ pc'[p] = "idle"
      /\ \A q \in Proc \ {p} : pc'[q] = pc[q] /\ job'[q] = job[q]
    BY <1>0 DEF TypeOK
<1>4. p \notin Settling(id)
    BY <1>0 DEF Settling
<1> QED
    BY <1>0, <1>1, <1>2, <1>3, <1>4, IntactElsewhere

\* A claim settled by one process at a time, none of which died, holds exactly the
\* outcomes written for it, in the order of the file.
THEOREM NothingLost == Spec => []UndisturbedLosesNothing
<1>1. Init => IntactInv
  <2> SUFFICES ASSUME Init PROVE IntactInv
    OBVIOUS
  <2>1. SealInv
    BY BaseInit, EmptySeq DEF Init, SealInv, Elements, Busy
  <2>2. Elements(outcomes) = {} /\ Recorded = {}
    BY EmptySeq DEF Init, Elements, Recorded
  <2> QED
    BY <2>1, <2>2 DEF IntactInv
<1>2. IntactInv /\ [Next]_vars => IntactInv'
  <2> SUFFICES ASSUME IntactInv, [Next]_vars PROVE IntactInv'
    OBVIOUS
  <2>1. SealInv'
    BY SealStep DEF IntactInv
  <2>2. \A outcome \in Elements(outcomes') : outcome.id \in Recorded'
    BY OutcomesRecorded
  <2>3. ASSUME NEW id \in Recorded' \ disturbed' PROVE Intact(id)'
    <3>1. CASE UNCHANGED vars
      <4>1. UNCHANGED <<claims, outcomes, pc, job, disturbed>>
        BY <3>1 DEF vars
      <4>2. Recorded' = Recorded /\ Settling(id)' = Settling(id) /\ Latest(id)' = Latest(id)
        BY <4>1 DEF Recorded, Settling, Latest
      <4>3. Intact(id)
        BY <4>1, <4>2 DEF IntactInv
      <4> QED
        BY <4>1, <4>2, <4>3 DEF Intact
    <3> QED
      BY <3>1, IntactRecorded, IntactBegun, IntactObserved, IntactScored, IntactWritten,
         IntactCrashed DEF Next
  <2> QED
    BY <2>1, <2>2, <2>3 DEF IntactInv, Elements
<1>3. IntactInv => UndisturbedLosesNothing
    BY DEF IntactInv, Intact, UndisturbedLosesNothing
<1> QED
    BY <1>1, <1>2, <1>3, PTL DEF Spec
=============================================================================
