--------------------------- MODULE ClaimSettlement ---------------------------
(***************************************************************************)
(* record_claim and settle_claim of ledger.py, called by any number of     *)
(* processes, and the read models over what they leave behind.             *)
(*                                                                         *)
(* Appending a claim record is one step here: LedgerAppend implements      *)
(* SignedLog, and what an append that dies half way does to the integrity  *)
(* chain is LedgerAppend's subject.  A settlement is three writes to three *)
(* files with nothing around them: outcomes.jsonl, scores.jsonl and        *)
(* claims.jsonl.  Times are small numbers; a claim's metadata is left out. *)
(***************************************************************************)
EXTENDS Naturals, Sequences, FiniteSets, FiniteSetsExt

CONSTANTS
    Proc,        \* processes that record and settle
    ClaimId,     \* claim ids, each given out once (uuid4)
    None,        \* a time or a job that is not set
    MaxTime,     \* bound: the times claims and observations carry, 1 .. MaxTime
    MaxSettles   \* bound: settle_claim calls

ASSUME SettlementAssumption ==
    /\ None \notin Nat
    /\ MaxTime \in Nat \ {0}
    /\ MaxSettles \in Nat

VARIABLES
    claims,      \* claims.jsonl: full records, the latest of an id is the claim
    outcomes,    \* outcomes.jsonl
    scores,      \* scores.jsonl
    pc,          \* how far each process is in settle_claim
    job,         \* the settlement each process has computed and not written yet
    settles,     \* how many settlements have been begun
    disturbed    \* history: claims settled by two at once, or by one that died

vars == <<claims, outcomes, scores, pc, job, settles, disturbed>>

Time == 1 .. MaxTime

Event == [observed : BOOLEAN, at : Time]

Status == {"PROPOSED", "VALIDATED", "CONTRADICTED"}

\* claim_status and settlement.status are always set together and are one field.
ClaimRecord ==
    [id : ClaimId, predicted : BOOLEAN,
     claimTime : Time, evidenceEnd : Time, outcomeTime : Time \cup {None},
     status : Status, events : Seq(Event)]

Outcome == [id : ClaimId, event : Event]
Score   == [id : ClaimId, status : Status, events : Seq(Event)]
Job     == [event : Event, record : ClaimRecord]

TypeOK ==
    /\ claims \in Seq(ClaimRecord)
    /\ outcomes \in Seq(Outcome)
    /\ scores \in Seq(Score)
    /\ pc \in [Proc -> {"idle", "computed", "observed", "scored"}]
    /\ job \in [Proc -> Job \cup {None}]
    /\ settles \in 0 .. MaxSettles
    /\ disturbed \subseteq ClaimId

-----------------------------------------------------------------------------
Elements(s) == {s[n] : n \in 1 .. Len(s)}

Recorded == {record.id : record \in Elements(claims)}

\* MemoryStore.latest_claim
Latest(id) == claims[Max({n \in 1 .. Len(claims) : claims[n].id = id})]

\* Mutant of Poisoned: an outcome at the very time of the claim is let pass.
PoisonedIfEarlier(claimTime, evidenceEnd, outcomeTime) ==
    \/ evidenceEnd > claimTime
    \/ outcomeTime # None /\ outcomeTime < claimTime

\* TemporalSeal.compute_leakage_status
Poisoned(claimTime, evidenceEnd, outcomeTime) ==
    \/ evidenceEnd > claimTime
    \/ outcomeTime # None /\ outcomeTime <= claimTime

Verdict(predicted, observed) ==
    IF observed = predicted THEN "VALIDATED" ELSE "CONTRADICTED"

\* Mutants of SettledRecord: the event replaces those before it; the claim is
\* sealed again at the time of the event.
SettledByLastEvent(record, event) ==
    [record EXCEPT
        !.status = Verdict(record.predicted, event.observed),
        !.events = <<event>>,
        !.outcomeTime = IF @ = None THEN event.at ELSE @]

SettledAndResealed(record, event) ==
    [record EXCEPT
        !.status = Verdict(record.predicted, event.observed),
        !.claimTime = event.at,
        !.events = Append(@, event)]

\* The record settle_claim builds: all of the old one, one more event, the
\* verdict of that event, and an outcome time if there was none.
SettledRecord(record, event) ==
    [record EXCEPT
        !.status = Verdict(record.predicted, event.observed),
        !.events = Append(@, event),
        !.outcomeTime = IF @ = None THEN event.at ELSE @]

Settling(id) == {p \in Proc : pc[p] # "idle" /\ job[p].record.id = id}

-----------------------------------------------------------------------------
Init ==
    /\ claims = <<>>
    /\ outcomes = <<>>
    /\ scores = <<>>
    /\ pc = [p \in Proc |-> "idle"]
    /\ job = [p \in Proc |-> None]
    /\ settles = 0
    /\ disturbed = {}

\* record_claim; a seal that would be poisoned raises and writes nothing.
RecordClaim(p) ==
    /\ pc[p] = "idle"
    /\ \E id \in ClaimId \ Recorded, predicted \in BOOLEAN,
          claimTime, evidenceEnd \in Time, outcomeTime \in Time \cup {None} :
          /\ ~Poisoned(claimTime, evidenceEnd, outcomeTime)
          /\ claims' = Append(claims,
                [id |-> id, predicted |-> predicted,
                 claimTime |-> claimTime, evidenceEnd |-> evidenceEnd,
                 outcomeTime |-> outcomeTime,
                 status |-> "PROPOSED", events |-> <<>>])
    /\ UNCHANGED <<outcomes, scores, pc, job, settles, disturbed>>

\* settle_claim up to its first write: the claim is read without a lock, the
\* seal is checked, and everything to be written is computed from what was
\* read.  A claim already settled is not refused.
BeginSettle(p) ==
    /\ pc[p] = "idle"
    /\ settles < MaxSettles
    /\ \E id \in Recorded, event \in Event :
          LET record == Latest(id)
          IN  /\ ~Poisoned(record.claimTime, record.evidenceEnd, record.outcomeTime)
              /\ event.at > record.claimTime
              /\ job' = [job EXCEPT ![p] = [event  |-> event,
                                            record |-> SettledRecord(record, event)]]
              /\ disturbed' = IF Settling(id) = {} THEN disturbed
                              ELSE disturbed \cup {id}
    /\ settles' = settles + 1
    /\ pc' = [pc EXCEPT ![p] = "computed"]
    /\ UNCHANGED <<claims, outcomes, scores>>

\* Mutant of WriteOutcome: the line is not written if there is one like it already.
WriteOutcomeOnce(p) ==
    LET line == [id |-> job[p].record.id, event |-> job[p].event]
    IN  /\ pc[p] = "computed"
        /\ outcomes' = IF line \in Elements(outcomes) THEN outcomes
                       ELSE Append(outcomes, line)
        /\ pc' = [pc EXCEPT ![p] = "observed"]
        /\ UNCHANGED <<claims, scores, job, settles, disturbed>>

WriteOutcome(p) ==
    /\ pc[p] = "computed"
    /\ outcomes' = Append(outcomes, [id |-> job[p].record.id, event |-> job[p].event])
    /\ pc' = [pc EXCEPT ![p] = "observed"]
    /\ UNCHANGED <<claims, scores, job, settles, disturbed>>

\* Mutant of WriteScore: the score is made of the claim as it stands by now.
WriteScoreOfLatest(p) ==
    LET record == Latest(job[p].record.id)
    IN  /\ pc[p] = "observed"
        /\ scores' = Append(scores, [id |-> record.id, status |-> record.status,
                                     events |-> record.events])
        /\ pc' = [pc EXCEPT ![p] = "scored"]
        /\ UNCHANGED <<claims, outcomes, job, settles, disturbed>>

WriteScore(p) ==
    /\ pc[p] = "observed"
    /\ scores' = Append(scores, [id     |-> job[p].record.id,
                                 status |-> job[p].record.status,
                                 events |-> job[p].record.events])
    /\ pc' = [pc EXCEPT ![p] = "scored"]
    /\ UNCHANGED <<claims, outcomes, job, settles, disturbed>>

WriteClaim(p) ==
    /\ pc[p] = "scored"
    /\ claims' = Append(claims, job[p].record)
    /\ pc' = [pc EXCEPT ![p] = "idle"]
    /\ job' = [job EXCEPT ![p] = None]
    /\ UNCHANGED <<outcomes, scores, settles, disturbed>>

\* The process dies, or one of the writes raises; what is written stays, and
\* the caller may settle the claim again.
Crash(p) ==
    /\ pc[p] # "idle"
    /\ pc' = [pc EXCEPT ![p] = "idle"]
    /\ job' = [job EXCEPT ![p] = None]
    /\ disturbed' = disturbed \cup {job[p].record.id}
    /\ UNCHANGED <<claims, outcomes, scores, settles>>

Next ==
    \E p \in Proc :
        \/ RecordClaim(p) \/ BeginSettle(p)
        \/ WriteOutcome(p) \/ WriteScore(p) \/ WriteClaim(p)
        \/ Crash(p)

Spec == Init /\ [][Next]_vars

-----------------------------------------------------------------------------
(* The read models *)

\* ledger._is_settled, which report uses.  (query_memory asks for claim_status to be
\* set, and it is set to PROPOSED from the start.)
IsSettled(record) ==
    record.status \in {"VALIDATED", "CONTRADICTED"} \/ record.events # <<>>

-----------------------------------------------------------------------------
(* Properties *)

\* A settled record is never seen before what it rests on: whichever process
\* died or overtook, its last outcome and its score were written first; and no
\* score is left without the outcomes it scores.
SettledIsAccounted ==
    /\ \A record \in Elements(claims) : record.status # "PROPOSED" =>
        /\ [id |-> record.id, event |-> record.events[Len(record.events)]]
              \in Elements(outcomes)
        /\ [id |-> record.id, status |-> record.status, events |-> record.events]
              \in Elements(scores)
    /\ \A score \in Elements(scores) :
        \A n \in 1 .. Len(score.events) :
            [id |-> score.id, event |-> score.events[n]] \in Elements(outcomes)

\* A claim that was settled stays settled, and what it predicted, and when,
\* on what evidence, is the same in every later record of it: neither a late
\* settler working from an old record nor a retry brings another claim back.
SealIsFrozen ==
    \A m, n \in 1 .. Len(claims) : m < n /\ claims[m].id = claims[n].id =>
        /\ IsSettled(claims[n])
        /\ claims[m].predicted = claims[n].predicted
        /\ claims[m].claimTime = claims[n].claimTime
        /\ claims[m].evidenceEnd = claims[n].evidenceEnd

\* What was known never reaches back before the claim: in every record stored
\* the evidence is not younger than the claim, and each observation and the
\* outcome time are.
NoLeakage ==
    \A record \in Elements(claims) :
        /\ record.evidenceEnd <= record.claimTime
        /\ record.outcomeTime # None => record.outcomeTime > record.claimTime
        /\ \A n \in 1 .. Len(record.events) : record.events[n].at > record.claimTime

\* The lines of outcomes.jsonl that are about a claim.
Lines(file, id) == {n \in 1 .. Len(file) : file[n].id = id}

\* The events are those of the outcomes about the claim, in the order of the file.
JustThose(events, file, id) ==
    /\ Len(events) = Cardinality(Lines(file, id))
    /\ \A n \in Lines(file, id) :
          events[Cardinality({m \in Lines(file, id) : m <= n})] = file[n].event

\* A claim settled by one process at a time, none of which died, has lost
\* nothing: its record holds exactly the outcomes written for it, in order.
UndisturbedLosesNothing ==
    \A id \in Recorded \ disturbed :
        Settling(id) = {} => JustThose(Latest(id).events, outcomes, id)

\* Each of the events is on a line of its own about the claim, in the order of the file.
InOrder(events, file, id) ==
    \E line \in [1 .. Len(events) -> Lines(file, id)] :
        /\ \A m, n \in 1 .. Len(events) : m < n => line[m] < line[n]
        /\ \A n \in 1 .. Len(events) : file[line[n]].event = events[n]

\* The history of a claim is one that was observed: the events of every record and of
\* every score are among the lines of outcomes.jsonl, in their order and each with a
\* line of its own, also where settlements overlapped, died and were made again.  A
\* record may have lost an event; it has none twice, and none out of order.
EventsWereObserved ==
    /\ \A record \in Elements(claims) : InOrder(record.events, outcomes, record.id)
    /\ \A score \in Elements(scores) : InOrder(score.events, outcomes, score.id)

=============================================================================
