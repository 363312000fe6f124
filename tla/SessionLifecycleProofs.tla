----------------------- MODULE SessionLifecycleProofs -----------------------
(***************************************************************************)
(* Proofs about SessionLifecycle, for any processes and any number of      *)
(* sessions and claims.                                                    *)
(*                                                                         *)
(* Everything rests on one fact about the log: a start carries an id       *)
(* larger than every id before it.  A session is therefore started once,   *)
(* all its ends follow its start, and the last open start of the log is    *)
(* the start of the largest open session.                                  *)
(***************************************************************************)
EXTENDS SessionLifecycle, SequenceTheorems, WellFoundedInduction, FiniteSetTheorems, TLAPS

\* Among numbers up to n there is a largest, and Max names it: counted down from n,
\* one of them comes first.
LEMMA MaxOfBounded ==
    ASSUME NEW n \in Nat, NEW S \in SUBSET (1 .. n), S # {}
    PROVE  Max(S) \in S /\ \A x \in S : x <= Max(S)
<1> DEFINE D == {k \in Nat : n - k \in S}
<1>1. \A x \in S : n - x \in D /\ n - (n - x) = x
    OBVIOUS
<1>2. PICK d \in D : \A e \in D : <<e, d>> \notin OpToRel(<, Nat)
    BY <1>1, NatLessThanWellFounded, WFMin
<1>3. \A x \in S : ~(n - x < d)
    BY <1>1, <1>2 DEF OpToRel
<1>4. n - d \in S /\ \A x \in S : x <= n - d
    BY <1>3
<1> QED
    BY <1>4 DEF Max

EventRecord == [kind : {"start", "end"}, sid : Sid, status : Reconciled \cup {"OPEN", "STATED"}]

ClaimRecord == [claim : ClaimNo, session : Sid \cup {NoSession}, status : Status]

\* The session a command works with is one of the log, or none for a wrap.
PhaseInv ==
    \A p \in Proc :
        /\ pc[p] \in {"ending", "closing"} => session[p] \in Started
        /\ pc[p] \in {"tagged", "recorded"} => session[p] \in Started \cup {NoSession}
        /\ pc[p] = "recorded" => claim[p] \in Recorded

Base == TypeOK /\ PhaseInv

-----------------------------------------------------------------------------
(* The log and what it says *)

\* The sessions of a well-typed log are ids, and finitely many.
LEMMA LogTypes ==
    ASSUME TypeOK
    PROVE  /\ Len(events) \in Nat
           /\ \A n \in 1 .. Len(events) : events[n] \in EventRecord
           /\ Started \subseteq Sid /\ Ended \subseteq Sid /\ Sids \subseteq Sid
           /\ IsFiniteSet(Started) /\ Cardinality(Started) \in Nat
<1>1. events \in Seq(EventRecord)
    BY DEF TypeOK, EventRecord
<1>2. Len(events) \in Nat /\ \A n \in 1 .. Len(events) : events[n] \in EventRecord
    BY <1>1, LenProperties, ElementOfSeq
<1>3. Started \subseteq Sid /\ Ended \subseteq Sid /\ Sids \subseteq Sid
    BY <1>2 DEF Started, Ended, Sids, EventRecord
<1>4. IsFiniteSet(Sid)
    BY FS_Interval, SessionAssumption DEF Sid
<1> QED
    BY <1>2, <1>3, <1>4, FS_Subset, FS_CardinalityType

\* The session that is current was started, unless there is none.
LEMMA CurrentIsStarted ==
    ASSUME TypeOK
    PROVE  CurrentSession \in Started \cup {NoSession}
<1> DEFINE unclosed == {n \in 1 .. Len(events) :
                          /\ events[n].kind # "end"
                          /\ \A m \in n + 1 .. Len(events) : events[m].sid # events[n].sid}
<1>1. CurrentSession = IF unclosed = {} THEN NoSession ELSE events[Max(unclosed)].sid
    BY DEF CurrentSession
<1>2. ASSUME unclosed # {} PROVE events[Max(unclosed)].sid \in Started
  <2>1. Max(unclosed) \in unclosed
    <3>1. unclosed \in SUBSET (1 .. Len(events)) /\ Len(events) \in Nat
      BY LogTypes
    <3> QED
      BY <1>2, <3>1, MaxOfBounded
  <2>2. Max(unclosed) \in 1 .. Len(events) /\ events[Max(unclosed)].kind # "end"
    BY <2>1
  <2> HIDE DEF unclosed
  <2> QED
    BY <2>2, LogTypes DEF Started, EventRecord
<1> QED
    BY <1>1, <1>2

\* What one more event does to the sets of sessions the log gives.
LEMMA SessionsOfAppend ==
    ASSUME TypeOK, NEW e \in EventRecord, events' = Append(events, e)
    PROVE  /\ Started' = IF e.kind = "start" THEN Started \cup {e.sid} ELSE Started
           /\ Ended' = IF e.kind = "end" THEN Ended \cup {e.sid} ELSE Ended
           /\ Sids' = Sids \cup {e.sid}
<1>1. events \in Seq(EventRecord) /\ Len(events) \in Nat
    BY LogTypes DEF TypeOK, EventRecord
<1>2. /\ Len(events') = Len(events) + 1
      /\ \A n \in 1 .. Len(events) : events'[n] = events[n]
      /\ events'[Len(events) + 1] = e
    BY <1>1, AppendProperties
<1>3. 1 .. Len(events') = (1 .. Len(events)) \cup {Len(events) + 1}
    BY <1>1, <1>2
<1>4. \A kind : {m \in 1 .. Len(events') : events'[m].kind = kind}
        = {m \in 1 .. Len(events) : events[m].kind = kind}
            \cup {m \in {Len(events) + 1} : e.kind = kind}
    BY <1>2, <1>3
<1>5. Started' = IF e.kind = "start" THEN Started \cup {e.sid} ELSE Started
    BY <1>2, <1>4 DEF Started
<1>6. Ended' = IF e.kind = "end" THEN Ended \cup {e.sid} ELSE Ended
    BY <1>2, <1>4 DEF Ended
<1>7. Sids' = Sids \cup {e.sid}
    BY <1>2, <1>3 DEF Sids
<1> QED
    BY <1>5, <1>6, <1>7

\* The events the steps write are of the log's type.
LEMMA NewEvents ==
    ASSUME TypeOK, NEW p \in Proc
    PROVE  /\ StartAppend(p) => StartEvent(Cardinality(Started) + 1) \in EventRecord
           /\ pc[p] = "closing" /\ session[p] \in Started
                => EndEvent(session[p], final[p]) \in EventRecord
<1>1. StartAppend(p) => Cardinality(Started) + 1 \in Sid
    BY LogTypes, SessionAssumption DEF StartAppend, Sid
<1>2. final[p] \in Reconciled \cup {"OPEN", "STATED"}
    BY DEF TypeOK
<1>3. Started \subseteq Sid
    BY LogTypes
<1> QED
    BY <1>1, <1>2, <1>3 DEF StartEvent, EndEvent, EventRecord

\* What any step does to sessions.jsonl: nothing, a start with the next id, or an end
\* of a session that was started.
LEMMA EventsStep ==
    ASSUME Base, [Next]_vars
    PROVE  \/ events' = events
           \/ \E p \in Proc : /\ StartAppend(p)
                              /\ StartEvent(Cardinality(Started) + 1) \in EventRecord
                              /\ events' = Append(events, StartEvent(Cardinality(Started) + 1))
           \/ \E p \in Proc : /\ EndAppend(p) /\ session[p] \in Started
                              /\ EndEvent(session[p], final[p]) \in EventRecord
                              /\ events' = Append(events, EndEvent(session[p], final[p]))
<1>0. TypeOK /\ PhaseInv
    BY DEF Base
<1>1. ASSUME NEW p \in Proc, StartAppend(p)
      PROVE  /\ StartEvent(Cardinality(Started) + 1) \in EventRecord
             /\ events' = Append(events, StartEvent(Cardinality(Started) + 1))
    BY <1>0, <1>1, NewEvents DEF StartAppend
<1>2. ASSUME NEW p \in Proc, EndAppend(p)
      PROVE  /\ session[p] \in Started
             /\ EndEvent(session[p], final[p]) \in EventRecord
             /\ events' = Append(events, EndEvent(session[p], final[p]))
  <2>1. pc[p] = "closing" /\ session[p] \in Started
    BY <1>0, <1>2 DEF EndAppend, PhaseInv
  <2> QED
    BY <1>0, <1>2, <2>1, NewEvents DEF EndAppend
<1>3. ASSUME NEW p \in Proc,
             \/ StartCheck(p) \/ StartRefused(p) \/ EndFind(p) \/ EndDecide(p)
             \/ WrapRead(p) \/ WrapRecord(p) \/ WrapSettle(p) \/ WrapWithoutClaim(p)
             \/ SettleClaim(p) \/ ChecksBegin(p) \/ ChecksEndRefused(p) \/ Crash(p)
      PROVE  events' = events
    BY <1>3 DEF StartCheck, StartRefused, EndFind, EndDecide, WrapRead, WrapRecord,
                WrapSettle, WrapWithoutClaim, SettleClaim, ChecksBegin, ChecksEndRefused, Crash
<1>4. CASE UNCHANGED vars
    BY <1>4 DEF vars
<1> QED
    BY <1>1, <1>2, <1>3, <1>4 DEF Next

\* What any step does to claims.jsonl: nothing, or one record of the type.
LEMMA RecordsStep ==
    ASSUME Base, [Next]_vars
    PROVE  \/ records' = records /\ late' = late
           \/ \E p \in Proc, r \in ClaimRecord :
                 /\ AddRecord(r)
                 /\ UNCHANGED <<events, final>>
                 /\ \/ /\ WrapRecord(p) /\ r.claim = Cardinality(Recorded) + 1
                       /\ r.session = session[p]
                    \/ WrapSettle(p) /\ r.claim = claim[p] /\ r.session = session[p]
                    \/ /\ SettleClaim(p)
                       /\ \E q \in records : r.claim = q.claim /\ r.session = q.session
<1>0. /\ TypeOK /\ PhaseInv
      /\ \A p \in Proc : session[p] \in Sid \cup {NoSession}
      /\ records \subseteq ClaimRecord
    BY DEF Base, TypeOK, ClaimRecord
<1>1. Recorded \subseteq ClaimNo /\ Cardinality(Recorded) \in Nat
  <2>1. Recorded \subseteq ClaimNo
    BY <1>0 DEF Recorded, ClaimRecord
  <2>2. IsFiniteSet(ClaimNo)
    BY FS_Interval, SessionAssumption DEF ClaimNo
  <2> QED
    BY <2>1, <2>2, FS_Subset, FS_CardinalityType
<1>2. ASSUME NEW p \in Proc, WrapRecord(p)
      PROVE  \E r \in ClaimRecord :
                 /\ AddRecord(r) /\ UNCHANGED <<events, final>>
                 /\ r.claim = Cardinality(Recorded) + 1 /\ r.session = session[p]
  <2> DEFINE r == [claim |-> Cardinality(Recorded) + 1, session |-> session[p],
                   status |-> "PROPOSED"]
  <2>1. Cardinality(Recorded) + 1 \in ClaimNo
    BY <1>1, <1>2, SessionAssumption DEF WrapRecord, ClaimNo
  <2>2. r \in ClaimRecord
    BY <1>0, <2>1 DEF ClaimRecord, Status
  <2>3. AddRecord(r) /\ UNCHANGED <<events, final>>
    BY <1>2 DEF WrapRecord
  <2>4. r.claim = Cardinality(Recorded) + 1 /\ r.session = session[p]
    OBVIOUS
  <2> HIDE DEF r
  <2> QED
    BY <2>2, <2>3, <2>4
<1>3. ASSUME NEW p \in Proc, WrapSettle(p)
      PROVE  \E r \in ClaimRecord :
                 /\ AddRecord(r) /\ UNCHANGED <<events, final>>
                 /\ r.claim = claim[p] /\ r.session = session[p]
  <2>1. PICK status \in {"VALIDATED", "CONTRADICTED"} :
            AddRecord([claim |-> claim[p], session |-> session[p], status |-> status])
    BY <1>3 DEF WrapSettle
  <2>2. claim[p] \in ClaimNo
    BY <1>0, <1>1, <1>3 DEF WrapSettle, PhaseInv
  <2> DEFINE r == [claim |-> claim[p], session |-> session[p], status |-> status]
  <2>3. r \in ClaimRecord
    BY <1>0, <2>2 DEF ClaimRecord, Status
  <2>4. r.claim = claim[p] /\ r.session = session[p] /\ AddRecord(r)
    BY <2>1
  <2>5. UNCHANGED <<events, final>>
    BY <1>3 DEF WrapSettle
  <2> HIDE DEF r
  <2> QED
    BY <2>3, <2>4, <2>5
<1>4. ASSUME NEW p \in Proc, SettleClaim(p)
      PROVE  \E r \in ClaimRecord :
                 /\ AddRecord(r) /\ UNCHANGED <<events, final>>
                 /\ \E q \in records : r.claim = q.claim /\ r.session = q.session
  <2>1. PICK q \in records, status \in {"VALIDATED", "CONTRADICTED"} :
            AddRecord([q EXCEPT !.status = status])
    BY <1>4 DEF SettleClaim
  <2> DEFINE r == [q EXCEPT !.status = status]
  <2>2. q \in ClaimRecord
    BY <1>0
  <2>3. r \in ClaimRecord /\ r.claim = q.claim /\ r.session = q.session
    BY <2>2 DEF ClaimRecord, Status
  <2>4. AddRecord(r) /\ UNCHANGED <<events, final>>
    BY <1>4, <2>1 DEF SettleClaim
  <2> HIDE DEF r
  <2> QED
    BY <2>3, <2>4
<1>5. ASSUME NEW p \in Proc,
             \/ StartCheck(p) \/ StartRefused(p) \/ StartAppend(p) \/ EndFind(p)
             \/ EndDecide(p) \/ EndAppend(p) \/ WrapRead(p) \/ WrapWithoutClaim(p)
             \/ ChecksBegin(p) \/ ChecksEndRefused(p) \/ Crash(p)
      PROVE  records' = records /\ late' = late
    BY <1>5 DEF StartCheck, StartRefused, StartAppend, EndFind, EndDecide, EndAppend,
                WrapRead, WrapWithoutClaim, ChecksBegin, ChecksEndRefused, Crash
<1>6. CASE UNCHANGED vars
    BY <1>6 DEF vars
<1>7. CASE \E p \in Proc : WrapRecord(p)
    BY <1>2, <1>7
<1>8. CASE \E p \in Proc : WrapSettle(p)
    BY <1>3, <1>8
<1>9. CASE \E p \in Proc : SettleClaim(p)
    BY <1>4, <1>9
<1> QED
    BY <1>5, <1>6, <1>7, <1>8, <1>9 DEF Next

-----------------------------------------------------------------------------
(* Types *)

\* The two files stay of their types, and what is in them stays.
LEMMA FilesStep ==
    ASSUME Base, [Next]_vars
    PROVE  /\ events' \in Seq(EventRecord)
           /\ records' \subseteq ClaimRecord
           /\ late' \subseteq Sid
           /\ Started \subseteq Started' /\ Ended \subseteq Ended'
           /\ records \subseteq records' /\ Recorded \subseteq Recorded'
<1>0. /\ TypeOK /\ PhaseInv /\ events \in Seq(EventRecord)
      /\ records \subseteq ClaimRecord /\ late \subseteq Sid
    BY DEF Base, TypeOK, EventRecord, ClaimRecord
<1>1. events' \in Seq(EventRecord) /\ Started \subseteq Started' /\ Ended \subseteq Ended'
  <2>1. CASE events' = events
    BY <1>0, <2>1 DEF Started, Ended
  <2>2. ASSUME NEW e \in EventRecord, events' = Append(events, e)
        PROVE  events' \in Seq(EventRecord) /\ Started \subseteq Started' /\ Ended \subseteq Ended'
    BY <1>0, <2>2, SessionsOfAppend, AppendProperties
  <2> QED
    BY <2>1, <2>2, EventsStep
<1>2. Decided \subseteq Sid
    BY <1>0, LogTypes DEF Decided, PhaseInv
<1>3. /\ records' \subseteq ClaimRecord /\ late' \subseteq Sid
      /\ records \subseteq records'
  <2>1. ASSUME NEW r \in ClaimRecord, AddRecord(r)
        PROVE  /\ records' \subseteq ClaimRecord /\ late' \subseteq Sid
               /\ records \subseteq records'
    BY <1>0, <1>2, <2>1 DEF AddRecord
  <2> QED
    BY <1>0, <2>1, RecordsStep
<1> QED
    BY <1>1, <1>3 DEF Recorded

\* Whatever the claims say, a session has one of three verdicts.
LEMMA VerdictType == \A s : ReconcileFinalStatus(s) \in Reconciled
    BY DEF ReconcileFinalStatus, Reconciled

\* Every step keeps the types, and the sessions that commands work with in the log.
LEMMA BaseStep == Base /\ [Next]_vars => Base'
<1> SUFFICES ASSUME Base, [Next]_vars PROVE Base'
    OBVIOUS
<1>0. /\ TypeOK /\ PhaseInv
      /\ Started \subseteq Started' /\ Recorded \subseteq Recorded'
      /\ CurrentSession \in Started \cup {NoSession}
      /\ Started \subseteq Sid
    BY FilesStep, CurrentIsStarted, LogTypes DEF Base
<1>f. /\ events' \in Seq([kind : {"start", "end"}, sid : Sid,
                          status : Reconciled \cup {"OPEN", "STATED"}])
      /\ records' \subseteq [claim : ClaimNo, session : Sid \cup {NoSession}, status : Status]
      /\ late' \subseteq Sid
    BY FilesStep DEF EventRecord, ClaimRecord
<1>1. ASSUME NEW p \in Proc, StartCheck(p) \/ StartRefused(p) \/ ChecksBegin(p) PROVE Base'
    BY <1>0, <1>f, <1>1 DEF StartCheck, StartRefused, ChecksBegin, Base, TypeOK, PhaseInv
<1>2. ASSUME NEW p \in Proc, StartAppend(p) PROVE Base'
  <2>1. Cardinality(Started) + 1 \in Sid
    BY <1>0, <1>2, LogTypes, SessionAssumption DEF StartAppend, Sid
  <2>2. pc' = [pc EXCEPT ![p] = "idle"] /\ UNCHANGED <<session, claim, final, foreign>>
    BY <1>2 DEF StartAppend
  <2>3. \/ /\ checks' = [checks EXCEPT ![p] = "opened"]
           /\ own' = [own EXCEPT ![p] = Cardinality(Started) + 1]
        \/ UNCHANGED <<checks, own>>
    BY <1>2 DEF StartAppend
  <2>4. /\ pc' \in [Proc -> {"idle", "starting", "ending", "closing", "tagged", "recorded"}]
        /\ checks' \in [Proc -> {"none", "begun", "opened", "ran", "stopped"}]
    BY <1>0, <2>2, <2>3 DEF TypeOK
  <2>5. own' \in [Proc -> Sid \cup {NoSession}]
    BY <1>0, <2>1, <2>3 DEF TypeOK
  <2>6. TypeOK'
    BY <1>0, <1>f, <2>2, <2>4, <2>5 DEF TypeOK
  <2>7. PhaseInv'
    BY <1>0, <2>2 DEF PhaseInv, TypeOK
  <2> QED
    BY <2>6, <2>7 DEF Base
<1>3. ASSUME NEW p \in Proc, EndFind(p) PROVE Base'
    BY <1>0, <1>f, <1>3 DEF EndFind, Base, TypeOK, PhaseInv
<1>4. ASSUME NEW p \in Proc, EndDecide(p) PROVE Base'
    BY <1>0, <1>f, <1>4, VerdictType DEF EndDecide, Base, TypeOK, PhaseInv
<1>5. ASSUME NEW p \in Proc, EndAppend(p) PROVE Base'
  <2>1. foreign' \subseteq Sid
    BY <1>0, <1>5 DEF EndAppend, TypeOK, PhaseInv
  <2> QED
    BY <1>0, <1>f, <1>5, <2>1 DEF EndAppend, Base, TypeOK, PhaseInv
<1>6. ASSUME NEW p \in Proc, WrapRead(p) PROVE Base'
    BY <1>0, <1>f, <1>6 DEF WrapRead, Base, TypeOK, PhaseInv
<1>7. ASSUME NEW p \in Proc, WrapRecord(p) PROVE Base'
  <2> DEFINE r == [claim |-> Cardinality(Recorded) + 1, session |-> session[p],
                   status |-> "PROPOSED"]
  <2>3. r \in records'
    BY <1>7 DEF WrapRecord, AddRecord
  <2>4. r.claim = Cardinality(Recorded) + 1
    OBVIOUS
  <2> HIDE DEF r
  <2>5. r.claim \in Recorded'
    BY <2>3 DEF Recorded
  <2>1. Cardinality(Recorded) + 1 \in Recorded'
    BY <2>4, <2>5
  <2>2. Cardinality(Recorded) + 1 \in ClaimNo
    BY <1>f, <2>1 DEF Recorded
  <2> QED
    BY <1>0, <1>f, <1>7, <2>1, <2>2 DEF WrapRecord, Base, TypeOK, PhaseInv
<1>8. ASSUME NEW p \in Proc, WrapSettle(p) PROVE Base'
  <2>1. checks' \in [Proc -> {"none", "begun", "opened", "ran", "stopped"}]
    BY <1>0, <1>8 DEF WrapSettle, TypeOK
  <2> QED
    BY <1>0, <1>f, <1>8, <2>1 DEF WrapSettle, Base, TypeOK, PhaseInv
<1>9. ASSUME NEW p \in Proc, WrapWithoutClaim(p) PROVE Base'
  <2>1. checks' \in [Proc -> {"none", "begun", "opened", "ran", "stopped"}]
    BY <1>0, <1>9 DEF WrapWithoutClaim, TypeOK
  <2> QED
    BY <1>0, <1>f, <1>9, <2>1 DEF WrapWithoutClaim, Base, TypeOK, PhaseInv
<1>10. ASSUME NEW p \in Proc, SettleClaim(p) PROVE Base'
    BY <1>0, <1>f, <1>10 DEF SettleClaim, Base, TypeOK, PhaseInv
<1>11. ASSUME NEW p \in Proc, ChecksEndRefused(p) \/ Crash(p) PROVE Base'
    BY <1>0, <1>f, <1>11 DEF ChecksEndRefused, Crash, Base, TypeOK, PhaseInv
<1>12. CASE UNCHANGED vars
    BY <1>0, <1>f, <1>12 DEF vars, Base, TypeOK, PhaseInv
<1> QED
    BY <1>1, <1>2, <1>3, <1>4, <1>5, <1>6, <1>7, <1>8, <1>9, <1>10, <1>11, <1>12 DEF Next

\* Nothing is started or recorded at first.
LEMMA BaseInit == Init => Base
    BY EmptySeq DEF Init, Base, TypeOK, PhaseInv

\* Every file and every process is of its type.
THEOREM TypeCorrect == Spec => []TypeOK
<1>1. Spec => []Base
    BY BaseInit, BaseStep, PTL DEF Spec
<1>2. Base => TypeOK
    BY DEF Base
<1> QED
    BY <1>1, <1>2, PTL

\* The verdict on a session only gets worse: claims.jsonl only grows, so no retry
\* takes a contradiction away.
THEOREM VerdictWorsens == Spec => VerdictOnlyWorsens
<1>1. ASSUME Base, [Next]_vars, NEW s \in Sid
      PROVE  /\ ReconcileFinalStatus(s) = "FAILED" => ReconcileFinalStatus(s)' = "FAILED"
             /\ ReconcileFinalStatus(s) = "PASSED" => ReconcileFinalStatus(s)' # "UNKNOWN"
  <2>1. records \subseteq records'
    BY <1>1, FilesStep
  <2>2. StatusesOf(s) \subseteq StatusesOf(s)'
    BY <2>1 DEF StatusesOf
  <2> QED
    BY <2>2 DEF ReconcileFinalStatus
<1>2. Spec => []Base
    BY BaseInit, BaseStep, PTL DEF Spec
<1>3. Base /\ [Next]_vars =>
        [\A s \in Sid :
          /\ ReconcileFinalStatus(s) = "FAILED" => ReconcileFinalStatus(s)' = "FAILED"
          /\ ReconcileFinalStatus(s) = "PASSED" => ReconcileFinalStatus(s)' # "UNKNOWN"]_vars
    BY <1>1
<1> QED
    BY <1>2, <1>3, PTL DEF Spec, VerdictOnlyWorsens

-----------------------------------------------------------------------------
(* One session per claim *)

\* Claims are numbered without a gap, so a wrap's claim is new; all records of a claim
\* have its session, and so has the settlement a wrap will write.
TagInv ==
    /\ Base
    /\ \E k \in Nat : Recorded = 1 .. k
    /\ OneSessionPerClaim
    /\ \A p \in Proc : pc[p] = "recorded" =>
          \A r \in records : r.claim = claim[p] => r.session = session[p]

\* Counting the claims gives the number of a new one.
LEMMA NextClaimIsNew ==
    ASSUME \E k \in Nat : Recorded = 1 .. k
    PROVE  /\ Cardinality(Recorded) + 1 \notin Recorded
           /\ \E k \in Nat : Recorded \cup {Cardinality(Recorded) + 1} = 1 .. k
<1>1. PICK k \in Nat : Recorded = 1 .. k
    OBVIOUS
<1>2. Cardinality(Recorded) = k
    BY <1>1, FS_Interval
<1>3. 1 .. (k + 1) = (1 .. k) \cup {k + 1}
    OBVIOUS
<1>4. k + 1 \notin 1 .. k
    OBVIOUS
<1> QED
    BY <1>1, <1>2, <1>3, <1>4

\* The claims after one more record.
LEMMA RecordedOfAdd ==
    ASSUME NEW r, AddRecord(r)
    PROVE  Recorded' = Recorded \cup {r.claim}
    BY DEF AddRecord, Recorded

\* A step that records or settles keeps the tags.
LEMMA TagsOfRecords ==
    ASSUME TagInv, [Next]_vars
    PROVE  (\E k \in Nat : Recorded = 1 .. k)' /\ OneSessionPerClaim'
<1>0. /\ Base /\ TypeOK /\ PhaseInv /\ Started \subseteq Started'
    BY FilesStep DEF TagInv, Base
<1>1. CASE records' = records
    BY <1>0, <1>1 DEF TagInv, OneSessionPerClaim, Recorded
<1>2. ASSUME NEW r \in ClaimRecord, AddRecord(r),
             \A q \in records : q.claim = r.claim => q.session = r.session,
             r.session \in Started \cup {NoSession},
             \E k \in Nat : Recorded \cup {r.claim} = 1 .. k
      PROVE  (\E k \in Nat : Recorded = 1 .. k)' /\ OneSessionPerClaim'
  <2>1. (\E k \in Nat : Recorded = 1 .. k)'
    BY <1>2, RecordedOfAdd
  <2>2. OneSessionPerClaim'
    BY <1>0, <1>2 DEF AddRecord, TagInv, OneSessionPerClaim
  <2> QED
    BY <2>1, <2>2
<1>3. ASSUME NEW p \in Proc, NEW r \in ClaimRecord, AddRecord(r), WrapRecord(p),
             r.claim = Cardinality(Recorded) + 1, r.session = session[p]
      PROVE  (\E k \in Nat : Recorded = 1 .. k)' /\ OneSessionPerClaim'
  <2>1. \E k \in Nat : Recorded = 1 .. k
    BY DEF TagInv
  <2>2. r.claim \notin Recorded /\ \E k \in Nat : Recorded \cup {r.claim} = 1 .. k
    BY <1>3, <2>1, NextClaimIsNew
  <2>3. \A q \in records : q.claim # r.claim
    BY <2>2 DEF Recorded
  <2>4. r.session \in Started \cup {NoSession}
    BY <1>0, <1>3 DEF WrapRecord, PhaseInv
  <2> QED
    BY <1>2, <1>3, <2>2, <2>3, <2>4
<1>4. ASSUME NEW p \in Proc, NEW r \in ClaimRecord, AddRecord(r), WrapSettle(p),
             r.claim = claim[p], r.session = session[p]
      PROVE  (\E k \in Nat : Recorded = 1 .. k)' /\ OneSessionPerClaim'
  <2>1. pc[p] = "recorded"
    BY <1>4 DEF WrapSettle
  <2>2. r.claim \in Recorded /\ r.session \in Started \cup {NoSession}
    BY <1>0, <1>4, <2>1 DEF PhaseInv
  <2>3. Recorded \cup {r.claim} = Recorded
    BY <2>2
  <2>4. \A q \in records : q.claim = r.claim => q.session = r.session
    BY <1>4, <2>1 DEF TagInv
  <2> QED
    BY <1>2, <1>4, <2>2, <2>3, <2>4 DEF TagInv
<1>5. ASSUME NEW r \in ClaimRecord, AddRecord(r), NEW s \in records,
             r.claim = s.claim, r.session = s.session
      PROVE  (\E k \in Nat : Recorded = 1 .. k)' /\ OneSessionPerClaim'
  <2>1. Recorded \cup {r.claim} = Recorded
    BY <1>5 DEF Recorded
  <2>2. /\ \A q \in records : q.claim = r.claim => q.session = r.session
        /\ r.session \in Started \cup {NoSession}
    BY <1>5 DEF TagInv, OneSessionPerClaim
  <2> QED
    BY <1>2, <1>5, <2>1, <2>2 DEF TagInv
<1> QED
    BY <1>0, <1>1, <1>3, <1>4, <1>5, RecordsStep

\* The wraps that have recorded their claim after any step.
LEMMA TagsOfWraps ==
    ASSUME TagInv, [Next]_vars, NEW q \in Proc, pc'[q] = "recorded",
           NEW r \in records', r.claim = claim'[q]
    PROVE  r.session = session'[q]
<1>0. Base /\ TypeOK /\ PhaseInv /\ Base' /\ OneSessionPerClaim'
      /\ records \subseteq records'
    BY BaseStep, TagsOfRecords, FilesStep DEF TagInv, Base
<1>1. CASE pc[q] = "recorded" /\ claim'[q] = claim[q] /\ session'[q] = session[q]
  <2>1. PICK s \in records : s.claim = claim[q]
    BY <1>0, <1>1 DEF PhaseInv, Recorded
  <2>2. s.session = session[q]
    BY <1>1, <2>1 DEF TagInv
  <2>3. r.session = s.session
    BY <1>0, <1>1, <2>1 DEF OneSessionPerClaim
  <2> QED
    BY <1>1, <2>2, <2>3
<1>2. ASSUME WrapRecord(q) PROVE r.session = session'[q]
  <2> DEFINE s == [claim |-> Cardinality(Recorded) + 1, session |-> session[q],
                   status |-> "PROPOSED"]
  <2>1. s \in records' /\ claim'[q] = Cardinality(Recorded) + 1 /\ session' = session
    BY <1>0, <1>2 DEF WrapRecord, AddRecord, TypeOK
  <2>2. s.claim = claim'[q] /\ s.session = session'[q]
    BY <2>1
  <2> HIDE DEF s
  <2> QED
    BY <1>0, <2>1, <2>2 DEF OneSessionPerClaim
<1>3. ASSUME NEW p \in Proc, WrapRecord(p), p # q
      PROVE  pc[q] = "recorded" /\ claim'[q] = claim[q] /\ session'[q] = session[q]
    BY <1>0, <1>3 DEF WrapRecord, TypeOK
<1>4. ASSUME NEW p \in Proc,
             \/ StartCheck(p) \/ StartRefused(p) \/ StartAppend(p)
             \/ EndFind(p) \/ EndDecide(p) \/ EndAppend(p)
             \/ WrapRead(p) \/ WrapSettle(p)
      PROVE  pc[q] = "recorded" /\ claim'[q] = claim[q] /\ session'[q] = session[q]
    BY <1>0, <1>4 DEF StartCheck, StartRefused, StartAppend, EndFind, EndDecide, EndAppend,
                      WrapRead, WrapSettle, TypeOK
<1>5. ASSUME NEW p \in Proc,
             \/ WrapWithoutClaim(p) \/ SettleClaim(p)
             \/ ChecksBegin(p) \/ ChecksEndRefused(p) \/ Crash(p)
      PROVE  pc[q] = "recorded" /\ claim'[q] = claim[q] /\ session'[q] = session[q]
    BY <1>0, <1>5 DEF WrapWithoutClaim, SettleClaim, ChecksBegin, ChecksEndRefused, Crash, TypeOK
<1>6. CASE UNCHANGED vars
    BY <1>1, <1>6 DEF vars
<1> QED
    BY <1>1, <1>2, <1>3, <1>4, <1>5, <1>6 DEF Next

\* All records of a claim carry one session, and it is a session in the log.
THEOREM TagsAreSessions == Spec => []OneSessionPerClaim
<1>1. Init => TagInv
  <2> SUFFICES ASSUME Init PROVE TagInv
    OBVIOUS
  <2>1. Recorded = 1 .. 0
    BY DEF Init, Recorded
  <2> QED
    BY <2>1, BaseInit DEF Init, TagInv, OneSessionPerClaim
<1>2. TagInv /\ [Next]_vars => TagInv'
  <2> SUFFICES ASSUME TagInv, [Next]_vars PROVE TagInv'
    OBVIOUS
  <2>1. Base'
    BY BaseStep DEF TagInv
  <2>2. \A q \in Proc : pc'[q] = "recorded" =>
            \A r \in records' : r.claim = claim'[q] => r.session = session'[q]
    BY TagsOfWraps
  <2> QED
    BY <2>1, <2>2, TagsOfRecords DEF TagInv
<1>3. TagInv => OneSessionPerClaim
    BY DEF TagInv
<1> QED
    BY <1>1, <1>2, <1>3, PTL DEF Spec

-----------------------------------------------------------------------------
(* The log is read as it was written *)

\* Sessions are numbered without a gap, every event is of a session that was started,
\* and a start comes with a larger id than any event before it.
LogInv ==
    /\ Base
    /\ \E k \in Nat : Started = 1 .. k
    /\ Sids = Started
    /\ \A m, n \in 1 .. Len(events) :
          m < n /\ events[n].kind = "start" => events[m].sid < events[n].sid

\* Every step keeps the order of the starts.
LEMMA LogStep == LogInv /\ [Next]_vars => LogInv'
<1> SUFFICES ASSUME LogInv, [Next]_vars PROVE LogInv'
    OBVIOUS
<1>0. /\ Base /\ TypeOK /\ Base' /\ events \in Seq(EventRecord) /\ Len(events) \in Nat
      /\ \A n \in 1 .. Len(events) : events[n] \in EventRecord
    BY BaseStep, LogTypes DEF LogInv, Base, TypeOK, EventRecord
<1>1. CASE events' = events
  <2>1. Started' = Started /\ Sids' = Sids
    BY <1>1 DEF Started, Sids
  <2> QED
    BY <1>0, <1>1, <2>1 DEF LogInv
<1>2. ASSUME NEW e \in EventRecord, events' = Append(events, e),
             e.kind = "start" => \A n \in 1 .. Len(events) : events[n].sid < e.sid
      PROVE  \A m, n \in 1 .. Len(events') :
                m < n /\ events'[n].kind = "start" => events'[m].sid < events'[n].sid
  <2>1. /\ Len(events') = Len(events) + 1
        /\ \A n \in 1 .. Len(events) : events'[n] = events[n]
        /\ events'[Len(events) + 1] = e
    BY <1>0, <1>2, AppendProperties
  <2> SUFFICES ASSUME NEW m \in 1 .. Len(events'), NEW n \in 1 .. Len(events'),
                      m < n, events'[n].kind = "start"
               PROVE  events'[m].sid < events'[n].sid
    OBVIOUS
  <2>2. m \in 1 .. Len(events)
    BY <1>0, <2>1
  <2>3. CASE n \in 1 .. Len(events)
    BY <2>1, <2>2, <2>3 DEF LogInv
  <2>4. CASE n = Len(events) + 1
    BY <1>2, <2>1, <2>2, <2>4
  <2> QED
    BY <1>0, <2>1, <2>3, <2>4
<1>3. ASSUME NEW p \in Proc, StartEvent(Cardinality(Started) + 1) \in EventRecord,
             events' = Append(events, StartEvent(Cardinality(Started) + 1))
      PROVE  LogInv'
  <2>1. PICK k \in Nat : Started = 1 .. k
    BY DEF LogInv
  <2>2. Cardinality(Started) = k
    BY <2>1, FS_Interval
  <2> DEFINE e == StartEvent(k + 1)
  <2>3. e \in EventRecord /\ events' = Append(events, e) /\ e.kind = "start" /\ e.sid = k + 1
    BY <1>3, <2>2 DEF StartEvent
  <2> HIDE DEF e
  <2>4. Started' = Started \cup {k + 1} /\ Sids' = Sids \cup {k + 1}
    BY <1>0, <2>3, SessionsOfAppend
  <2>5. Started' = 1 .. (k + 1) /\ Sids' = Started' /\ k + 1 \in Nat
    BY <2>1, <2>4 DEF LogInv
  <2>6. \A n \in 1 .. Len(events) : events[n].sid \in 1 .. k
    BY <2>1 DEF LogInv, Sids
  <2>7. \A n \in 1 .. Len(events) : events[n].sid < e.sid
    BY <2>3, <2>6
  <2>8. (\E j \in Nat : Started = 1 .. j)'
    BY <2>5
  <2> QED
    BY <1>0, <1>2, <2>3, <2>5, <2>7, <2>8 DEF LogInv
<1>4. ASSUME NEW p \in Proc, session[p] \in Started,
             EndEvent(session[p], final[p]) \in EventRecord,
             events' = Append(events, EndEvent(session[p], final[p]))
      PROVE  LogInv'
  <2> DEFINE e == EndEvent(session[p], final[p])
  <2>1. e \in EventRecord /\ events' = Append(events, e) /\ e.kind = "end" /\ e.sid \in Started
    BY <1>4 DEF EndEvent
  <2> HIDE DEF e
  <2>2. Started' = Started /\ Sids' = Sids \cup {e.sid}
    BY <1>0, <2>1, SessionsOfAppend
  <2>3. Sids' = Started'
    BY <2>1, <2>2 DEF LogInv
  <2>4. (\E j \in Nat : Started = 1 .. j)'
    BY <2>2 DEF LogInv
  <2> QED
    BY <1>0, <1>2, <2>1, <2>3, <2>4 DEF LogInv
<1> QED
    BY <1>0, <1>1, <1>3, <1>4, EventsStep

\* An event of a session with an end is its start only if an end follows.
LEMMA EndsFollowTheStart ==
    ASSUME LogInv, NEW n \in 1 .. Len(events), events[n].kind = "start"
    PROVE  \/ /\ events[n].sid \in Open
              /\ \A m \in n + 1 .. Len(events) : events[m].sid # events[n].sid
           \/ /\ events[n].sid \in Ended
              /\ \E m \in n + 1 .. Len(events) :
                    events[m].sid = events[n].sid /\ events[m].kind = "end"
<1>0. /\ Len(events) \in Nat
      /\ \A m \in 1 .. Len(events) : events[m] \in EventRecord
    BY LogTypes DEF LogInv, Base
<1>1. \A m \in 1 .. Len(events) : events[m].kind \in {"start", "end"} /\ events[m].sid \in Int
    BY <1>0 DEF EventRecord, Sid
<1>2. events[n].sid \in Started
    BY DEF Started
<1>3. ASSUME NEW m \in 1 .. Len(events), events[m].sid = events[n].sid, m # n
      PROVE  m > n /\ events[m].kind = "end"
  <2>1. ~(m < n)
    BY <1>1, <1>3 DEF LogInv
  <2>2. m > n
    BY <1>3, <2>1
  <2>3. events[m].kind # "start"
    BY <1>1, <1>3, <2>2 DEF LogInv
  <2> QED
    BY <1>1, <2>2, <2>3
<1>4. CASE events[n].sid \in Ended
  <2>1. PICK m \in 1 .. Len(events) : events[m].kind = "end" /\ events[m].sid = events[n].sid
    BY <1>4 DEF Ended
  <2>2. m # n
    BY <2>1
  <2>3. m \in n + 1 .. Len(events)
    BY <1>0, <1>3, <2>1, <2>2
  <2> QED
    BY <1>4, <2>1, <2>3
<1>5. CASE events[n].sid \notin Ended
  <2>1. ASSUME NEW m \in n + 1 .. Len(events), events[m].sid = events[n].sid
        PROVE  FALSE
    <3>1. m \in 1 .. Len(events) /\ m # n
      BY <1>0
    <3>2. events[m].kind = "end"
      BY <1>3, <2>1, <3>1
    <3>3. events[m].sid \in Ended
      BY <3>1, <3>2 DEF Ended
    <3> QED
      BY <1>5, <2>1, <3>3
  <2> QED
    BY <1>2, <1>5, <2>1 DEF Open
<1> QED
    BY <1>4, <1>5

\* The current session is the largest of those started and not ended.
LEMMA CurrentIsMaxOpen ==
    ASSUME LogInv
    PROVE  IF Open = {} THEN CurrentSession = NoSession
           ELSE CurrentSession = Max(Open) /\ CurrentSession \in Open
<1> DEFINE unclosed == {n \in 1 .. Len(events) :
                          /\ events[n].kind # "end"
                          /\ \A m \in n + 1 .. Len(events) : events[m].sid # events[n].sid}
           top == Max(unclosed)
<1>0. /\ Len(events) \in Nat /\ Open \subseteq Sid
      /\ \A m \in 1 .. Len(events) : events[m] \in EventRecord
    BY LogTypes DEF LogInv, Base, Open
<1>1. CurrentSession = IF unclosed = {} THEN NoSession ELSE events[top].sid
    BY DEF CurrentSession
<1>2. \A n \in 1 .. Len(events) : events[n].kind # "end" => events[n].kind = "start"
    BY <1>0 DEF EventRecord
<1>3. \A n \in unclosed : events[n].kind = "start" /\ events[n].sid \in Open
    BY <1>2, EndsFollowTheStart
<1>4. ASSUME NEW s \in Open PROVE \E n \in unclosed : events[n].sid = s
  <2>1. PICK n \in 1 .. Len(events) : events[n].kind = "start" /\ events[n].sid = s
    BY DEF Open, Started
  <2>2. n \in unclosed
    BY <2>1, EndsFollowTheStart DEF Open
  <2> QED
    BY <2>1, <2>2
<1>7. \A s \in Open : s \in Int
    BY <1>0, SessionAssumption DEF Sid
<1>5. CASE unclosed = {}
    BY <1>1, <1>4, <1>5
<1>6. CASE unclosed # {}
  <2>1. top \in unclosed /\ \A n \in unclosed : n <= top
    BY <1>0, <1>6, MaxOfBounded
  <2>2. events[top].sid \in Open
    BY <1>3, <2>1
  <2>3. \A n \in unclosed : n \in 1 .. Len(events)
    OBVIOUS
  <2> HIDE DEF unclosed, top
  <2>4. ASSUME NEW s \in Open PROVE s <= events[top].sid
    <3>1. PICK n \in unclosed : events[n].sid = s
      BY <1>4
    <3>2. n <= top /\ n \in 1 .. Len(events) /\ top \in 1 .. Len(events)
      BY <2>1, <2>3, <3>1
    <3>3. s \in Int /\ events[top].sid \in Int
      BY <1>7, <2>2
    <3>4. CASE n = top
      BY <3>1, <3>3, <3>4
    <3>5. CASE n < top
      <4>1. events[top].kind = "start"
        BY <1>3, <2>1
      <4> QED
        BY <3>1, <3>2, <3>3, <3>5, <4>1 DEF LogInv
    <3> QED
      BY <3>2, <3>4, <3>5
  <2>5. Max(Open) \in Open /\ \A s \in Open : s <= Max(Open)
    <3>1. Open \in SUBSET (1 .. MaxSessions) /\ Open # {} /\ MaxSessions \in Nat
      BY <1>0, <2>2, SessionAssumption DEF Sid
    <3> QED
      BY <3>1, MaxOfBounded
  <2>6. events[top].sid <= Max(Open) /\ Max(Open) <= events[top].sid
    BY <2>2, <2>4, <2>5
  <2>7. events[top].sid = Max(Open)
    BY <1>7, <2>2, <2>5, <2>6
  <2> QED
    BY <1>1, <1>6, <2>2, <2>7
<1> QED
    BY <1>5, <1>6

\* The sessions listed as closed are those with an end.
LEMMA ListedIsEnded ==
    ASSUME LogInv
    PROVE  ListSessions = Ended
<1>0. /\ Len(events) \in Nat /\ Sids = Started
      /\ \A m \in 1 .. Len(events) : events[m] \in EventRecord
    BY LogTypes DEF LogInv, Base
<1>1. Ended \subseteq Sids
    BY DEF Ended, Sids
<1>2. ASSUME NEW s \in Sids PROVE LastEvent(s).kind = "end" <=> s \in Ended
  <2> DEFINE S == {n \in 1 .. Len(events) : events[n].sid = s}
             top == Max(S)
  <2>1. S # {} /\ S \in SUBSET (1 .. Len(events))
    BY DEF Sids
  <2>2. top \in S /\ \A n \in S : n <= top
    BY <1>0, <2>1, MaxOfBounded
  <2>3. LastEvent(s) = events[top]
    BY DEF LastEvent
  <2>4. top \in 1 .. Len(events) /\ events[top].sid = s
    BY <2>2
  <2>5. \A n \in 1 .. Len(events) : events[n].sid = s => n <= top
    BY <2>2
  <2> HIDE DEF S, top
  <2>6. CASE events[top].kind = "end"
    BY <2>3, <2>4, <2>6 DEF Ended
  <2>7. CASE events[top].kind = "start"
    <3>1. \A m \in top + 1 .. Len(events) : events[m].sid # s
      BY <1>0, <2>4, <2>5
    <3>2. s \in Open
      BY <2>4, <2>7, <3>1, EndsFollowTheStart
    <3> QED
      BY <2>3, <2>7, <3>2 DEF Open
  <2> QED
    BY <1>0, <2>4, <2>6, <2>7 DEF EventRecord
<1> QED
    BY <1>1, <1>2 DEF ListSessions

\* However starts and ends of several processes interleave, the current session is the
\* latest without an end, and every session is open or listed as closed, never both.
THEOREM CurrentStands == Spec => []CurrentIsLatestUnended
<1>1. Init => LogInv
  <2> SUFFICES ASSUME Init PROVE LogInv
    OBVIOUS
  <2>1. Started = 1 .. 0 /\ Sids = {} /\ Len(events) = 0
    BY EmptySeq DEF Init, Started, Sids
  <2> QED
    BY <2>1, BaseInit DEF LogInv
<1>2. LogInv => CurrentIsLatestUnended
  <2> SUFFICES ASSUME LogInv PROVE CurrentIsLatestUnended
    OBVIOUS
  <2>1. Ended \subseteq Started
    BY DEF LogInv, Ended, Sids
  <2> QED
    BY <2>1, CurrentIsMaxOpen, ListedIsEnded DEF CurrentIsLatestUnended, Open
<1> QED
    BY <1>1, <1>2, LogStep, PTL DEF Spec

-----------------------------------------------------------------------------
(* How many sessions are open *)

BoundInv == LogInv /\ OpenSessionsBounded

\* What any step does to the open sessions and to the starts under way: a start passes
\* its check only when no session is open, and opens one when it is over.
LEMMA OpenStep ==
    ASSUME LogInv, [Next]_vars
    PROVE  \/ Open' \subseteq Open /\ Starting' \subseteq Starting
           \/ Open' = {}
           \/ \E p \in Starting, s \in Sid :
                 Open' \subseteq Open \cup {s} /\ Starting' \subseteq Starting \ {p}
<1>0. Base /\ TypeOK
    BY DEF LogInv, Base
<1>1. ASSUME NEW p \in Proc, StartAppend(p)
      PROVE  \E s \in Sid : Open' \subseteq Open \cup {s} /\ Starting' \subseteq Starting \ {p}
  <2> DEFINE s == Cardinality(Started) + 1
  <2>1. s \in Sid
    BY <1>0, <1>1, LogTypes, SessionAssumption DEF StartAppend, Sid
  <2>2. StartEvent(s) \in EventRecord /\ events' = Append(events, StartEvent(s))
    BY <1>0, <1>1, NewEvents DEF StartAppend
  <2>3. StartEvent(s).kind = "start" /\ StartEvent(s).sid = s
    BY DEF StartEvent
  <2> HIDE DEF s
  <2>4. Started' = Started \cup {s} /\ Ended' = Ended
    BY <1>0, <2>2, <2>3, SessionsOfAppend
  <2>5. Starting' \subseteq Starting \ {p}
    BY <1>0, <1>1 DEF StartAppend, Starting, TypeOK
  <2> QED
    BY <2>1, <2>4, <2>5 DEF Open
<1>2. ASSUME NEW p \in Proc, StartAppend(p) PROVE p \in Starting
    BY <1>2 DEF StartAppend, Starting
<1>3. ASSUME NEW p \in Proc, EndAppend(p)
      PROVE  Open' \subseteq Open /\ Starting' \subseteq Starting
  <2>1. session[p] \in Started
    BY <1>0, <1>3 DEF EndAppend, Base, PhaseInv
  <2> DEFINE e == EndEvent(session[p], final[p])
  <2>2. e \in EventRecord /\ events' = Append(events, e)
    BY <1>0, <1>3, <2>1, NewEvents DEF EndAppend
  <2>3. e.kind = "end"
    BY DEF EndEvent
  <2> HIDE DEF e
  <2>4. Started' = Started /\ Ended' = Ended \cup {e.sid}
    BY <1>0, <2>2, <2>3, SessionsOfAppend
  <2>5. Starting' \subseteq Starting
    BY <1>0, <1>3 DEF EndAppend, Starting, TypeOK
  <2> QED
    BY <2>4, <2>5 DEF Open
<1>4. ASSUME NEW p \in Proc, StartCheck(p) PROVE Open' = {}
  <2>1. CurrentSession = NoSession /\ events' = events
    BY <1>4 DEF StartCheck
  <2>2. Open \subseteq Sid
    BY <1>0, LogTypes DEF Open
  <2>5. \A s \in Sid : s \in Nat
    BY SessionAssumption DEF Sid
  <2>3. NoSession \notin Open
    BY <2>2, <2>5, SessionAssumption
  <2>4. Open = {}
    BY <2>1, <2>3, CurrentIsMaxOpen
  <2> QED
    BY <2>1, <2>4 DEF Open, Started, Ended
<1>5. ASSUME events' = events, Starting' \subseteq Starting
      PROVE  Open' \subseteq Open /\ Starting' \subseteq Starting
    BY <1>5 DEF Open, Started, Ended
<1>6. ASSUME NEW p \in Proc,
             \/ StartRefused(p) \/ EndFind(p) \/ EndDecide(p) \/ WrapRead(p) \/ WrapRecord(p)
             \/ WrapSettle(p) \/ WrapWithoutClaim(p)
      PROVE  events' = events /\ Starting' \subseteq Starting
    BY <1>0, <1>6 DEF StartRefused, EndFind, EndDecide, WrapRead, WrapRecord, WrapSettle,
                      WrapWithoutClaim, Starting, TypeOK
<1>7. ASSUME NEW p \in Proc,
             SettleClaim(p) \/ ChecksBegin(p) \/ ChecksEndRefused(p) \/ Crash(p)
      PROVE  events' = events /\ Starting' \subseteq Starting
  <2>1. CASE Crash(p)
    BY <1>0, <2>1 DEF Crash, Starting, TypeOK
  <2>2. CASE SettleClaim(p) \/ ChecksBegin(p) \/ ChecksEndRefused(p)
    BY <2>2 DEF SettleClaim, ChecksBegin, ChecksEndRefused, Starting
  <2> QED
    BY <1>7, <2>1, <2>2
<1>8. CASE UNCHANGED vars
    BY <1>5, <1>8 DEF vars, Starting
<1> QED
    BY <1>1, <1>2, <1>3, <1>4, <1>5, <1>6, <1>7, <1>8 DEF Next

\* start_session checks and writes in two steps; yet open sessions and starts under way
\* are together no more than the processes.
THEOREM OpenIsBounded == Spec => []OpenSessionsBounded
<1>1. Init => BoundInv
  <2> SUFFICES ASSUME Init PROVE BoundInv
    OBVIOUS
  <2>1. Started = 1 .. 0 /\ Sids = {} /\ Len(events) = 0
    BY EmptySeq DEF Init, Started, Sids
  <2>2. Open = {} /\ Starting = {}
    BY <2>1 DEF Init, Open, Starting
  <2>3. Cardinality(Proc) \in Nat
    BY SessionAssumption, FS_CardinalityType
  <2>4. OpenSessionsBounded
    BY <2>2, <2>3, FS_EmptySet DEF OpenSessionsBounded
  <2> QED
    BY <2>1, <2>4, BaseInit DEF BoundInv, LogInv
<1>2. BoundInv /\ [Next]_vars => BoundInv'
  <2> SUFFICES ASSUME BoundInv, [Next]_vars PROVE BoundInv'
    OBVIOUS
  <2>1. LogInv /\ LogInv' /\ TypeOK
    BY LogStep DEF BoundInv, LogInv, Base
  <2>2. /\ IsFiniteSet(Open) /\ IsFiniteSet(Open') /\ IsFiniteSet(Sid)
        /\ IsFiniteSet(Starting) /\ IsFiniteSet(Starting')
    <3>1. IsFiniteSet(Sid)
      BY FS_Interval, SessionAssumption DEF Sid
    <3>2. Open \subseteq Sid
      BY <2>1, LogTypes DEF Open
    <3>3. Open' \subseteq Open \/ Open' = {}
              \/ \E s \in Sid : Open' \subseteq Open \cup {s}
      BY <2>1, OpenStep
    <3>4. Open' \subseteq Sid
      BY <3>2, <3>3
    <3>5. Starting \subseteq Proc /\ Starting' \subseteq Proc
      BY DEF Starting
    <3> QED
      BY <3>1, <3>2, <3>4, <3>5, SessionAssumption, FS_Subset
  <2>3. /\ Cardinality(Open) \in Nat /\ Cardinality(Open') \in Nat
        /\ Cardinality(Starting) \in Nat /\ Cardinality(Starting') \in Nat
        /\ Cardinality(Proc) \in Nat
    BY <2>2, SessionAssumption, FS_CardinalityType
  <2>4. CASE Open' \subseteq Open /\ Starting' \subseteq Starting
    <3>1. /\ Cardinality(Open') <= Cardinality(Open)
          /\ Cardinality(Starting') <= Cardinality(Starting)
      BY <2>2, <2>4, FS_Subset
    <3> QED
      BY <2>1, <2>3, <3>1 DEF BoundInv, OpenSessionsBounded
  <2>5. CASE Open' = {}
    <3>1. Starting' \subseteq Proc
      BY DEF Starting
    <3>2. Cardinality(Starting') <= Cardinality(Proc) /\ Cardinality(Open') = 0
      BY <2>5, <3>1, SessionAssumption, FS_Subset, FS_EmptySet
    <3> QED
      BY <2>1, <2>3, <3>2 DEF BoundInv, OpenSessionsBounded
  <2>6. ASSUME NEW p \in Starting, NEW s \in Sid,
               Open' \subseteq Open \cup {s}, Starting' \subseteq Starting \ {p}
        PROVE  BoundInv'
    <3>1. /\ IsFiniteSet(Open \cup {s})
          /\ Cardinality(Open \cup {s}) <= Cardinality(Open) + 1
      <4>1. /\ IsFiniteSet(Open \cup {s})
            /\ Cardinality(Open \cup {s})
                 = IF s \in Open THEN Cardinality(Open) ELSE Cardinality(Open) + 1
        BY <2>2, FS_AddElement
      <4> QED
        BY <2>3, <4>1
    <3>2. Cardinality(Open \cup {s}) \in Nat
      BY <3>1, FS_CardinalityType
    <3>3. Cardinality(Open') <= Cardinality(Open \cup {s})
      BY <2>6, <3>1, FS_Subset
    <3>4. /\ IsFiniteSet(Starting \ {p})
          /\ Cardinality(Starting \ {p}) = Cardinality(Starting) - 1
      BY <2>2, FS_RemoveElement
    <3>5. Cardinality(Starting') <= Cardinality(Starting \ {p})
      BY <2>6, <3>4, FS_Subset
    <3> QED
      BY <2>1, <2>3, <3>1, <3>2, <3>3, <3>4, <3>5 DEF BoundInv, OpenSessionsBounded
  <2> QED
    BY <2>1, <2>4, <2>5, <2>6, OpenStep
<1>3. BoundInv => OpenSessionsBounded
    BY DEF BoundInv
<1> QED
    BY <1>1, <1>2, <1>3, PTL DEF Spec

-----------------------------------------------------------------------------
(* Final statuses stand *)

\* _reconcile_final_status of the claim records rs.
VerdictOf(rs, s) ==
    IF \E r \in rs : r.session = s /\ r.status = "CONTRADICTED" THEN "FAILED"
    ELSE IF \E r \in rs : r.session = s /\ r.status = "VALIDATED" THEN "PASSED"
    ELSE "UNKNOWN"

\* A verdict worked out from the claims is still theirs, or the session is one of those
\* given as late.
Stands(status, s, rs, lates) ==
    status \in Reconciled => status = VerdictOf(rs, s) \/ s \in lates

FinalInv ==
    /\ Base
    /\ \A n \in 1 .. Len(events) :
          /\ events[n].status \in Reconciled => events[n].kind = "end"
          /\ Stands(events[n].status, events[n].sid, records, late)
    /\ \A p \in Proc : pc[p] = "closing" => Stands(final[p], session[p], records, late)

\* The model's verdict is that of the records there are.
LEMMA VerdictNow == \A s : ReconcileFinalStatus(s) = VerdictOf(records, s)
<1> SUFFICES ASSUME NEW s PROVE ReconcileFinalStatus(s) = VerdictOf(records, s)
    OBVIOUS
<1>1. \A status : status \in StatusesOf(s)
          <=> \E r \in records : r.session = s /\ r.status = status
    BY DEF StatusesOf
<1> QED
    BY <1>1 DEF ReconcileFinalStatus, VerdictOf

\* A record that changes the verdict on a session that is ended or being ended makes
\* the session late.
LEMMA VerdictStep ==
    ASSUME Base, [Next]_vars, NEW s \in Decided, NEW status,
           Stands(status, s, records, late)
    PROVE  Stands(status, s, records', late')
<1>1. CASE records' = records /\ late' = late
    BY <1>1
<1>2. ASSUME NEW r, AddRecord(r), r.session = s
      PROVE  Stands(status, s, records', late')
    BY <1>2 DEF AddRecord, Stands
<1>3. ASSUME NEW r, AddRecord(r), r.session # s
      PROVE  Stands(status, s, records', late')
  <2>1. \A q : q \in records' /\ q.session = s <=> q \in records /\ q.session = s
    BY <1>3 DEF AddRecord
  <2>2. VerdictOf(records', s) = VerdictOf(records, s)
    BY <2>1 DEF VerdictOf
  <2>3. late \subseteq late'
    BY <1>3 DEF AddRecord
  <2> QED
    BY <2>2, <2>3 DEF Stands
<1> QED
    BY <1>1, <1>2, <1>3, RecordsStep

\* The commands that are about to write an end, after any step.
LEMMA FinalOfCommands ==
    ASSUME FinalInv, [Next]_vars, NEW q \in Proc, pc'[q] = "closing"
    PROVE  Stands(final'[q], session'[q], records', late')
<1>0. Base /\ TypeOK
    BY DEF FinalInv, Base
<1>1. CASE pc[q] = "closing" /\ final'[q] = final[q] /\ session'[q] = session[q]
  <2>1. session[q] \in Decided /\ Stands(final[q], session[q], records, late)
    BY <1>1 DEF Decided, FinalInv
  <2>2. Stands(final[q], session[q], records', late')
    BY <1>0, <2>1, VerdictStep
  <2> QED
    BY <1>1, <2>2
<1>2. ASSUME EndDecide(q)
      PROVE  Stands(final'[q], session'[q], records', late')
  <2>1. /\ final'[q] = "STATED" \/ final'[q] = ReconcileFinalStatus(session[q])
        /\ session'[q] = session[q] /\ records' = records
    BY <1>0, <1>2 DEF EndDecide, TypeOK
  <2>2. final'[q] = "STATED" \/ final'[q] = VerdictOf(records', session'[q])
    BY <2>1, VerdictNow
  <2> QED
    BY <2>2 DEF Stands, Reconciled
<1>3. ASSUME NEW p \in Proc, EndDecide(p), p # q
      PROVE  pc[q] = "closing" /\ final'[q] = final[q] /\ session'[q] = session[q]
    BY <1>0, <1>3 DEF EndDecide, TypeOK
<1>4. ASSUME NEW p \in Proc,
             \/ StartCheck(p) \/ StartRefused(p) \/ StartAppend(p)
             \/ EndFind(p) \/ EndAppend(p) \/ WrapRead(p) \/ WrapRecord(p)
      PROVE  pc[q] = "closing" /\ final'[q] = final[q] /\ session'[q] = session[q]
    BY <1>0, <1>4 DEF StartCheck, StartRefused, StartAppend, EndFind, EndAppend, WrapRead,
                      WrapRecord, TypeOK
<1>5. ASSUME NEW p \in Proc,
             \/ WrapSettle(p) \/ WrapWithoutClaim(p) \/ SettleClaim(p)
             \/ ChecksBegin(p) \/ ChecksEndRefused(p) \/ Crash(p)
      PROVE  pc[q] = "closing" /\ final'[q] = final[q] /\ session'[q] = session[q]
    BY <1>0, <1>5 DEF WrapSettle, WrapWithoutClaim, SettleClaim, ChecksBegin,
                      ChecksEndRefused, Crash, TypeOK
<1>6. CASE UNCHANGED vars
    BY <1>1, <1>6 DEF vars
<1> QED
    BY <1>1, <1>2, <1>3, <1>4, <1>5, <1>6 DEF Next

\* The events of the log after any step.
LEMMA FinalOfEvents ==
    ASSUME FinalInv, [Next]_vars, NEW n \in 1 .. Len(events')
    PROVE  /\ events'[n].status \in Reconciled => events'[n].kind = "end"
           /\ Stands(events'[n].status, events'[n].sid, records', late')
<1>0. /\ Base /\ TypeOK /\ events \in Seq(EventRecord) /\ Len(events) \in Nat
    BY LogTypes DEF FinalInv, Base, TypeOK, EventRecord
<1>1. ASSUME NEW m \in 1 .. Len(events), events[m].status \in Reconciled
      PROVE  /\ events[m].kind = "end"
             /\ Stands(events[m].status, events[m].sid, records', late')
  <2>1. events[m].kind = "end" /\ Stands(events[m].status, events[m].sid, records, late)
    BY <1>1 DEF FinalInv
  <2>2. events[m].sid \in Decided
    BY <2>1 DEF Decided, Ended
  <2> QED
    BY <1>0, <2>1, <2>2, VerdictStep
<1>2. CASE n \in 1 .. Len(events) /\ events'[n] = events[n]
  <2>1. CASE events[n].status \in Reconciled
    BY <1>1, <1>2, <2>1
  <2>2. CASE events[n].status \notin Reconciled
    BY <1>2, <2>2 DEF Stands
  <2> QED
    BY <2>1, <2>2
<1>3. ASSUME NEW e \in EventRecord, events' = Append(events, e)
      PROVE  \/ n \in 1 .. Len(events) /\ events'[n] = events[n]
             \/ events'[n] = e
    BY <1>0, <1>3, AppendProperties
<1>4. CASE events'[n] = StartEvent(Cardinality(Started) + 1)
  <2>1. events'[n].status = "OPEN"
    BY <1>4 DEF StartEvent
  <2> QED
    BY <2>1 DEF Reconciled, Stands
<1>5. ASSUME NEW p \in Proc, EndAppend(p), events'[n] = EndEvent(session[p], final[p])
      PROVE  /\ events'[n].kind = "end"
             /\ Stands(events'[n].status, events'[n].sid, records', late')
  <2>1. /\ events'[n].kind = "end" /\ events'[n].status = final[p]
        /\ events'[n].sid = session[p]
    BY <1>5 DEF EndEvent
  <2>2. Stands(final[p], session[p], records, late) /\ session[p] \in Decided
    BY <1>5 DEF EndAppend, FinalInv, Decided
  <2>3. Stands(final[p], session[p], records', late')
    BY <1>0, <2>2, VerdictStep
  <2> QED
    BY <2>1, <2>3
<1>6. CASE events' = events
    BY <1>2, <1>6
<1> QED
    BY <1>0, <1>2, <1>3, <1>4, <1>5, <1>6, EventsStep

\* A reconciled final status is what the claims of the session say to this day, unless
\* something was added to them after they were read.
THEOREM FinalStands == Spec => []FinalStatusStands
<1>1. Init => FinalInv
  <2> SUFFICES ASSUME Init PROVE FinalInv
    OBVIOUS
  <2>1. Len(events) = 0 /\ \A p \in Proc : pc[p] = "idle"
    BY EmptySeq DEF Init
  <2> QED
    BY <2>1, BaseInit DEF FinalInv
<1>2. FinalInv /\ [Next]_vars => FinalInv'
  <2> SUFFICES ASSUME FinalInv, [Next]_vars PROVE FinalInv'
    OBVIOUS
  <2>1. Base'
    BY BaseStep DEF FinalInv
  <2>2. \A q \in Proc : pc'[q] = "closing" => Stands(final'[q], session'[q], records', late')
    BY FinalOfCommands
  <2>3. \A n \in 1 .. Len(events') :
            /\ events'[n].status \in Reconciled => events'[n].kind = "end"
            /\ Stands(events'[n].status, events'[n].sid, records', late')
    BY FinalOfEvents
  <2> QED
    BY <2>1, <2>2, <2>3 DEF FinalInv
<1>3. FinalInv => FinalStatusStands
    BY VerdictNow DEF FinalInv, FinalStatusStands, Stands
<1> QED
    BY <1>1, <1>2, <1>3, PTL DEF Spec
=============================================================================
