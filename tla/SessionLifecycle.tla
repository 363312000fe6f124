-------------------------- MODULE SessionLifecycle --------------------------
(***************************************************************************)
(* Sessions (session_lifecycle.py, the session events of storage.py) and   *)
(* the two commands of cli.py that work inside one: wrap and checks run.   *)
(*                                                                         *)
(* sessions.jsonl is appended to without a lock, and which session is open *)
(* is worked out from it each time.  Every command is a read of the files  *)
(* followed by a write, and any number of processes issue commands.        *)
(*                                                                         *)
(* Of claims.jsonl nothing here looks at the order, so it is the set of    *)
(* (claim, session tag, status) its records have.  A status the caller of  *)
(* end_session states is Stated, whichever it is: nothing is made of it.   *)
(***************************************************************************)
EXTENDS Naturals, Sequences, FiniteSets, FiniteSetsExt

CONSTANTS
    Proc,          \* the processes that issue commands
    NoSession,     \* current_session() is None; a claim without session_id
    MaxSessions,   \* bound: sessions started
    MaxClaims      \* bound: claims recorded by wraps

ASSUME SessionAssumption ==
    /\ IsFiniteSet(Proc)
    /\ NoSession \notin Nat
    /\ MaxSessions \in Nat
    /\ MaxClaims \in Nat

VARIABLES
    events,    \* sessions.jsonl
    records,   \* claims.jsonl
    pc,        \* how far each process is in its command
    session,   \* the session its command works with
    claim,     \* the claim its wrap has recorded
    final,     \* the status its end_session has settled on
    checks,    \* how far each process is in a checks run
    own,       \* the session its checks run has started
    late,      \* history: sessions with a record their end_session cannot have read
    foreign    \* history: sessions ended by a checks run that had not started them

vars == <<events, records, pc, session, claim, final, checks, own, late, foreign>>

Sid      == 1 .. MaxSessions
ClaimNo  == 1 .. MaxClaims
Reconciled == {"UNKNOWN", "PASSED", "FAILED"}
Status   == {"PROPOSED", "VALIDATED", "CONTRADICTED"}

StartEvent(s)     == [kind |-> "start", sid |-> s, status |-> "OPEN"]
EndEvent(s, st)   == [kind |-> "end", sid |-> s, status |-> st]

TypeOK ==
    /\ events \in Seq([kind : {"start", "end"}, sid : Sid,
                       status : Reconciled \cup {"OPEN", "STATED"}])
    /\ records \subseteq [claim : ClaimNo, session : Sid \cup {NoSession}, status : Status]
    /\ pc \in [Proc -> {"idle", "starting", "ending", "closing", "tagged", "recorded"}]
    /\ session \in [Proc -> Sid \cup {NoSession}]
    /\ claim \in [Proc -> ClaimNo \cup {0}]
    /\ final \in [Proc -> Reconciled \cup {"OPEN", "STATED"}]
    /\ checks \in [Proc -> {"none", "begun", "opened", "ran", "stopped"}]
    /\ own \in [Proc -> Sid \cup {NoSession}]
    /\ late \subseteq Sid
    /\ foreign \subseteq Sid

-----------------------------------------------------------------------------
(* What the event log and the claims say *)

Sids == {events[n].sid : n \in 1 .. Len(events)}

LastEvent(s) == events[Max({n \in 1 .. Len(events) : events[n].sid = s})]

Started == {events[n].sid : n \in {m \in 1 .. Len(events) : events[m].kind = "start"}}
Ended   == {events[n].sid : n \in {m \in 1 .. Len(events) : events[m].kind = "end"}}
Open    == Started \ Ended

\* Mutant of CurrentSession: only the last event is looked at.
CurrentByLastEvent ==
    IF events = <<>> \/ events[Len(events)].kind = "end" THEN NoSession
    ELSE events[Len(events)].sid

\* MemoryStore.current_session: from the end of the log back, the first session
\* whose own last event is not an end.
CurrentSession ==
    LET unclosed == {n \in 1 .. Len(events) :
                        /\ events[n].kind # "end"
                        /\ \A m \in n + 1 .. Len(events) : events[m].sid # events[n].sid}
    IN  IF unclosed = {} THEN NoSession ELSE events[Max(unclosed)].sid

\* MemoryStore.list_sessions: the sessions whose last event is an end.
ListSessions == {s \in Sids : LastEvent(s).kind = "end"}

StatusesOf(s) == {r.status : r \in {q \in records : q.session = s}}

\* Mutant of ReconcileFinalStatus: a claim that passed outweighs those that
\* failed.
ReconcileOptimistically(s) ==
    IF "VALIDATED" \in StatusesOf(s) THEN "PASSED"
    ELSE IF "CONTRADICTED" \in StatusesOf(s) THEN "FAILED"
    ELSE "UNKNOWN"

\* _reconcile_final_status.  A claim has a record for each time it was settled,
\* and all of them count.  MIXED is never the result.
ReconcileFinalStatus(s) ==
    IF "CONTRADICTED" \in StatusesOf(s) THEN "FAILED"
    ELSE IF "VALIDATED" \in StatusesOf(s) THEN "PASSED"
    ELSE "UNKNOWN"

Recorded == {r.claim : r \in records}

\* The sessions whose end is written, or has been worked out from the claims.
Decided == Ended \cup {session[p] : p \in {q \in Proc : pc[q] = "closing"}}

AddRecord(r) ==
    /\ records' = records \cup {r}
    /\ late' = late \cup (Decided \cap {r.session})

-----------------------------------------------------------------------------
Init ==
    /\ events = <<>>
    /\ records = {}
    /\ pc = [p \in Proc |-> "idle"]
    /\ session = [p \in Proc |-> NoSession]
    /\ claim = [p \in Proc |-> 0]
    /\ final = [p \in Proc |-> "OPEN"]
    /\ checks = [p \in Proc |-> "none"]
    /\ own = [p \in Proc |-> NoSession]
    /\ late = {}
    /\ foreign = {}

\* Mutant of StartCheck: an open session is no obstacle.
StartUnchecked(p) ==
    /\ pc[p] = "idle"
    /\ checks[p] \in {"none", "begun"}
    /\ pc' = [pc EXCEPT ![p] = "starting"]
    /\ UNCHANGED <<events, records, session, claim, final, checks, own, late, foreign>>

\* start_session finds no session open; the id is drawn and the event written
\* after git has been asked for the state of the repository.
StartCheck(p) ==
    /\ pc[p] = "idle"
    /\ checks[p] \in {"none", "begun"}
    /\ CurrentSession = NoSession
    /\ pc' = [pc EXCEPT ![p] = "starting"]
    /\ UNCHANGED <<events, records, session, claim, final, checks, own, late, foreign>>

\* start_session finds one open and raises.  On its own that leaves nothing
\* behind; checks run does not look at what the command returned and goes on.
StartRefused(p) ==
    /\ pc[p] = "idle"
    /\ checks[p] = "begun"
    /\ CurrentSession # NoSession
    /\ checks' = [checks EXCEPT ![p] = "opened"]
    /\ UNCHANGED <<events, records, pc, session, claim, final, own, late, foreign>>

StartAppend(p) ==
    LET s == Cardinality(Started) + 1
    IN  /\ pc[p] = "starting"
        /\ s <= MaxSessions
        /\ events' = Append(events, StartEvent(s))
        /\ pc' = [pc EXCEPT ![p] = "idle"]
        /\ IF checks[p] = "begun"
           THEN /\ checks' = [checks EXCEPT ![p] = "opened"]
                /\ own' = [own EXCEPT ![p] = s]
           ELSE UNCHANGED <<checks, own>>
        /\ UNCHANGED <<records, session, claim, final, late, foreign>>

\* end_session finds the open session.
EndFind(p) ==
    /\ pc[p] = "idle"
    /\ checks[p] \in {"none", "ran", "stopped"}
    /\ CurrentSession # NoSession
    /\ session' = [session EXCEPT ![p] = CurrentSession]
    /\ pc' = [pc EXCEPT ![p] = "ending"]
    /\ UNCHANGED <<events, records, claim, final, checks, own, late, foreign>>

\* Mutant of EndDecide: the claims of whichever session is open by now.
EndDecideOnCurrent(p) ==
    /\ pc[p] = "ending"
    /\ \/ final' = [final EXCEPT ![p] = "STATED"]
       \/ /\ checks[p] = "none"
          /\ final' = [final EXCEPT ![p] = ReconcileFinalStatus(CurrentSession)]
    /\ pc' = [pc EXCEPT ![p] = "closing"]
    /\ UNCHANGED <<events, records, session, claim, checks, own, late, foreign>>

\* Git has been asked meanwhile.  The caller states the status, as checks run
\* always does, or it is reconciled from the claims read now.
EndDecide(p) ==
    /\ pc[p] = "ending"
    /\ \/ final' = [final EXCEPT ![p] = "STATED"]
       \/ /\ checks[p] = "none"
          /\ final' = [final EXCEPT ![p] = ReconcileFinalStatus(session[p])]
    /\ pc' = [pc EXCEPT ![p] = "closing"]
    /\ UNCHANGED <<events, records, session, claim, checks, own, late, foreign>>

\* The end event is written, whatever has happened to the session since it was
\* found.  A checks run is over with it.
EndAppend(p) ==
    /\ pc[p] = "closing"
    /\ events' = Append(events, EndEvent(session[p], final[p]))
    /\ foreign' = IF checks[p] # "none" /\ own[p] # session[p]
                  THEN foreign \cup {session[p]} ELSE foreign
    /\ pc' = [pc EXCEPT ![p] = "idle"]
    /\ session' = [session EXCEPT ![p] = NoSession]
    /\ final' = [final EXCEPT ![p] = "OPEN"]
    /\ checks' = [checks EXCEPT ![p] = "none"]
    /\ own' = [own EXCEPT ![p] = NoSession]
    /\ UNCHANGED <<records, claim, late>>

\* wrap reads which session is open, then records its claim with that tag, then
\* runs the command, then settles the claim.  Without a session it only warns.
WrapRead(p) ==
    /\ pc[p] = "idle"
    /\ checks[p] \in {"none", "opened", "ran"}
    /\ session' = [session EXCEPT ![p] = CurrentSession]
    /\ pc' = [pc EXCEPT ![p] = "tagged"]
    /\ UNCHANGED <<events, records, claim, final, checks, own, late, foreign>>

WrapRecord(p) ==
    LET n == Cardinality(Recorded) + 1
    IN  /\ pc[p] = "tagged"
        /\ n <= MaxClaims
        /\ AddRecord([claim |-> n, session |-> session[p], status |-> "PROPOSED"])
        /\ claim' = [claim EXCEPT ![p] = n]
        /\ pc' = [pc EXCEPT ![p] = "recorded"]
        /\ UNCHANGED <<events, session, final, checks, own, foreign>>

\* Mutant of WrapSettle: the claim is tagged anew with the session open by now.
WrapSettleRetagged(p) ==
    /\ pc[p] = "recorded"
    /\ \E status \in {"VALIDATED", "CONTRADICTED"} :
          /\ AddRecord([claim |-> claim[p], session |-> CurrentSession, status |-> status])
          /\ checks' = [checks EXCEPT ![p] =
                IF @ = "none" THEN @ ELSE IF status = "VALIDATED" THEN "ran" ELSE "stopped"]
    /\ pc' = [pc EXCEPT ![p] = "idle"]
    /\ session' = [session EXCEPT ![p] = NoSession]
    /\ claim' = [claim EXCEPT ![p] = 0]
    /\ UNCHANGED <<events, final, own, foreign>>

WrapSettle(p) ==
    /\ pc[p] = "recorded"
    /\ \E status \in {"VALIDATED", "CONTRADICTED"} :
          /\ AddRecord([claim |-> claim[p], session |-> session[p], status |-> status])
          /\ checks' = [checks EXCEPT ![p] =
                IF @ = "none" THEN @ ELSE IF status = "VALIDATED" THEN "ran" ELSE "stopped"]
    /\ pc' = [pc EXCEPT ![p] = "idle"]
    /\ session' = [session EXCEPT ![p] = NoSession]
    /\ claim' = [claim EXCEPT ![p] = 0]
    /\ UNCHANGED <<events, final, own, foreign>>

\* No claim is recorded: an option is invalid and the command is not run, or
\* CHIMERA_DQ_NO_WRITE is set and it is run for nothing.
WrapWithoutClaim(p) ==
    /\ pc[p] = "tagged"
    /\ IF checks[p] = "none" THEN UNCHANGED checks
       ELSE \E outcome \in {"ran", "stopped"} : checks' = [checks EXCEPT ![p] = outcome]
    /\ pc' = [pc EXCEPT ![p] = "idle"]
    /\ session' = [session EXCEPT ![p] = NoSession]
    /\ UNCHANGED <<events, records, claim, final, own, late, foreign>>

\* settle_claim on its own: any claim, at any time, whatever its status.
SettleClaim(p) ==
    /\ pc[p] = "idle"
    /\ checks[p] = "none"
    /\ \E r \in records, status \in {"VALIDATED", "CONTRADICTED"} :
          AddRecord([r EXCEPT !.status = status])
    /\ UNCHANGED <<events, pc, session, claim, final, checks, own, foreign>>

\* checks run: session start, one wrap for each check until one fails, session
\* end.
ChecksBegin(p) ==
    /\ pc[p] = "idle"
    /\ checks[p] = "none"
    /\ checks' = [checks EXCEPT ![p] = "begun"]
    /\ UNCHANGED <<events, records, pc, session, claim, final, own, late, foreign>>

\* session end with no session open: the error is printed, checks run is over.
ChecksEndRefused(p) ==
    /\ pc[p] = "idle"
    /\ checks[p] \in {"ran", "stopped"}
    /\ CurrentSession = NoSession
    /\ checks' = [checks EXCEPT ![p] = "none"]
    /\ own' = [own EXCEPT ![p] = NoSession]
    /\ UNCHANGED <<events, records, pc, session, claim, final, late, foreign>>

\* The process dies in the middle of a command; what it has written stays.
Crash(p) ==
    /\ pc[p] # "idle" \/ checks[p] # "none"
    /\ pc' = [pc EXCEPT ![p] = "idle"]
    /\ session' = [session EXCEPT ![p] = NoSession]
    /\ claim' = [claim EXCEPT ![p] = 0]
    /\ final' = [final EXCEPT ![p] = "OPEN"]
    /\ checks' = [checks EXCEPT ![p] = "none"]
    /\ own' = [own EXCEPT ![p] = NoSession]
    /\ UNCHANGED <<events, records, late, foreign>>

Next ==
    \E p \in Proc :
        \/ StartCheck(p) \/ StartRefused(p) \/ StartAppend(p)
        \/ EndFind(p) \/ EndDecide(p) \/ EndAppend(p)
        \/ WrapRead(p) \/ WrapRecord(p) \/ WrapSettle(p)
        \/ WrapWithoutClaim(p) \/ SettleClaim(p)
        \/ ChecksBegin(p) \/ ChecksEndRefused(p)
        \/ Crash(p)

Spec == Init /\ [][Next]_vars

-----------------------------------------------------------------------------
(* Properties *)

Starting == {p \in Proc : pc[p] = "starting"}

\* However the starts and ends of several processes interleave, the log is read
\* as session.py says: "the current session is the most recent session with no
\* end event after it"; two ends of one session do not bring another one up,
\* and every session started is either open or listed as closed, never both.
CurrentIsLatestUnended ==
    /\ IF Open = {} THEN CurrentSession = NoSession ELSE CurrentSession = Max(Open)
    /\ ListSessions \cap Open = {} /\ ListSessions \cup Open = Started

\* start_session checks and writes in two steps, so several starts can pass the
\* check together; but no more than one each: open sessions and starts under way
\* are at most as many as there are processes.
OpenSessionsBounded ==
    Cardinality(Open) + Cardinality(Starting) <= Cardinality(Proc)

\* A reconciled final status is what the claims of the session say to this day,
\* unless a wrap or a settlement added to them after they were read.
FinalStatusStands ==
    \A n \in 1 .. Len(events) :
        events[n].status \in Reconciled =>
            \/ events[n].status = ReconcileFinalStatus(events[n].sid)
            \/ events[n].sid \in late

\* The verdict on a session only gets worse: settling a contradicted claim again
\* does not make a failed session pass, nor one that has passed unknown.
VerdictOnlyWorsens ==
    [][\A s \in Sid :
          /\ ReconcileFinalStatus(s) = "FAILED" => ReconcileFinalStatus(s)' = "FAILED"
          /\ ReconcileFinalStatus(s) = "PASSED" => ReconcileFinalStatus(s)' # "UNKNOWN"]_vars

\* All records of a claim carry one session, and it is a session in the log.
OneSessionPerClaim ==
    /\ \A r, q \in records : r.claim = q.claim => r.session = q.session
    /\ \A r \in records : r.session \in Started \cup {NoSession}

\* project-check-suites.md, What happens: "Starts a session automatically ...
\* Ends session": the session a checks run ends is the one it started.
ChecksEndTheirOwn == foreign = {}
=============================================================================
