------------------------------- MODULE Bundles -------------------------------
(***************************************************************************)
(* Receipts and bundles (receipt.py, evidence.py, cli.py): the receipt of  *)
(* a closed session, the receipt bundle, the evidence bundle and its       *)
(* dry-run import, and bundle inspect and bundle diff.                     *)
(*                                                                         *)
(* A repository exports into one directory, again and again.  A bundle is  *)
(* written file by file, each by an atomic replace and none ever removed;  *)
(* claims are recorded, settled, settled again and corrected between any   *)
(* two files, and an export may die there.  One export at a time writes    *)
(* the directory.  The texts are abstracted to what the readers of a       *)
(* bundle count; of the reports in a receipt bundle verify.json stands for *)
(* the others, status.json, failures.json, reliability.json,               *)
(* github-summary.md and the preflight, which nothing here reads back.     *)
(***************************************************************************)
EXTENDS Integers, Sequences, FiniteSets, FiniteSetsExt

CONSTANTS
    MaxRecords,   \* bound: records of claims.jsonl
    MaxSessions,  \* bound: sessions
    MaxErrata     \* bound: errata

ASSUME BundlesAssumption == MaxRecords \in Nat /\ MaxSessions \in Nat /\ MaxErrata \in Nat

VARIABLES
    records,  \* claims.jsonl
    ended,    \* the number of sessions ended; the next one is open
    errata,   \* the claims that have an erratum
    dir,      \* the directory: the content of each file that is there
    job,      \* the export under way: what it has read, and its next file
    users,    \* history: the kinds of export that have begun in the directory
    done,     \* history: the last export if it ended and none has begun since
    kept      \* a copy of the directory taken after an evidence export, for bundle diff

ledger == <<records, ended, errata>>
vars   == <<records, ended, errata, dir, job, users, done, kept>>

Id      == 1 .. MaxRecords
Session == 1 .. MaxSessions
Settled == {"VALIDATED", "CONTRADICTED"}

ClaimRecord ==
    [id : Id, session : Session, status : {"PROPOSED"} \cup Settled, attributed : BOOLEAN]

\* The files in the order in which each kind of export writes them.
Files(kind) ==
    IF kind = "evidence" THEN <<"events.jsonl", "errata.jsonl", "manifest.json", "README.md">>
    ELSE <<"receipt.md", "receipt.json", "verify.json", "README.md">>
Kind == {"evidence", "receipt"}
File == UNION {{Files(k)[n] : n \in 1 .. Len(Files(k))} : k \in Kind}

EngineEvent   == [id : Id, status : {"PROPOSED"} \cup Settled, corrected : BOOLEAN]
ReceiptRecord == [session : 0 .. MaxSessions, commands : SUBSET [id : Id, status : Settled]]
Job == [kind : Kind \cup {"none"}, next : 1 .. 4, events : SUBSET EngineEvent,
        errata : Nat, receipt : ReceiptRecord]

NoReceipt == [session |-> 0, commands |-> {}]
NoJob == [kind |-> "none", next |-> 1, events |-> {}, errata |-> 0, receipt |-> NoReceipt]
NoDir == [f \in {} |-> NoReceipt]

-----------------------------------------------------------------------------
(* What is read from a ledger *)

Elements(s) == {s[n] : n \in 1 .. Len(s)}
Ids(set)    == {x.id : x \in set}
Recorded    == Ids(Elements(records))

Latest(c) == records[Max({n \in 1 .. Len(records) : records[n].id = c})]

\* Mutant of Commands: the latest record of a claim counts.
CommandsByLatest(s) ==
    {[id |-> c, status |-> Latest(c).status] :
        c \in {c \in Recorded : Latest(c).session = s /\ Latest(c).status \in Settled}}

\* receipt._commands_for_session: of each claim of the session the first record that
\* is settled.  If there is none it falls back to Session.commands_observed, a list that
\* nothing fills; a store that cannot be read fails build_receipt before, in detect_drift.
Commands(s) ==
    LET SettledAt(c) == {n \in 1 .. Len(records) :
                            /\ records[n].id = c /\ records[n].session = s
                            /\ records[n].status \in Settled}
    IN  {[id |-> c, status |-> records[Min(SettledAt(c))].status] :
            c \in {c \in Recorded : SettledAt(c) # {}}}

\* receipt.build_receipt of the session ended last
Receipt == [session |-> ended, commands |-> Commands(ended)]

\* Mutant of CleanEvents: a claim counts as clean while it is not contradicted.
CleanEventsButFailures ==
    {[id |-> c, status |-> Latest(c).status, corrected |-> c \in errata] :
        c \in {c \in Recorded : Latest(c).attributed /\ Latest(c).status # "CONTRADICTED"}}

\* export.build_engine_events with clean_only: whether a claim is settled is not asked.
CleanEvents ==
    {[id |-> c, status |-> Latest(c).status, corrected |-> c \in errata] :
        c \in {c \in Recorded : Latest(c).attributed}}

-----------------------------------------------------------------------------
(* The readers of a bundle *)

SetIn(d, file) == IF file \in DOMAIN d THEN d[file] ELSE {}
Present(d)     == DOMAIN d

\* cli._bundle_inspect and _type of cli._bundle_diff
BundleType(d) ==
    IF {"receipt.json", "receipt.md"} \cap Present(d) # {} THEN "receipt"
    ELSE IF {"manifest.json", "events.jsonl"} \subseteq Present(d) THEN "evidence"
    ELSE "unknown"

Expected(type) ==
    CASE type = "receipt"  -> {"README.md", "receipt.json", "receipt.md", "verify.json"}
      [] type = "evidence" -> {"README.md", "manifest.json", "events.jsonl"}
      [] OTHER -> {}

Missing(d) == Expected(BundleType(d)) \ Present(d)

\* evidence.dry_run_import: the warning about the number of events, the one about the
\* errata, and the claims the store does not have.
EventWarning(d) ==
    d["manifest.json"].events # 0
        /\ Cardinality(SetIn(d, "events.jsonl")) # d["manifest.json"].events
ErrataWarning(d) == d["manifest.json"].errata > 0 /\ "errata.jsonl" \notin Present(d)

NewClaims(d) == Ids(SetIn(d, "events.jsonl")) \ Recorded

\* cli._bundle_diff of two evidence bundles: compatible, the delta of the event counts,
\* the files removed.
Compatible(d, e) == BundleType(d) = BundleType(e) /\ BundleType(d) # "unknown"
EventDelta(d, e) == e["manifest.json"].events - d["manifest.json"].events

-----------------------------------------------------------------------------
(* The ledger grows *)

Init ==
    /\ records = <<>> /\ ended = 0 /\ errata = {}
    /\ dir = NoDir /\ job = NoJob /\ users = {} /\ done = "none" /\ kept = NoDir

Exports == <<dir, job, users, done, kept>>
NewId   == Cardinality(Recorded) + 1

RecordClaim ==
    /\ Len(records) < MaxRecords /\ ended < MaxSessions
    /\ \E attributed \in BOOLEAN :
        records' = Append(records, [id |-> NewId, session |-> ended + 1, status |-> "PROPOSED",
                                    attributed |-> attributed])
    /\ UNCHANGED <<ended, errata, Exports>>

SettleClaim ==
    /\ Len(records) < MaxRecords
    /\ \E c \in Recorded, s \in Settled :
        records' = Append(records, [Latest(c) EXCEPT !.status = s])
    /\ UNCHANGED <<ended, errata, Exports>>

EndSession ==
    /\ ended < MaxSessions
    /\ ended' = ended + 1
    /\ UNCHANGED <<records, errata, Exports>>

AddErratum ==
    /\ Cardinality(errata) < MaxErrata
    /\ \E c \in Recorded \ errata : errata' = errata \cup {c}
    /\ UNCHANGED <<records, ended, Exports>>

-----------------------------------------------------------------------------
(* The exports *)

\* build_evidence_bundle reads the clean claims and their errata, _receipt_bundle the
\* receipt of the last closed session; without one it stops.
Begin(kind) ==
    /\ job = NoJob
    /\ kind = "receipt" => ended > 0
    /\ job' = [NoJob EXCEPT !.kind = kind,
                            !.events = IF kind = "evidence" THEN CleanEvents ELSE {},
                            !.receipt = IF kind = "receipt" THEN Receipt ELSE NoReceipt]
    /\ users' = users \cup {kind} /\ done' = "none"
    /\ UNCHANGED <<ledger, dir, kept>>

RelevantErrata == errata \cap Ids(job.events)

\* What the next file gets.  The manifest counts the events in it, which are named
\* here to tell below what it counted.
Content(file) ==
    CASE file = "events.jsonl"  -> job.events
      [] file = "errata.jsonl"  -> RelevantErrata
      [] file = "manifest.json" -> [events |-> Cardinality(job.events), errata |-> job.errata,
                                    counted |-> Ids(job.events)]
      [] file \in {"receipt.md", "receipt.json"} -> job.receipt
      [] file = "verify.json"   -> "report"
      [] file = "README.md"     -> job.kind

\* Mutant of Skips: a file that is there is not written again.
SkipsExisting(file) ==
    \/ file \in {"events.jsonl", "errata.jsonl"} /\ (Content(file) = {} \/ file \in Present(dir))
    \/ file = "verify.json"

\* An events or errata file that would be empty is not written, and an old one stays.
\* The reports of a receipt bundle are left out when they cannot be made.
Skips(file) ==
    \/ file \in {"events.jsonl", "errata.jsonl"} /\ Content(file) = {}
    \/ file = "verify.json"

Put(d, file, content) ==
    [f \in Present(d) \cup {file} |-> IF f = file THEN content ELSE d[f]]

Writes(file) == ~(file \in {"events.jsonl", "errata.jsonl"} /\ Skips(file))

WriteFile ==
    /\ job # NoJob
    /\ LET file == Files(job.kind)[job.next]
           last == job.next = Len(Files(job.kind))
       IN  /\ \/ Writes(file) /\ dir' = Put(dir, file, Content(file))
              \/ Skips(file) /\ UNCHANGED dir
           /\ job' = IF last THEN NoJob
                     ELSE [job EXCEPT !.next = @ + 1,
                                      !.errata = IF file = "errata.jsonl"
                                                 THEN Cardinality(RelevantErrata) ELSE @]
           /\ done' = IF last THEN job.kind ELSE done
    /\ UNCHANGED <<ledger, users, kept>>

Die ==
    /\ job # NoJob /\ job' = NoJob
    /\ UNCHANGED <<ledger, dir, users, done, kept>>

\* The directory is copied when an evidence export has ended.
Keep ==
    /\ done = "evidence" /\ BundleType(dir) = "evidence" /\ kept' = dir
    /\ UNCHANGED <<ledger, dir, job, users, done>>

Next ==
    \/ RecordClaim \/ SettleClaim \/ EndSession \/ AddErratum
    \/ \E k \in Kind : Begin(k)
    \/ WriteFile \/ Die \/ Keep

Spec == Init /\ [][Next]_vars

-----------------------------------------------------------------------------
(* Properties *)

TypeOK ==
    /\ records \in Seq(ClaimRecord)
    /\ ended \in 0 .. MaxSessions /\ errata \subseteq Recorded
    /\ job \in Job /\ users \subseteq Kind /\ done \in Kind \cup {"none"}
    /\ Present(dir) \subseteq File /\ Present(kept) \subseteq File

\* A later receipt of a session says of every command what an earlier one said,
\* though its claim may have been settled again since.
ReceiptsAgree ==
    [][ LET old == dir["receipt.json"]
            new == dir'["receipt.json"]
        IN  ("receipt.json" \in Present(dir) \cap Present(dir') /\ old.session = new.session)
            => old.commands \subseteq new.commands ]_vars

\* A bundle that the import does not warn about holds just the claims its manifest
\* counted, even when the last export died between the files: no claim leaves the
\* ledger, so equal numbers are equal claims.  A manifest that counted none is not
\* compared.
CountMeansClaims ==
    "manifest.json" \in Present(dir) /\ dir["manifest.json"].events # 0 /\ ~EventWarning(dir)
        => Ids(SetIn(dir, "events.jsonl")) = dir["manifest.json"].counted

\* An export that ran to its end has left a bundle whose parts agree, whatever an
\* earlier one had left: the import does not warn, every erratum is of a claim in it
\* and every corrected claim has its erratum in it, the repository itself has nothing
\* to learn from it, and inspect takes it for what it is, unless there is a receipt.
FinishedIsConsistent ==
    /\ done = "evidence" =>
        LET events == SetIn(dir, "events.jsonl")
        IN  /\ ~EventWarning(dir) /\ ~ErrataWarning(dir)
            /\ SetIn(dir, "errata.jsonl") \subseteq Ids(events)
            /\ {e.id : e \in {e \in events : e.corrected}} \subseteq SetIn(dir, "errata.jsonl")
            /\ NewClaims(dir) = {}
            /\ \/ "receipt" \in users
               \/ BundleType(dir) = IF events = {} THEN "unknown" ELSE "evidence"
            /\ BundleType(dir) = "evidence" => Missing(dir) = {}
    /\ done = "receipt" =>
        /\ BundleType(dir) = "receipt" /\ Missing(dir) \subseteq {"verify.json"}
        /\ dir["receipt.json"] = dir["receipt.md"]

\* Between two bundles that evidence exports have left, the delta of bundle diff is the
\* number of claims that have come in, and no file has gone.
DiffIsGrowth ==
    done = "evidence" /\ Compatible(kept, dir) /\ BundleType(kept) = "evidence"
        => /\ EventDelta(kept, dir) = Cardinality(Ids(SetIn(dir, "events.jsonl"))
                                                  \ Ids(SetIn(kept, "events.jsonl")))
           /\ Present(kept) \subseteq Present(dir)
=============================================================================
