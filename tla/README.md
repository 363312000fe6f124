# A TLA+ model of chimera-memory

chimera-memory records *claims* (falsifiable predictions made by people or
coding agents) in append-only ledgers, settles them against observed outcomes,
and lets anyone verify afterwards that nothing was rewritten.  This directory
holds TLA+ modules that model its core, TLC configurations that check them on
small instances, and TLAPS proofs, for every value of the constants, of most of
what the runs check.  Paths below are relative to
`src/packages/chimera-memory/src/chimera_memory/` unless they say otherwise.

Contents: 1 inventory · 2 hard behaviours · 3 the modules and the code ·
4 the runs and their bounds · 5 the proofs · 6 where code and documents
disagree · 7 assumptions and abstractions · 8 what is not modelled · 9 plan ·
10 running it.

## 1. Inventory

The program is a command line (`chimera-memory`), an MCP server and a pair of
hook scripts.  Apart from the MCP server, which answers one request at a time,
every command is a process of its own; all of them share one memory directory
(`.chimera-memory/`) and one git repository.  Whatever concurrency there is, is
between processes; whatever is coordinated, is coordinated through files.

| Component | State it keeps | Operations | Interacts with |
|---|---|---|---|
| **Claim ledger append path** (`storage.py`, `append_state.py`, `integrity.py`, `_index.py`) | `claims.jsonl`, `integrity.jsonl`, `append_state.json` (a cache of the last line), `index.sqlite`, `.append.lock` | `append_claim` | everything that records or settles |
| **Verification** (`integrity.py`) | none; reads both ledgers without the lock | `verify_integrity` | races with appends |
| **Recording and settling** (`ledger.py`, `seal.py`, the types package) | `claims.jsonl`, `outcomes.jsonl`, `scores.jsonl` | `record_claim`, `settle_claim` | three files written one after the other, no transaction |
| **Read models** (`ledger.py`, `query.py`, `export.py`) | none | `report`, `query_memory`, `build_claim_read_model`, `iter_engine_events` | each has its own notion of "settled" |
| **Sessions** (`session.py`, `session_lifecycle.py`, session events in `storage.py`) | `sessions.jsonl` | `start_session`, `end_session`, `current_session`, `list_sessions` | claims carry the tag of a session |
| **wrap, checks run** (`cli.py`) | none of their own | claim, run the command, settle; session start, wraps, session end | sessions, recording, settling |
| **Claim locks** (`claim_lock.py`, `adapters/git.py`) | `claim_locks.jsonl` | `lock_claim`, `settle_claim` | git, hooks, X-Ray, MCP |
| **Prompt and Stop hooks** (`hooks.py`) | sentinel files, `PR_EVIDENCE.md`; `.claude/settings.json` and two scripts | lock at the prompt, settle and report at Stop; `install_hooks`, `uninstall_hooks`, status | claim locks, X-Ray; the user, whose file `settings.json` is |
| **Merge X-Ray** (`xray.py`) | none | classification of the changed files | git, claim locks |
| **Preflight and repair loops** (`preflight.py`, `cli.py`) | none; loops are labels on claims | `build_preflight`, `repair-loops`, `doctor` | errata, read models, readiness |
| **Readiness, reliability, drift** (`m2b_readiness.py`, `reliability.py`, `drift.py`) | none | reports over the clean claims | errata, labels |
| **Errata, data quality** (`errata.py`, `data_quality.py`) | `errata.jsonl`, labels in the metadata of claims | `errata add`, `errata list`, `dq-summary` | all reports |
| **Receipts, evidence bundles** (`receipt.py`, `evidence.py`, `cli.py`) | a directory per bundle, used again and again | receipt of a session, receipt bundle, evidence export, dry-run import, bundle inspect, bundle diff | the ledgers, errata, verification |
| **MCP server** (`mcp_server.py`) | its permissions, whether it was initialized | six tools, as JSON-RPC over stdin and stdout | claim locks, X-Ray, the child processes of a settlement |
| **Command line** (`cli.py`) | none | parsing, printing | all of the above |

What makes each of them correct:

- *append path*: one unbroken chain, no line signed twice, every line signed;
  a lost or stale cache is harmless; an append that was begun ends.
- *verification*: every change is reported, a sound ledger is not accused.
- *recording and settling*: a settled record rests on an outcome and a score
  that were written, and its history is one that was observed; the sealed part of
  a claim never changes; nothing known after the claim is counted as evidence
  for it.
- *read models*: each counts the claims its rule says; the rules differ.
- *sessions*: the open session is the newest without an end; none is lost; the
  final status is what its claims say.
- *claim locks, hooks*: the seal is frozen; VALIDATED means that nothing outside
  the scope was touched, but for files moved into it; the claim locked at the prompt is settled at Stop.
- *hooks install*: hooks of others survive it; a command that ends has done its
  work; what is registered has a script.
- *MCP server*: answers come in order and tell what happened; nothing is written
  that the flags do not allow; every request is handled.
- *bundles*: a finished bundle is consistent; counts stand for claims, and the
  difference of two bundles is growth; receipts of a session agree.
- *X-Ray*: every change is in one of its classes, but for the old names of files
  that were moved.
- *reports*: what one shows as fixed another does not show as open; the same
  failures count everywhere; withdrawing evidence does not improve a verdict.

## 2. Hard behaviours

- *Two files, no transaction.*  An append writes the claim line, then its
  integrity entry, then the cache; a settlement writes an outcome, a score and a
  claim.  A process can die between any two.
- *Read, then act.*  `start_session`, `end_session`, `wrap`, `settle_claim`, the
  prompt hook and the Stop hook all read a log, do something slow (git, a test
  suite) and append on the strength of what they read.
- *Readers without locks.*  Only `append_claim` takes a lock.  Verification and
  all reports read while others write.
- *A cache of the tail* decides the next line number and the next chain hash.
- *A repository that moves on* between sealing and settling: edits, `git add`,
  commits, deletions, moves that git reports under one name, and a report that the Stop hook itself writes into it.
- *A file shared with a user.*  `settings.json` is read, changed and written in
  place; it may not parse, and the user may edit it in between.
- *A directory that is used again.*  A bundle is written file by file, none is
  ever removed, and the ledger moves on between two files.
- *A server with children.*  The MCP server may be killed between an effect and
  its answer, and the checks it runs inherit the stdin its requests come in on.
- *Several readings of one fact*: settled, clean, open and complete are each
  defined more than once.

`PROJECT.json` lists these hazards one by one, each at the line where it bites
and with the properties that would catch it.

## 3. The modules and the code

    IntegrityChain          pure: entries, chain, what verify_integrity reports
      +- LedgerAppend       append_claim by several processes, crashes, cache
           +- LedgerReader        verify_integrity between the steps of appends
           +- SignedLog           what the append path promises (refinement)
    ClaimSettlement         record_claim, settle_claim
    SessionLifecycle        start, end, wrap, checks run
    ClaimLock               lock, settle, hooks, git, X-Ray
    HooksInstall            hooks install, uninstall and status
    McpServer               the server, its clients, its checks, the command line
    RepairLoops             labels, errata and five reports over them
    Bundles                 receipts, bundles, import, inspect, diff
    MC<Module>              constants of the small instances for TLC
    <Module>Proofs          theorems about the module; those about LedgerAppend
                            and LedgerReader are in LedgerProofs

`PROJECT.json` maps each definition to the lines it models.  Definitions whose
comment begins with *Mutant of X* are not part of a model: each is X with a
plausible mistake, and stands just before X; putting it in place of X makes one
of the properties fail, which is how we know that the property says something.

**IntegrityChain.**  `Entry` is an `IntegrityEntry`; a chain hash is the sequence
of (line, record) pairs it commits to.  `PrevMismatch`, `RecordMismatch`,
`NotFound` and `ChainMismatch` are the four checks of `verify_integrity`, in its
order, `UnsignedGaps` its last one and `VerifyStatus` its verdict.

**LedgerAppend.**  One process in `append_claim` goes through `Call` (line and
hash computed), `Acquire` (`.append.lock`), `Load` (`load_or_rebuild`),
`WriteClaim`, `WriteIntegrity`, `SaveState`, `UpdateIndex`, `Release`: one action
for each effect that another process or a crash can separate from the next.
`Crash` is the death of the process or an exception out of the `with` block; the
operating system frees the file lock either way.  `UpsetCache` lets
`append_state.json` vanish, be damaged or come back from a copy at any moment.
A damaged cache counts as a missing one (`NoCache`), as `load_or_rebuild` takes
it, unless it is JSON and no object (`BadCache`): then `LoadRaises` ends the append
with a TypeError that nobody catches.
`Init` may hold legacy lines written before the chain existed.  History
variables: `orphaned` (an append has died between its claim line and its entry)
and `upsets` (how many crashes and damages there were).

**SignedLog** is the abstract specification: a log to which signed lines are
added one at a time; only after `Damage` may a signature be of another record.
`LedgerAppend` implements it with `log <- SignedLines, damaged <- orphaned`.

**LedgerReader** adds a reader: `ReadClaims`, any number of append steps,
`ReadIntegrity`.  `disturbed` remembers whether an append was under way.

**ClaimSettlement.**  `RecordClaim` is `record_claim` with its seal check;
`BeginSettle` is `settle_claim` up to its first write (everything it writes is
computed from the record it read), then `WriteOutcome`, `WriteScore`,
`WriteClaim`.  `Crash` leaves what is written.  Appending a claim is one step
here; that is what `LedgerAppend` implements.  `disturbed` remembers the claims
whose settlements overlapped or died.  `IsSettled` is the test `report` and
`query_memory` make.  `JustThose` says that a list of events is the outcomes of a
claim in the order of the file, by the numbers of the lines they stand on, and
`InOrder` that it is some of them.

**SessionLifecycle.**  `sessions.jsonl` is a sequence of start and end events;
`CurrentSession`, `ListSessions`, `ReconcileFinalStatus` are the functions of the
same names.  `StartCheck`/`StartAppend` are the two halves of `start_session`,
`EndFind`/`EndDecide`/`EndAppend` the three of `end_session` (find the session,
ask git and work out the status, append), `WrapRead`/`WrapRecord`/`WrapSettle`
those of `wrap`, with `WrapWithoutClaim` when an option is invalid or
`CHIMERA_DQ_NO_WRITE` is set.  `checks run` is `ChecksBegin`, a session start
(which may be refused and is not looked at), wraps until one fails, a session end.
`late` and `foreign` are history: sessions with a record their end cannot have
read, and sessions ended by a checks run that had not started them.

**ClaimLock.**  Git is what the claims ask of it: the working tree, the tracked
files, the snapshots committed; `ChangedSince`, `TrackedDirty`, `Untracked` are
the functions of `adapters/git.py`.  By default git pairs a file that is gone with
a new one of like content and lists the pair under the new name only, in
`git diff --name-only` and in `git status` as `_status_path` reads it.  Which
contents are alike is not kept: `Renamed` gives every set of names git may so leave
out, and the first two functions every list they may return.  `Add`, `Remove` and
`Edit` make up `git mv`.  `PromptCheck`/`LockAppend` are the prompt
hook, `LockBegin`/`LockAppend` a lock by hand, `StopFind`/`SettleAppend`/
`StopReport` the Stop hook, `SettleBegin`/`SettleAppend` a settlement by hand.
`auto` and `missed` are history: the claim the hook locked for the turn, and
those still LOCKED when the turn was over.  `XrayCovered`, `XrayWeak`, `XrayDark`
are the classes of `generate_xray`.

**HooksInstall.**  `Start`, then one `InstallScript` or `RemoveScript` for each
event in the order of the loops, `ReadForInstall` or `ReadForUninstall`,
`Truncate`, `Write`; `Die` at any step.  `Within` is the list comprehension that
keeps the groups without our command.  The user adds, drops and joins hooks,
breaks and mends the text and edits scripts in between.  `wanted` and `atRisk` are
history: the hooks of others the user has put in, and those a command makes no
promise about, because it could not know them or could not read them.

**McpServer.**  A life of the server is `Start` with its flags, then one message
at a time: `Take` reads it and decides what it is (refused, answered at once, or
to be run), `LockInitialize`, `LockAppend`, `SettleAppend`, `WriteReport` are the
effects of a tool, `Answer` writes to stdout, `Die` ends the life anywhere.
A tool that raises, before its record or report is written, is answered as the error
of the call (`Raises`).
`CheckReads` is a sealed check that reads a line of the stdin it inherited.
`CliLock` and `CliSettle` are other processes.  `cut` is history: what a death
interrupted.  What a settlement decides is in ClaimLock; here it says which call
wrote which record.

**Bundles.**  `Begin` reads what the code reads before its first file, `WriteFile`
writes the next file of `Files(kind)` or leaves it, `Die` ends the export between
two files; the ledger changes at any moment.  A directory is a function whose
domain is the files present.  `Keep` is the copy a user takes for
`bundle diff`.  `BundleType`, `Missing`, `EventWarning`, `ErrataWarning`,
`NewClaims` and `EventDelta` are what inspect, import and diff say.

**RepairLoops.**  The state is what the reports read: the claims with the labels
they were wrapped with and their latest status, and the last erratum of each.
`Wrap`, `Settle` and `AddErratum` change it in any order.  A label keeps the
verification scope as it was given: `unknown` and none are no measurement, and
two values all the same where readiness groups by them (`Comparable`).  The reports are
operators: `OpenLoops`, `CompleteLoops` (`repair-loops`), `DoctorOpen`,
`DoctorComplete`, `DoctorOrganicFailures` (`doctor`), `KnownFailures`,
`RepairStatus`, `OpenLoopsForScope` (`preflight`), `Cohort`, `Blocked`,
`ReadinessLevel` (`m2b-readiness`), `ReliabilityFailures` (`reliability`).

## 4. The runs and their bounds

All bounds are CONSTANTS or guards of the modules, named there.  States are
distinct states; processes, bodies and claim ids are symmetric where the
configuration says so (never in the run with a liveness property).

| Run | States | What it shows |
|---|---|---|
| `ledger_append` | 203,000 | Two appenders, crashes at every step, a cache that is lost, damaged, no object or rolled back (two upsets), a legacy line, four claim lines: no line is signed twice (`LineNumbersIncrease`), the index follows (`IndexTakesLatest`); without an orphan the ledger verifies between appends (`Verifies`), in an append at most its own line is open (`OnlyTheLastLineIsOpen`), and a record replaced, inserted or removed is reported (`ChangeIsReported`); it implements `SignedLog` (`ImplementsSignedLog`); every append that has the lock ends, and one that waits for it gets it, unless appends that fail on the cache keep passing it over (`AppendEnds`). |
| `ledger_reader` | 55,500 | A verifier among two appenders: it never accuses a stored record (`NeverAccuses`), reports BROKEN without damage only when it raced with an append (`FalseAlarmOnlyInARace`), and an unsigned line is reported every time (`UnsignedLineIsReported`). |
| `claim_settlement` | 452,000 | Two processes, two claims, three settlements, two times: settled records rest on an outcome and a score (`SettledIsAccounted`), the sealed part is frozen (`SealIsFrozen`), nothing leaks (`NoLeakage`), undisturbed settlements lose nothing (`UndisturbedLosesNothing`), and no record or score, however its settlement overlapped or died, tells of an event that was not observed, twice of one, or of two out of order (`EventsWereObserved`). |
| `session_lifecycle` | 802,000 | Two processes, two sessions, one claim: the current session is the newest without an end and none is lost (`CurrentIsLatestUnended`), the races of starts bound the open ones (`OpenSessionsBounded`), a final status is what its claims say (`FinalStatusStands`) and only worsens (`VerdictOnlyWorsens`), a claim stays with its session (`OneSessionPerClaim`). |
| `claim_lock` | 1,162,000 | One session, two files with three contents, two commits, moves: what the X-Ray leaves out are files that are gone, no more than it shows new ones (`XrayHidesOnlyMoves`); when a claim is VALIDATED, what has changed outside its scope since it was sealed are files that are gone, no more than there are new ones in the scope (`ValidatedLosesOnlyMoves`). |
| `claim_hooks` | 4,325,000 | Two sessions with hooks, two claims, three records: the seal is frozen (`SealIsFrozen`); the claim locked at the prompt stays LOCKED only if a newer one was locked (`MissedOnlyForANewer`). |
| `repair_loops` | 367,000 | Three claims of eleven kinds of label, all orders of settling and settling again, one corrected claim: `FixedIsClosed`, `DoctorAgreesOnLoops`, `OrganicFailuresAgree`, `OpenUntilFixed`, `WithdrawalNeverUnblocks`. |
| `hooks_install` | 349,000 | Install, forced install and uninstall that die anywhere, over a `settings.json` the user edits, breaks and mends: hooks of others stay (`OthersHooksStay`), a command that ends undisturbed has done what it says (`DoneIsDone`), a registration without a script is left by a removal only (`RegisteredHasScript`). |
| `mcp_server` | 514,000 | Three pipelined messages, two lives with any flags, tools that raise, checks that read the stdin, a command line beside: answers come in order and miss none (`AnsweredInOrder`), they tell the effects and at most one call per life is in doubt (`AnswersTellTheEffects`), whatever is written was allowed (`OnlyAllowedCallsWrite`), and every message is handled (`RequestsHandled`). |
| `bundles` | 3,272,000 | Two kinds of bundle exported over and over into one directory, dying between files, while three records, two sessions and an erratum come in: a count the import does not warn about stands for the claims counted (`CountMeansClaims`), a finished export is consistent (`FinishedIsConsistent`), the delta of diff is growth (`DiffIsGrowth`), later receipts repeat earlier ones (`ReceiptsAgree`). |

`ledger_orphan` and `checks_end_their_own` each end in the counterexample section
6 explains.  `TypeOK` of each module, `ChainLinked`, `AppendOnly` and `IInv` of the
ledger, and the inductive invariants of section 5 were checked on these instances
before they were proved, and none of them is part of a run: except for the type of
McpServer, which section 5 explains, they are theorems or lemmas now.

Why the bounds are enough.  *Ledger*: an orphan, the append that inherits the
stale cache and the append after that need three lines, with a legacy line four;
two upsets allow a crash and a rollback in one history; what an append does
depends on at most the last line and the cache, so more lines repeat these
situations.  The theorems of section 5 hold without the bounds.  *Settlement*:
overlap needs two processes on one claim; a retry after an overlap needs a third
settlement; two times are what "before, at, after the claim" needs given that
evidence, claim and outcome each take either.  *Sessions*: two processes are
needed for every race on the event log (each step of one reads what the other
may have changed); two sessions tell "the session I found" from "the session
open now".  One claim is enough for its tag to go stale; a session with several
claims differs from it only in the set of statuses, and settling again gives that
set both.  *Claim locks*: one file in the scope and one outside; three contents
tell "changed back" from "changed twice"; two commits put one between the sealed
commit and HEAD; two files are one move, and the theorems say it of any number.  The hooks run trades contents and commits for a second session.
*Repair loops*: one loop, since the reports treat loops apart; three claims are a
failure, its fix and something in between or a claim of another cohort; the
labels cover every phase, unattributed claims, two scopes one inside the other
and one apart, and legacy claims; thresholds are 1 where the code has small
numbers and percentages are the code's.  *Hooks install*: two hooks of others
make groups that are all ours, all theirs and shared; two groups for an event
when a forced install begins let it add a duplicate of ours; three edits break,
change and mend the file around one command, and as many commands as one likes
follow each other.  *MCP server*: three messages are an `initialize`, a call and
one to be pipelined behind it or swallowed by its checks; two lives let the flags
change; one claim of the command line makes one to settle that the server has not
locked; of messages that are handled alike one is sent.  *Bundles*: three records
are a claim, its settlement, and its second settlement or another claim; two
sessions separate the receipts of one from those of the other; exports are not
bounded.

Most bounds lie in guards, so that a system whose bounds are used up stops, some in
the middle of a command (`MaxSessions`, `MaxClaims`, `MaxRecords`): those
configurations turn the deadlock check off.  `ledger_reader`, `repair_loops` and
`hooks_install` keep it on: a verifier can always read again, a claim be settled
again, a command be started again.

*Fairness.*  `FairSpec` of LedgerAppend has weak fairness on `Step(p)` for each
process: one that has called `append_claim` goes on while it can.  filelock polls,
so a waiter tries again as long as it waits; the operating system frees the lock
of a dead holder.  Appends that fail on a `BadCache` write nothing, so there may be
any number of them, and `AppendEnds` excuses a waiter they pass over.  Polling is not queueing: that a waiter is not overtaken for
ever rests on there being finitely many other appends (`MaxClaims`).  Calls,
crashes and damage have no fairness.  `FairSpec` of McpServer has weak fairness on
`Serve`, the steps of the server itself: a process that is not blocked runs on.  It
is blocked only by the checks of a settlement, and that they end is an assumption
about the checks: `run_command` has no timeout.  Clients, deaths and the command line have none.  The
other modules state no liveness: their commands either end or do not, and nothing
waits for them.

## 5. The proofs

Eight modules hold the theorems: 8,832 proof obligations, none left out.  They state
every safety invariant and every action property of the passing runs, for any sets
of processes, sessions, claims, files, messages and labels, and for any value of the
bounds.

| Module | Theorems (the property each one states) | Obligations |
|---|---|---|
| `LedgerProofs` | of LedgerAppend: `Invariance` (`IInv`), `TypeCorrect`, `ChainIsLinked` (`ChainLinked`), `NoLineSignedTwice` (`LineNumbersIncrease`), `OnlyAnOpenLine` (`OnlyTheLastLineIsOpen`), `LedgerVerifies` (`Verifies`), `ChangesAreReported` (`ChangeIsReported`), `IndexIsLatest` (`IndexTakesLatest`), `LedgersAreExtended` (`AppendOnly`), `Refinement` (`ImplementsSignedLog`); of LedgerReader: `ReaderInvariance`, `NobodyIsAccused` (`NeverAccuses`), `AlarmsAreRaces` (`FalseAlarmOnlyInARace`), `UnsignedIsReported` (`UnsignedLineIsReported`) | 1,172 |
| `ClaimSettlementProofs` | `TypeCorrect`, `NothingLeaks` (`NoLeakage`), `SealStaysFrozen` (`SealIsFrozen`), `SettlementAccounted` (`SettledIsAccounted`), `HistoriesWereObserved` (`EventsWereObserved`), `NothingLost` (`UndisturbedLosesNothing`) | 1,549 |
| `SessionLifecycleProofs` | `TypeCorrect`, `CurrentStands` (`CurrentIsLatestUnended`), `OpenIsBounded` (`OpenSessionsBounded`), `FinalStands` (`FinalStatusStands`), `TagsAreSessions` (`OneSessionPerClaim`), `VerdictWorsens` (`VerdictOnlyWorsens`) | 1,083 |
| `ClaimLockProofs` | `TypeCorrect`, `SealStaysFrozen` (`SealIsFrozen`), `ValidatedOnlyMoves` (`ValidatedLosesOnlyMoves`), `XrayHidesJustMoves` (`XrayHidesOnlyMoves`), `MissedIsNotTheNewest` (`MissedOnlyForANewer`) | 908 |
| `HooksInstallProofs` | `TypeCorrect`, `OthersStay` (`OthersHooksStay`), `DoneMeansDone` (`DoneIsDone`), `RegistrationsHaveScripts` (`RegisteredHasScript`) | 885 |
| `McpServerProofs` | `OnlyAllowedWrite` (`OnlyAllowedCallsWrite`), `InOrder` (`AnsweredInOrder`), `AnswersTell` (`AnswersTellTheEffects`) | 1,684 |
| `RepairLoopsProofs` | `TypeCorrect`, `FixedStaysClosed` (`FixedIsClosed`), `DoctorAgrees` (`DoctorAgreesOnLoops`), `FailuresAgree` (`OrganicFailuresAgree`), `LoopsStayOpen` (`OpenUntilFixed`), `WithdrawalStaysBlocked` (`WithdrawalNeverUnblocks`) | 373 |
| `BundlesProofs` | `TypeCorrect`, `CountsAreClaims` (`CountMeansClaims`), `FinishedAgrees` (`FinishedIsConsistent`), `DiffsAreGrowth` (`DiffIsGrowth`), `ReceiptsKeepAgreeing` (`ReceiptsAgree`) | 1,178 |

Induction over data is beyond the prover, since the theorems it rests on take an
operator.  Two devices stand in for it.  Some models were written so that nothing
recursive is left to reason about: `JustThose` counts lines instead of comparing a
filtered sequence.  Where a definition stays recursive (`Within`), or something
must be the first or the last of many (`Max`, `Min`), the proof takes a least
counterexample, which `WFMin` of the library gives for a set: what fails for some
number fails for one whose predecessor satisfies it.

**LedgerAppend.**  None of the safety properties is inductive: that the next entry
links to the last one depends on what the lock holder has in its locals, and
that on what the cache said when it was loaded.  `IInv` adds

- `LockInv`: a process between taking and freeing the lock is the one in `lock`;
  hence there is one holder and everything below is about it;
- `CacheInv`: a cache was written after an entry, so its chain hash is not None;
  hence a cache that "matches" an empty `integrity.jsonl` does not exist;
- `HolderInv`: the holder's chain hash is that of the last entry, its line number
  is at least the last one signed, and after its own write the last line is its
  own record;
- `CoverInv`: as long as no append has died between its two writes, the entries
  cover the lines from the first signed one to the last without gaps, and the
  holder knows how many lines there are.

`LoadFacts` shows that loading establishes the holder's part from any cache at
all; then there is one step lemma for each conjunct, by cases on the actions.
`Verifies`, `OnlyTheLastLineIsOpen` and `ChangeIsReported` follow from `IInv` in
one state; for the last, every line from the first signed one on has an entry with
its number and hash (`LinesAreSigned`), so each kind of change meets an entry that
does not fit it or leaves a line without one.  The refinement maps `WriteIntegrity`
to adding a signed line, the crash that orphans a line to `Damage`, and everything
else to stuttering; that `SignedLines` does not change retroactively rests on
`claims.jsonl` being extended only.

**LedgerReader** adds `SeenInv` to `IInv`: a reading under way has seen a prefix of
the lines, and, if undisturbed, all of a ledger that verified.  Entries are of
lines that are written, so they fit any longer prefix; that a gap is found is a
pigeonhole argument, fewer entries than lines to sign.

**ClaimSettlement.**  `JobInv` types the settlements under way; `LeakInv` says that
they and all stored records have their evidence before and their events after the
claim; `SealInv` that they carry the seal of the records of their claim;
`AccountInv` which outcomes and scores are on file at each of the three writes;
`HistoryInv` that the events of records, scores and settlements under way are
some of the lines on file, in their order, a settlement at its first write
being about to add its own last one to a file that only grows.  `IntactInv`, for `NothingLost`, says of
a claim not in `disturbed` that one settlement of it at most is under way, that
this one started from the latest record, and that the events it carries are those
on file before `WriteOutcome` with one more, and all of them after it; the outcomes
of other claims that come in between do not count among its lines.

**SessionLifecycle.**  `LogInv` says that a start carries an id larger than every
id before it, from which the latest started without an end is the one the code
finds by position; `TagInv` carries a wrap's tag from its claim to its
settlement; `FinalInv` that a status worked out and not yet written still stands
or the session is `late`.  `VerdictOnlyWorsens` is about one step and needs types
only.

**ClaimLock.**  `PhaseInv` ties the locals of a session to the log; `SealInv` says
that a settlement under way will ask git about the HEAD its claim was sealed
with.  `OnlyMovesAreHidden` says of any list git may return since a commit that
what differs from it and is not named is a file that is gone, and that the
names left out are no more than the new files, which are all named; both properties
follow from it.  `MissInv`
that between finding a claim and settling it the Stop hook has its own one or
there is a newer one.

**McpServer.**  `AllowedInv` says of every record, of the report, and of the call
being run that it may be there; the work is in `Kept`: messages of the past, what
was taken and what was swallowed of it, and flags of earlier lives never change,
so what was allowed stays so.  `AnswersInv` is about the answers.  `Owed` names the
messages taken that want one; a step changes what is owed only when a message is
taken, and the one handled next is always the last taken, so the answers stay in
order and none is left out.  `ServingInv` says that the call being handled has
written nothing before its effect and what the answer will tell after it, `CutInv`
that a life cuts off one message at most, by its end, and `AccountedInv` whose a
record is that no answer tells of.

**HooksInstall.**  `OthersInv` says that what is promised to stay is in the text, and
in what a command has made of it when it has read it; `PassedInv` what a command has
done to the scripts it has passed, whatever the user edits meanwhile; `HeldInv` that
what an install will write registers every event, and what an uninstall will write
none; `RegisteredInv` is the property for a text that does not parse as well,
since the user may mend it.

**Bundles.**  The ledger only grows, so what an export has read is part of what a
later one reads, and the files that dead exports have left are nested: the claims a
manifest counts are among those in `events.jsonl` (`DirInv`), and those among the
ones the export under way has read (`EvidenceInv`).  Nested sets of one size are
equal, which is `CountMeansClaims`, and the copy that was kept is nested in the
directory (`KeptInv`), which is `DiffIsGrowth`.  `DoneInv` is what an export has
left when it ends; it stays while only the ledger changes.  For the receipts
`AgreeInv` says that what one told of its session is still so, since
the first settled record of a claim stays the first.

**RepairLoops.**  The agreements of the reports follow from the types (two of them
from nothing): their content is that the rules fit together for any labels.
`WithdrawalStaysBlocked` follows one correction through the cohort: it stays the
same set, and every count a gate looks at stays or falls.

The proofs assume the named ASSUMEs of the modules (distinct values for "nobody",
"None" and the like, bounds that are numbers, a finite set of agents in
RepairLoops), which TLC evaluates in the runs.  That `MaxCommits` is not zero was
found by the proof of ClaimLock, whose `Init` may hold one commit.

*Only model-checked*: `AppendEnds` and `RequestsHandled`, since liveness under
fairness is beyond the proof system, and the two violations of section 6.  `TypeOK`
of McpServer is checked and not proved: that no life is sent more than
`MaxMessages` rests on a bound on their sum over all lives, which is defined by
recursion.  The types its proofs need, without that bound, are `StdinOK`,
`AllowedInv` and `ServingInv`.

## 6. Where code and documents disagree

Two runs end in a counterexample, each for one sentence of the repository:

- `ledger_orphan`: "If the cache is missing, corrupt, stale, or mismatched it is
  rebuilt" (`append_state.py:14`).  The cache is compared with `integrity.jsonl`
  alone.  After an append died between its two writes, the next one uses the old
  line number, and the entry it writes is reported as a wrong hash for ever after.
- `checks_end_their_own`: checks run "Starts a session automatically ... Ends
  session" (`docs/examples/project-check-suites.md:57,59`): it ends whichever is
  open.

Others were met while modelling and have no run of their own.

The append path:

- A "corrupt" cache is rebuilt (`append_state.py:14`): one that is JSON and no
  object raises a TypeError that is not caught (`append_state.py:149`), and every
  append fails until the file is removed.

Sessions, claims and hooks:

- "Refuse to start a second session while one is already open"
  (`session_lifecycle.py:78`): check and append are two steps, so two starts may
  both pass; `OpenSessionsBounded` bounds what can come of it.
- A claim sealed before the first commit is settled against tracked files only,
  though the comment says untracked files too (`claim_lock.py:459`), and without a
  HEAD the X-Ray sees untracked files only and none of the staged ones
  (`xray.py:133`).
- VALIDATED is "All sealed checks passed, no scope drift"
  (`docs/examples/claim-locked-coding.md:94`), and the `changed_files` of the X-Ray
  are "All changed files" (`docs/contracts/xray-json.md:36`).  A file moved from
  outside the scope into it is no drift, and its old name is in no class: `git diff
  --name-only` detects renames and lists the new name only (`adapters/git.py:169`,
  likewise `_status_path`, lines 84 to 87).  `ValidatedLosesOnlyMoves` and
  `XrayHidesOnlyMoves` say that nothing else gets by.
- The claim locked at the prompt is not always settled "when Claude finishes this
  turn" (`hooks.py:356`); `MissedOnlyForANewer` bounds it.
- `scope_drift_files` are "Changed files outside any declared claim scope"
  (`docs/contracts/xray-json.md:41`): a file that drifted from one claim is
  listed although another claim declares it (`xray.py:208`).

Hooks install:

- `hooks install --force` is "Reinstall / overwrite"
  (`docs/examples/claude-hooks-setup.md:26`): it adds a second registration.
- `hooks uninstall` "Removes the scripts and their entries" (`:119`): it removes
  the groups that hold its entries, and hooks of others that share one go too.
- Status says installed when both scripts exist and `settings.json` is missing or
  does not parse, and an unforced install keeps a script that an interrupted one
  has cut short or left not executable.

MCP server:

- It runs "until stdin closes" (`mcp_server.py:467`): a line that is JSON and no
  object ends it.
- Sealed checks inherit its stdin and may take its requests, and one that never
  ends blocks it (`adapters/pytest_ci.py:69`).
- The settlement tool writes to the claim locks and asks for `--allow-execute`
  only.

Reports and bundles:

- "settled: claim_status is not None" (`query.py:8`) holds of every claim, since one
  that was only recorded is PROPOSED (`query.py:113`): `excl_unsettled` is always
  zero.  So the clean export, of "settled claims only" (`export.py:11`), takes every
  attributed claim, settled or not (`export.py:155`), where `report` asks for a
  settlement (`ledger.py:267`).
- A receipt "falls back to session.commands_observed" (`receipt.py:29`): nothing
  fills that list, and a store that cannot be read fails `build_receipt` in
  `detect_drift` before it gets there.
- `open_repair_loop_count` is "Loops with baseline but no SSAF"
  (`docs/contracts/doctor-json.md:41`): a loop with an SSAF and no failure counts.
- `repair-loops` speaks of a "later" fix and looks at no order (`cli.py:1547`,
  also `preflight.py:415`); its docstring has a class of malformed loops, and a
  loop that is neither is in no list (`cli.py:1649`); readiness counts complete
  loops by their labels, whatever the outcomes (`m2b_readiness.py:237`).
- `dq-summary` counts clean failures twice (`cli.py:430`); `checks run` reports a
  `verify_status` of OK without asking (`cli.py:3946`).
- `bundle diff` has a status `WARNING` when failures increased
  (`docs/contracts/bundle-diff-json.md:36`): it is never given.  `failures.json` is
  described as the failures "in this session" (`cli.py:2508`) and lists those of
  all claims.  The import does not compare a manifest that counts no events.

## 7. Assumptions and abstractions

- SHA-256 has no collisions: a hash is what was hashed.
- Appending one line is one step, and so is `os.replace`.  Torn lines are not
  modelled.
- filelock is external: it excludes, and dies with its holder.
- Records are members of small sets; of a claim's metadata only what decides a
  property is kept (`attributed`, labels, session tag).  Score values, excerpts,
  texts and formats are left out.
- Times are small numbers; the clock is whatever the caller passes.
- Statuses of wrapped and sealed commands are free choices.
- Git: files are flat (a directory of untracked files is one name in `git status`,
  its files are not listed apart); rename detection is on, as by default, and copy
  detection off; which contents are alike, and what the index holds of a file, are
  not kept, and the models allow every pairing; nobody rewrites history.
- The hooks run with `CHIMERA_SKIP_AUTOLOCK` and `AUTOLOCK_EVERY_PROMPT` unset and
  `stop_hook_active` off; the Stop hook finds LOCKED claims by text, and an intent
  that contains that word is not modelled.
- A claim in RepairLoops is its latest record, in the order claims were first
  recorded, as `latest_claims_from_records` keeps it.  An origin of `unknown` is as
  none in every gate.  Preflight's caps (50 failures looked at, 10 shown) lie beyond
  the bounds.
- HooksInstall: one hooks command at a time; the user does not edit
  `settings.json` while a command is between truncating and writing it, and edits
  scripts but does not delete them.
- McpServer: messages are whole lines; a check that reads its stdin takes any run
  of messages the server has not read (how many, buffers decide); checks end; a
  tool that raises has appended its record or has not, and not a part of it.
- Bundles: one export at a time, and one repository per directory; one file
  is replaced in one step (`os.replace`, `evidence.py:143`, `cli.py:2416`).

## 8. What is not modelled, and why

- *Torn lines*: a crash inside a line, or two unlocked appends torn into each other,
  in the `.jsonl` files; every reader raises on such a line.  Planned.
- *scoring.py, drift.py*: floating-point averages of single lists.
- *redaction.py*, witness excerpts, Markdown and text reports, the scan of a bundle
  for private paths and tokens: formatting and regular expressions.
- *Command runners*: their outcome is a free choice.
- *Command line*: parsing and printing, templates, `hooks init` and the demo, except
  the commands named above.
- Of modelled components: the grouping of reports, lesson texts, recommended
  checks and inferred scopes of preflight, quality grades and parsing of claim
  specifications, the commit-range mode and the drift list of the X-Ray, the
  readiness preview of the import, the reports in a receipt bundle that nothing
  reads back, listing of errata and `dq-summary`.
- *Properties that were considered and left out*: the parts of the hazards that
  `PROJECT.json` gives no property, each with its reason.

## 9. Plan

1. Torn appends: unlocked `.jsonl` files, a crash inside a line, and readers that
   raise or skip.
2. The malformed loops of repair-loops and the drift list of the X-Ray.
3. Proofs: abstract specifications of a settlement and of a bundle directory, in
   the way `SignedLog` is one of the append path, and that the modules implement
   them.

## 10. Running it

    tlc -config LedgerAppend.cfg MCLedgerAppend
    tlapm LedgerProofs.tla

and likewise for the other pairs of a configuration and an MC module listed under
`runs` in `PROJECT.json` and for the other `*Proofs` modules.
