------------------------------ MODULE ClaimLock ------------------------------
(***************************************************************************)
(* Claim locks (claim_lock.py), the two hooks that lock and settle them on *)
(* behalf of coding sessions (hooks.py and the scripts it installs), and   *)
(* the Merge X-Ray of working-tree changes (xray.py).                      *)
(*                                                                         *)
(* Sessions share one repository and one claim_locks.jsonl.  Git is kept   *)
(* as far as the claims ask it: what the working tree holds, what git      *)
(* tracks, and the snapshots committed.  A scope is the set of files under *)
(* it; the sealed commands are the three outcomes they can have.           *)
(***************************************************************************)
EXTENDS Naturals, Sequences, FiniteSets, FiniteSetsExt

CONSTANTS
    Session,     \* the coding sessions at work in the repository
    File,        \* the files outside .chimera-memory
    Evidence,    \* PR_EVIDENCE.md, which the Stop hook writes
    Scopes,      \* the scopes claims declare
    NoClaim,     \* no claim
    MaxContent,  \* bound: the contents a file can have, 0 .. MaxContent
    MaxClaims,   \* bound: claims locked
    MaxRecords,  \* bound: lines of claim_locks.jsonl
    MaxCommits   \* bound: commits

ASSUME ClaimLockAssumption ==
    /\ IsFiniteSet(Session) /\ IsFiniteSet(File)
    /\ Evidence \in File
    /\ Scopes \subseteq SUBSET File
    /\ NoClaim \notin Nat
    /\ MaxContent \in Nat \ {0}
    /\ MaxClaims \in Nat /\ MaxRecords \in Nat /\ MaxCommits \in Nat \ {0}

VARIABLES
    work,      \* the content of each file in the working tree, 0 if it is absent
    tracked,   \* the files git tracks
    commits,   \* the snapshots committed; HEAD is the last
    locks,     \* claim_locks.jsonl
    prompted,  \* the sessions whose sentinel file exists
    pc,        \* where each session is in its turn and in its hooks
    job,       \* what a lock or a settlement under way has read
    auto,      \* the claim the prompt hook has locked for the turn
    missed     \* history: claims so locked and still LOCKED when the turn was over

vars == <<work, tracked, commits, locks, prompted, pc, job, auto, missed>>

Content  == 0 .. MaxContent
Claim    == 1 .. MaxClaims
Snapshot == [File -> Content]
Status   == {"LOCKED", "VALIDATED", "CONTRADICTED", "UNSETTLED", "SCOPE_DRIFT"}

\* pre is the number of the commit that was HEAD when the claim was sealed, 0 if
\* there was none.
LockRecord ==
    [claim : Claim, scope : Scopes, pre : 0 .. MaxCommits, status : Status,
     drift : SUBSET File]

TypeOK ==
    /\ work \in Snapshot
    /\ tracked \subseteq File
    /\ commits \in Seq(Snapshot) /\ Len(commits) <= MaxCommits
    /\ locks \in Seq(LockRecord) /\ Len(locks) <= MaxRecords
    /\ prompted \subseteq Session
    /\ pc \in [Session -> {"away", "turn", "locking", "relocking", "settling",
                           "resettling", "reporting"}]
    /\ job \in [Session -> [claim : Claim \cup {NoClaim}, pre : 0 .. MaxCommits]]
    /\ auto \in [Session -> Claim \cup {NoClaim}]
    /\ missed \subseteq Claim

-----------------------------------------------------------------------------
(* The claims, from the log *)

Claims == {locks[n].claim : n \in 1 .. Len(locks)}

\* MemoryStore.latest_claim_lock
Latest(c) == locks[Max({n \in 1 .. Len(locks) : locks[n].claim = c})]

\* latest_claim_locks lists claims in the order they were first seen, which is
\* the order of their numbers here.
Locked == {c \in Claims : Latest(c).status = "LOCKED"}

-----------------------------------------------------------------------------
(* What git says *)

HEAD == IF commits = <<>> THEN [f \in File |-> 0] ELSE commits[Len(commits)]

Untracked == {f \in File \ tracked : work[f] # 0}

\* git pairs files that are gone with files that are new, each with one at most, if
\* their contents are alike, and lists such a pair under its new name only (git diff
\* --name-only, and git status as _status_path reads it).  Which contents are alike
\* is not kept: these are the sets of files whose names may so be left out.
Renamed(gone, new) == {moved \in SUBSET gone : Cardinality(moved) <= Cardinality(new)}

\* git_dirty_files: of git status, all but the untracked files; a file that has
\* been added is listed until it is committed, even if it is gone again.
TrackedDirty ==
    LET removed == {f \in File \ tracked : HEAD[f] # 0}
        added   == {f \in tracked : HEAD[f] = 0}
        edited  == {f \in tracked : work[f] # HEAD[f]}
    IN  {(added \cup edited \cup removed) \ moved : moved \in Renamed(removed, added)}

\* What git diff sees of the working tree: a file git does not track is absent.
Seen(f) == IF f \in tracked THEN work[f] ELSE 0

Gone(snapshot) == {f \in File : snapshot[f] # 0 /\ Seen(f) = 0}
New(snapshot)  == {f \in File : snapshot[f] = 0 /\ Seen(f) # 0}

\* Mutant of ChangedSince: untracked files are not asked for.
ChangedTrackedSince(snapshot) ==
    {{f \in File : Seen(f) # snapshot[f]} \ moved :
        moved \in Renamed(Gone(snapshot), New(snapshot))}

\* The lists git_changed_files_since may return.
ChangedSince(snapshot) ==
    {({f \in File : Seen(f) # snapshot[f]} \ moved) \cup Untracked :
        moved \in Renamed(Gone(snapshot), New(snapshot))}

\* Mutant of ChangedFiles: the change set starts at HEAD, not at the sealed commit.
ChangedSinceHead(pre) == IF pre # 0 THEN ChangedSince(HEAD) ELSE TrackedDirty

\* settle_claim's change set: since the sealed HEAD, or what is dirty now.
ChangedFiles(pre) == IF pre # 0 THEN ChangedSince(commits[pre]) ELSE TrackedDirty

\* _resolve_status for a claim that has a falsifier, as every locked claim does.
ResolveStatus(outcomes, drift) ==
    IF "FAIL" \in outcomes THEN "CONTRADICTED"
    ELSE IF "UNRUNNABLE" \in outcomes THEN "UNSETTLED"
    ELSE IF drift # {} THEN "SCOPE_DRIFT"
    ELSE "VALIDATED"

-----------------------------------------------------------------------------
NoJob == [claim |-> NoClaim, pre |-> 0]

Init ==
    /\ \E content \in [File -> {0, 1}] :
          /\ work = content
          /\ \/ commits = <<>> /\ tracked = {}
             \/ commits = <<content>> /\ tracked = {f \in File : content[f] # 0}
    /\ locks = <<>>
    /\ prompted = {}
    /\ pc = [s \in Session |-> "away"]
    /\ job = [s \in Session |-> NoJob]
    /\ auto = [s \in Session |-> NoClaim]
    /\ missed = {}

files == <<work, tracked, commits>>

\* The working tree changes under everybody: an edit, git add, the staging of a file
\* that is gone (with the two before it, git mv), git commit -a.
Edit(f) ==
    /\ \E content \in Content \ {work[f]} : work' = [work EXCEPT ![f] = content]
    /\ UNCHANGED <<tracked, commits, locks, prompted, pc, job, auto, missed>>

Add(f) ==
    /\ f \in Untracked
    /\ tracked' = tracked \cup {f}
    /\ UNCHANGED <<work, commits, locks, prompted, pc, job, auto, missed>>

Remove(f) ==
    /\ f \in tracked /\ work[f] = 0
    /\ tracked' = tracked \ {f}
    /\ UNCHANGED <<work, commits, locks, prompted, pc, job, auto, missed>>

Commit ==
    /\ Len(commits) < MaxCommits
    /\ tracked # {}
    /\ commits' = Append(commits, [f \in File |-> IF f \in tracked THEN work[f] ELSE 0])
    /\ tracked' = {f \in tracked : work[f] # 0}
    /\ UNCHANGED <<work, locks, prompted, pc, job, auto, missed>>

\* The prompt hook: not the session's first prompt, a LOCKED claim found, no
\* falsifiers configured, or an error: the turn begins without a claim.
PromptWithoutLock(s) ==
    /\ pc[s] = "away"
    /\ prompted' = prompted \cup {s}
    /\ pc' = [pc EXCEPT ![s] = "turn"]
    /\ UNCHANGED <<files, locks, job, auto, missed>>

\* The prompt hook sees no LOCKED claim, builds a spec and asks for HEAD.
PromptCheck(s) ==
    /\ pc[s] = "away"
    /\ s \notin prompted
    /\ Locked = {}
    /\ prompted' = prompted \cup {s}
    /\ job' = [job EXCEPT ![s] = [claim |-> NoClaim, pre |-> Len(commits)]]
    /\ pc' = [pc EXCEPT ![s] = "locking"]
    /\ UNCHANGED <<files, locks, auto, missed>>

\* claim lock, from a terminal or over MCP, in the middle of a turn; it does not
\* ask whether another claim is LOCKED.
LockBegin(s) ==
    /\ pc[s] = "turn"
    /\ job' = [job EXCEPT ![s] = [claim |-> NoClaim, pre |-> Len(commits)]]
    /\ pc' = [pc EXCEPT ![s] = "relocking"]
    /\ UNCHANGED <<files, locks, prompted, auto, missed>>

LockAppend(s) ==
    LET c == Cardinality(Claims) + 1
    IN  /\ pc[s] \in {"locking", "relocking"}
        /\ c <= MaxClaims /\ Len(locks) < MaxRecords
        /\ \E scope \in Scopes :
              locks' = Append(locks, [claim |-> c, scope |-> scope, pre |-> job[s].pre,
                                      status |-> "LOCKED", drift |-> {}])
        /\ auto' = IF pc[s] = "locking" THEN [auto EXCEPT ![s] = c] ELSE auto
        /\ pc' = [pc EXCEPT ![s] = "turn"]
        /\ job' = [job EXCEPT ![s] = NoJob]
        /\ UNCHANGED <<files, prompted, missed>>

\* Mutant of StopFind: the LOCKED claim listed first is taken.
StopFindFirst(s) ==
    /\ pc[s] = "turn"
    /\ Locked # {}
    /\ job' = [job EXCEPT ![s] = [claim |-> Min(Locked), pre |-> Latest(Min(Locked)).pre]]
    /\ pc' = [pc EXCEPT ![s] = "settling"]
    /\ UNCHANGED <<files, locks, prompted, auto, missed>>

\* The Stop hook takes the LOCKED claim listed last, whoever locked it, and has
\* it settled.
StopFind(s) ==
    /\ pc[s] = "turn"
    /\ Locked # {}
    /\ job' = [job EXCEPT ![s] = [claim |-> Max(Locked), pre |-> Latest(Max(Locked)).pre]]
    /\ pc' = [pc EXCEPT ![s] = "settling"]
    /\ UNCHANGED <<files, locks, prompted, auto, missed>>

\* The turn is over; which of the claims locked for it are still LOCKED?
TurnOver(s) ==
    /\ pc' = [pc EXCEPT ![s] = "away"]
    /\ auto' = [auto EXCEPT ![s] = NoClaim]
    /\ missed' = missed \cup ({auto[s]} \cap Locked)

StopWithoutClaim(s) ==
    /\ pc[s] = "turn"
    /\ Locked = {}
    /\ TurnOver(s)
    /\ UNCHANGED <<files, locks, prompted, job>>

\* claim settle: any claim, settled or not.
SettleBegin(s) ==
    /\ pc[s] = "turn"
    /\ \E c \in Claims : job' = [job EXCEPT ![s] = [claim |-> c, pre |-> Latest(c).pre]]
    /\ pc' = [pc EXCEPT ![s] = "resettling"]
    /\ UNCHANGED <<files, locks, prompted, auto, missed>>

\* Mutant of SettleAppend: the settled record is sealed anew, at HEAD.
SettleAndReseal(s) ==
    LET record == Latest(job[s].claim)
    IN  /\ pc[s] \in {"settling", "resettling"}
        /\ Len(locks) < MaxRecords
        /\ \E changed \in ChangedFiles(job[s].pre),
              outcomes \in {{"PASS"}, {"PASS", "FAIL"}, {"PASS", "UNRUNNABLE"}} :
              LET drift == changed \ record.scope
              IN  locks' = Append(locks, [record EXCEPT !.status = ResolveStatus(outcomes, drift),
                                                        !.pre = Len(commits), !.drift = drift])
        /\ pc' = [pc EXCEPT ![s] = IF @ = "settling" THEN "reporting" ELSE "turn"]
        /\ job' = [job EXCEPT ![s] = NoJob]
        /\ UNCHANGED <<files, prompted, auto, missed>>

\* The sealed checks have run, git is asked, and the settled record is appended.
\* The scope is that of the record read; it is the same in all records.
SettleAppend(s) ==
    LET record == Latest(job[s].claim)
    IN  /\ pc[s] \in {"settling", "resettling"}
        /\ Len(locks) < MaxRecords
        /\ \E changed \in ChangedFiles(job[s].pre),
              outcomes \in {{"PASS"}, {"PASS", "FAIL"}, {"PASS", "UNRUNNABLE"}} :
              LET drift == changed \ record.scope
              IN  locks' = Append(locks, [record EXCEPT !.status = ResolveStatus(outcomes, drift),
                                                        !.drift = drift])
        /\ pc' = [pc EXCEPT ![s] = IF @ = "settling" THEN "reporting" ELSE "turn"]
        /\ job' = [job EXCEPT ![s] = NoJob]
        /\ UNCHANGED <<files, prompted, auto, missed>>

\* The Stop hook has the X-Ray written into the repository, and the turn is over.
StopReport(s) ==
    /\ pc[s] = "reporting"
    /\ \E content \in Content \ {0} : work' = [work EXCEPT ![Evidence] = content]
    /\ TurnOver(s)
    /\ UNCHANGED <<tracked, commits, locks, prompted, job>>

\* The session is killed, hooks and all.
Kill(s) ==
    /\ pc[s] # "away"
    /\ pc' = [pc EXCEPT ![s] = "away"]
    /\ job' = [job EXCEPT ![s] = NoJob]
    /\ auto' = [auto EXCEPT ![s] = NoClaim]
    /\ UNCHANGED <<files, locks, prompted, missed>>

Next ==
    \/ \E f \in File : Edit(f) \/ Add(f) \/ Remove(f)
    \/ Commit
    \/ \E s \in Session :
          \/ PromptWithoutLock(s) \/ PromptCheck(s)
          \/ LockBegin(s) \/ LockAppend(s)
          \/ StopFind(s) \/ StopWithoutClaim(s) \/ StopReport(s)
          \/ SettleBegin(s) \/ SettleAppend(s)
          \/ Kill(s)

Spec == Init /\ [][Next]_vars

-----------------------------------------------------------------------------
(* generate_xray without --base: the working tree against HEAD.  Without a     *)
(* HEAD git diff fails, and only the untracked files are left.                 *)

XrayChanges == IF commits = <<>> THEN {Untracked} ELSE ChangedSince(HEAD)

InScopeOf(statuses) ==
    UNION {Latest(c).scope : c \in {d \in Claims : Latest(d).status \in statuses}}

XrayCovered(changed) == changed \cap InScopeOf({"VALIDATED", "SCOPE_DRIFT"})
XrayWeak(changed)    ==
    (changed \cap InScopeOf({"CONTRADICTED", "UNSETTLED"})) \ XrayCovered(changed)
XrayDark(changed)    == changed \ (XrayCovered(changed) \cup XrayWeak(changed))

-----------------------------------------------------------------------------
(* Properties *)

\* A claim is sealed once: whoever settles it, how often, and from however old
\* a reading, its later records keep its scope and the HEAD it was sealed at,
\* and none of them is LOCKED again.
SealIsFrozen ==
    \A m, n \in 1 .. Len(locks) :
        m < n /\ locks[m].claim = locks[n].claim =>
            /\ locks[m].scope = locks[n].scope
            /\ locks[m].pre = locks[n].pre
            /\ locks[n].status # "LOCKED"

\* claim-locked-coding.md: VALIDATED means "no scope drift".  When a claim sealed
\* at a commit is VALIDATED, however often files were edited, added, removed and
\* committed since: nothing has come in or been edited outside its scope, and what
\* has gone from there is made up for, file by file, by what is new in the scope.
\* (git reports a move under the new name only, so a file moved into the scope is
\* no drift; that nothing outside has changed would be false.)
ValidatedLosesOnlyMoves ==
    [][locks' # locks =>
          LET record == locks'[Len(locks')]
              sealed == commits[record.pre]
              lost   == {f \in File \ record.scope : work[f] # sealed[f]}
          IN  record.status = "VALIDATED" /\ record.pre # 0 =>
                  /\ \A f \in lost : work[f] = 0
                  /\ Cardinality(lost) <= Cardinality(New(sealed) \cap record.scope)]_vars

\* The prompt hook promises that its claim is settled at the end of the turn.
\* The Stop hook leaves it LOCKED only if another claim was locked after it.
MissedOnlyForANewer == \A c \in missed : \E d \in Claims : d > c

\* Once there is a commit, the X-Ray of the working tree shows every file that
\* differs from HEAD as covered, weakly covered or evidence-dark, but for files that
\* are gone, of which it leaves out no more than it shows new ones; and it shows
\* nothing as dark that a settled claim covers.
XrayHidesOnlyMoves ==
    commits # <<>> => \A changed \in XrayChanges :
        LET shown  == XrayCovered(changed) \cup XrayWeak(changed) \cup XrayDark(changed)
            hidden == {f \in File : work[f] # HEAD[f]} \ shown
        IN  /\ \A f \in hidden : work[f] = 0
            /\ Cardinality(hidden) <= Cardinality(New(HEAD) \cap shown)
            /\ XrayDark(changed) \cap InScopeOf(Status \ {"LOCKED"}) = {}
=============================================================================
