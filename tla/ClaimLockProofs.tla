--------------------------- MODULE ClaimLockProofs ---------------------------
(***************************************************************************)
(* Proofs about ClaimLock, for any sessions, files and scopes, and any     *)
(* value of the bounds.                                                    *)
(*                                                                         *)
(* A settlement works from a record it read before its checks ran, and the *)
(* Stop hook from the claims that were LOCKED then.  What still holds of   *)
(* both when they write is in SealInv and MissInv.                         *)
(***************************************************************************)
EXTENDS ClaimLock, SequenceTheorems, WellFoundedInduction, FiniteSetTheorems, TLAPS

\* Among numbers up to n there is a largest, and Max names it: counted down from n,
\* one of them comes first.
LEMMA MaxOfBounded ==
    ASSUME NEW n \in Nat, NEW S \in SUBSET (1 .. n), S # {}
    PROVE  Max(S) \in S /\ \A x \in S : x <= Max(S)
<1> DEFINE D == {k \in Nat : n - k \in S}
<1>1. \A x \in S : n - x \in D /\ n - (n - x) = x
    OBVIOUS
<1>2. PICK d \in D : \A e \in D : <<e, d>> \notin OpToRel(<, Nat)
    BY <1>1, NatLessThanWellFounded, WFMin
<1>3. \A x \in S : ~(n - x < d)
    BY <1>1, <1>2 DEF OpToRel
<1>4. n - d \in S /\ \A x \in S : x <= n - d
    BY <1>3
<1> QED
    BY <1>4 DEF Max

\* Claims are numbered without gaps; a session in a settlement has a claim that was
\* locked, what it took for HEAD was a commit, and the claim locked for its turn exists.
PhaseInv ==
    /\ \E k \in Nat : Claims = 1 .. k
    /\ \A s \in Session :
          /\ pc[s] \in {"settling", "resettling"} => job[s].claim \in Claims
          /\ job[s].pre <= Len(commits)
          /\ auto[s] # NoClaim => auto[s] \in Claims
    /\ \A n \in 1 .. Len(locks) : locks[n].pre <= Len(commits)
    /\ missed \subseteq Claims

Base == TypeOK /\ PhaseInv

\* Claims and their latest records in any log.
ClaimsIn(log)    == {log[n].claim : n \in 1 .. Len(log)}
LatestIn(log, c) == log[Max({n \in 1 .. Len(log) : log[n].claim = c})]
LockedIn(log)    == {c \in ClaimsIn(log) : LatestIn(log, c).status = "LOCKED"}

-----------------------------------------------------------------------------
(* The log *)

\* A log with one more record.
LEMMA LogOfAppend ==
    ASSUME NEW log \in Seq(LockRecord), NEW r \in LockRecord
    PROVE  /\ Len(log) \in Nat
           /\ Append(log, r) \in Seq(LockRecord)
           /\ Len(Append(log, r)) = Len(log) + 1
           /\ \A n \in 1 .. Len(log) : Append(log, r)[n] = log[n]
           /\ Append(log, r)[Len(log) + 1] = r
           /\ ClaimsIn(Append(log, r)) = ClaimsIn(log) \cup {r.claim}
<1>1. /\ Len(log) \in Nat
      /\ Append(log, r) \in Seq(LockRecord)
      /\ Len(Append(log, r)) = Len(log) + 1
      /\ \A n \in 1 .. Len(log) : Append(log, r)[n] = log[n]
      /\ Append(log, r)[Len(log) + 1] = r
    BY AppendProperties, LenProperties
<1>2. ClaimsIn(Append(log, r)) = ClaimsIn(log) \cup {r.claim}
    BY <1>1 DEF ClaimsIn
<1> QED
    BY <1>1, <1>2

\* The records of a log are typed.
LEMMA RecordFields ==
    ASSUME NEW log \in Seq(LockRecord), NEW n \in 1 .. Len(log)
    PROVE  /\ log[n] \in LockRecord
           /\ log[n].claim \in Claim /\ log[n].scope \in Scopes /\ log[n].pre \in 0 .. MaxCommits
           /\ log[n].pre \in Nat
           /\ log[n].status \in Status
<1>1. log[n] \in LockRecord
    BY ElementOfSeq
<1> QED
    BY <1>1, ClaimLockAssumption DEF LockRecord

\* A claim that was locked has a latest record.
LEMMA LatestIsLast ==
    ASSUME NEW log \in Seq(LockRecord), NEW c \in ClaimsIn(log)
    PROVE  \E n \in 1 .. Len(log) :
              /\ LatestIn(log, c) = log[n]
              /\ log[n].claim = c
              /\ \A m \in 1 .. Len(log) : log[m].claim = c => m <= n
<1> DEFINE S == {n \in 1 .. Len(log) : log[n].claim = c}
<1>1. Len(log) \in Nat
    BY LenProperties
<1>2. S # {} /\ S \in SUBSET (1 .. Len(log))
    BY DEF ClaimsIn
<1>3. Max(S) \in S /\ \A n \in S : n <= Max(S)
    BY <1>1, <1>2, MaxOfBounded
<1> QED
    BY <1>3 DEF LatestIn

\* The record just written is the latest of its claim, and of no other.
LEMMA LatestOfAppend ==
    ASSUME NEW log \in Seq(LockRecord), NEW r \in LockRecord,
           NEW c \in ClaimsIn(Append(log, r))
    PROVE  LatestIn(Append(log, r), c) = IF c = r.claim THEN r ELSE LatestIn(log, c)
<1> DEFINE new == Append(log, r)
<1>1. /\ Len(log) \in Nat /\ new \in Seq(LockRecord) /\ Len(new) = Len(log) + 1
      /\ \A n \in 1 .. Len(log) : new[n] = log[n]
      /\ new[Len(log) + 1] = r
      /\ ClaimsIn(new) = ClaimsIn(log) \cup {r.claim}
    BY LogOfAppend
<1> HIDE DEF new
<1>2. PICK n \in 1 .. Len(new) : /\ LatestIn(new, c) = new[n]
                                 /\ new[n].claim = c
                                 /\ \A m \in 1 .. Len(new) : new[m].claim = c => m <= n
    BY <1>1, LatestIsLast DEF new
<1>3. CASE c = r.claim
    BY <1>1, <1>2, <1>3 DEF new
<1>4. CASE c # r.claim
  <2>1. c \in ClaimsIn(log) /\ n \in 1 .. Len(log)
    BY <1>1, <1>2, <1>4 DEF new
  <2>2. PICK k \in 1 .. Len(log) : /\ LatestIn(log, c) = log[k]
                                   /\ log[k].claim = c
                                   /\ \A m \in 1 .. Len(log) : log[m].claim = c => m <= k
    BY <2>1, LatestIsLast
  <2>3. k \in 1 .. Len(new) /\ new[k].claim = c
    BY <1>1, <2>2
  <2>4. k = n
    BY <1>1, <1>2, <2>1, <2>2, <2>3
  <2> QED
    BY <1>1, <1>2, <1>4, <2>2, <2>4 DEF new
<1> QED
    BY <1>3, <1>4 DEF new

\* The readings of claim_locks.jsonl are those of any log.
LEMMA OfTheLog ==
    /\ Claims = ClaimsIn(locks) /\ Claims' = ClaimsIn(locks')
    /\ Locked = LockedIn(locks) /\ Locked' = LockedIn(locks')
    /\ \A c : Latest(c) = LatestIn(locks, c)
    BY DEF Claims, ClaimsIn, Locked, LockedIn, Latest, LatestIn

\* The latest record of a claim is a record of it.
LEMMA LatestType ==
    ASSUME TypeOK, NEW c \in Claims
    PROVE  /\ Latest(c) \in LockRecord /\ Latest(c).claim = c
           /\ \E n \in 1 .. Len(locks) : Latest(c) = locks[n] /\ locks[n].claim = c
<1>1. locks \in Seq(LockRecord)
    BY DEF TypeOK
<1>2. PICK n \in 1 .. Len(locks) : LatestIn(locks, c) = locks[n] /\ locks[n].claim = c
    BY <1>1, LatestIsLast, OfTheLog
<1> QED
    BY <1>1, <1>2, OfTheLog, ElementOfSeq

\* ResolveStatus settles a claim, and says VALIDATED only without drift.
LEMMA Resolved ==
    ASSUME NEW outcomes, NEW drift
    PROVE  /\ ResolveStatus(outcomes, drift) \in Status \ {"LOCKED"}
           /\ ResolveStatus(outcomes, drift) = "VALIDATED" => drift = {}
    BY DEF ResolveStatus, Status

\* What a lock writes.
LEMMA LockedRecord ==
    ASSUME Base, NEW s \in Session, LockAppend(s)
    PROVE  \E r \in LockRecord :
              /\ locks' = Append(locks, r)
              /\ r.claim \notin Claims /\ \A c \in Claims : c < r.claim
              /\ \E k \in Nat : Claims \cup {r.claim} = 1 .. k
              /\ r.pre = job[s].pre /\ r.status = "LOCKED"
              /\ auto' = IF pc[s] = "locking" THEN [auto EXCEPT ![s] = r.claim] ELSE auto
<1> DEFINE new == Cardinality(Claims) + 1
<1>1. /\ new \in Nat \ {0} /\ new \notin Claims /\ \A c \in Claims : c < new
      /\ \E k \in Nat : Claims \cup {new} = 1 .. k
  <2>1. PICK k \in Nat : Claims = 1 .. k
    BY DEF Base, PhaseInv
  <2>2. Cardinality(Claims) = k
    BY <2>1, FS_Interval
  <2>3. 1 .. (k + 1) = (1 .. k) \cup {k + 1}
    OBVIOUS
  <2> QED
    BY <2>1, <2>2, <2>3
<1>4. new \in Claim
    BY <1>1, ClaimLockAssumption DEF LockAppend, Claim
<1>2. job[s].pre \in 0 .. MaxCommits
    BY DEF Base, TypeOK
<1>3. PICK scope \in Scopes :
        locks' = Append(locks, [claim |-> new, scope |-> scope, pre |-> job[s].pre,
                                status |-> "LOCKED", drift |-> {}])
    BY DEF LockAppend
<1>5. auto' = IF pc[s] = "locking" THEN [auto EXCEPT ![s] = new] ELSE auto
    BY DEF LockAppend
<1> HIDE DEF new
<1> DEFINE r == [claim |-> new, scope |-> scope, pre |-> job[s].pre, status |-> "LOCKED",
                 drift |-> {}]
<1>6. r \in LockRecord /\ r.claim = new /\ r.pre = job[s].pre /\ r.status = "LOCKED"
    BY <1>2, <1>4 DEF LockRecord, Status
<1>7. locks' = Append(locks, r)
    BY <1>3
<1> HIDE DEF r
<1> QED
    BY <1>1, <1>5, <1>6, <1>7

\* What git reports are files.
LEMMA ChangesAreFiles ==
    ASSUME TypeOK, NEW pre
    PROVE  \A changed \in ChangedFiles(pre) : changed \subseteq File
    BY DEF TypeOK, ChangedFiles, ChangedSince, Untracked, TrackedDirty

\* What a settlement writes.
LEMMA SettledRecord ==
    ASSUME Base, NEW s \in Session, SettleAppend(s)
    PROVE  \E r \in LockRecord, changed \in ChangedFiles(job[s].pre) :
              /\ locks' = Append(locks, r)
              /\ r.claim = job[s].claim /\ r.claim \in Claims
              /\ r.pre = Latest(r.claim).pre /\ r.scope = Latest(r.claim).scope
              /\ r.status # "LOCKED"
              /\ r.status = "VALIDATED" => changed \subseteq r.scope
<1> DEFINE c   == job[s].claim
           old == Latest(c)
           Drift(changed) == changed \ old.scope
<1>1. c \in Claims /\ TypeOK
    BY DEF Base, PhaseInv, SettleAppend
<1>2. old \in LockRecord /\ old.claim = c
    BY <1>1, LatestType
<1>3. PICK changed \in ChangedFiles(job[s].pre) : \E outcomes :
          locks' = Append(locks, [old EXCEPT !.status = ResolveStatus(outcomes, Drift(changed)),
                                             !.drift = Drift(changed)])
    BY DEF SettleAppend
<1>4. PICK outcomes :
          locks' = Append(locks, [old EXCEPT !.status = ResolveStatus(outcomes, Drift(changed)),
                                             !.drift = Drift(changed)])
    BY <1>3
<1> DEFINE drift  == Drift(changed)
           status == ResolveStatus(outcomes, drift)
           r == [old EXCEPT !.status = status, !.drift = drift]
<1>5. drift \subseteq File
    BY <1>1, <1>3, ChangesAreFiles
<1>6. status \in Status \ {"LOCKED"} /\ (status = "VALIDATED" => drift = {})
    BY Resolved
<1>7. locks' = Append(locks, r)
    BY <1>4
<1>8. drift = {} => changed \subseteq old.scope
    OBVIOUS
<1> HIDE DEF c, old, status, drift, Drift
<1>9. /\ r \in LockRecord /\ r.claim = old.claim /\ r.pre = old.pre /\ r.scope = old.scope
      /\ r.status = status
    BY <1>2, <1>5, <1>6 DEF LockRecord
<1> HIDE DEF r
<1> QED
    BY <1>1, <1>2, <1>3, <1>6, <1>7, <1>8, <1>9 DEF c, old

-----------------------------------------------------------------------------
(* Types and phases *)

\* Only locks and settlements write to the log.
LEMMA LogStep ==
    ASSUME [Next]_vars
    PROVE  \/ locks' = locks
           \/ \E s \in Session : LockAppend(s) \/ SettleAppend(s)
    BY DEF Next, vars, files, Edit, Add, Remove, Commit, PromptWithoutLock, PromptCheck, LockBegin,
           StopFind, StopWithoutClaim, StopReport, SettleBegin, Kill, TurnOver

\* The records of a step: none or one more, of a new claim or of one that was locked.
LEMMA RecordsStep ==
    ASSUME Base, [Next]_vars
    PROVE  \/ locks' = locks
           \/ \E r \in LockRecord : locks' = Append(locks, r) /\ r.pre <= Len(commits)
                                     /\ \E k \in Nat : Claims \cup {r.claim} = 1 .. k
<1>1. ASSUME NEW s \in Session, LockAppend(s)
      PROVE  \E r \in LockRecord : locks' = Append(locks, r) /\ r.pre <= Len(commits)
                                   /\ \E k \in Nat : Claims \cup {r.claim} = 1 .. k
    BY <1>1, LockedRecord DEF Base, PhaseInv
<1>2. ASSUME NEW s \in Session, SettleAppend(s)
      PROVE  \E r \in LockRecord : locks' = Append(locks, r) /\ r.pre <= Len(commits)
                                   /\ \E k \in Nat : Claims \cup {r.claim} = 1 .. k
  <2>1. PICK r \in LockRecord : /\ locks' = Append(locks, r) /\ r.claim \in Claims
                                /\ r.pre = Latest(r.claim).pre
    BY <1>2, SettledRecord
  <2>2. r.pre <= Len(commits)
    BY <2>1, LatestType DEF Base, PhaseInv
  <2>3. Claims \cup {r.claim} = Claims
    BY <2>1
  <2> QED
    BY <2>1, <2>2, <2>3 DEF Base, PhaseInv
<1> QED
    BY <1>1, <1>2, LogStep

\* Claims stay; so do commits.
LEMMA LogGrows ==
    ASSUME Base, [Next]_vars
    PROVE  /\ locks' \in Seq(LockRecord)
           /\ Claims \subseteq Claims'
           /\ (\E k \in Nat : Claims = 1 .. k)'
           /\ \A n \in 1 .. Len(locks') : locks'[n].pre <= Len(commits)
<1>1. locks \in Seq(LockRecord) /\ Len(locks) \in Nat
    BY LenProperties DEF Base, TypeOK
<1>2. CASE locks' = locks
    BY <1>1, <1>2 DEF Base, PhaseInv, Claims
<1>3. ASSUME NEW r \in LockRecord, locks' = Append(locks, r), r.pre <= Len(commits),
             \E k \in Nat : Claims \cup {r.claim} = 1 .. k
      PROVE  /\ locks' \in Seq(LockRecord)
             /\ Claims \subseteq Claims'
             /\ (\E k \in Nat : Claims = 1 .. k)'
             /\ \A n \in 1 .. Len(locks') : locks'[n].pre <= Len(commits)
  <2>1. /\ Claims' = Claims \cup {r.claim}
        /\ locks' \in Seq(LockRecord) /\ Len(locks') = Len(locks) + 1
        /\ \A n \in 1 .. Len(locks) : locks'[n] = locks[n]
        /\ locks'[Len(locks) + 1] = r
    BY <1>1, <1>3, LogOfAppend, OfTheLog
  <2>2. ASSUME NEW n \in 1 .. Len(locks') PROVE locks'[n].pre <= Len(commits)
    <3>1. n \in 1 .. Len(locks) \/ n = Len(locks) + 1
        BY <1>1, <2>1
    <3>2. \A k \in 1 .. Len(locks) : locks[k].pre <= Len(commits)
        BY DEF Base, PhaseInv
    <3> QED
        BY <1>3, <2>1, <3>1, <3>2
  <2> QED
    BY <1>3, <2>1, <2>2
<1> QED
    BY <1>2, <1>3, RecordsStep

\* The commits are only extended.
LEMMA CommitsStep ==
    ASSUME TypeOK, [Next]_vars
    PROVE  /\ commits' \in Seq(Snapshot) /\ Len(commits') <= MaxCommits
           /\ Len(commits) <= Len(commits')
           /\ Len(commits) \in Nat /\ Len(commits') \in Nat
           /\ \A n \in 1 .. Len(commits) : commits'[n] = commits[n]
<1>1. commits \in Seq(Snapshot) /\ Len(commits) \in Nat /\ Len(commits) <= MaxCommits
    BY LenProperties DEF TypeOK
<1>2. CASE Commit
  <2> DEFINE e == [f \in File |-> IF f \in tracked THEN work[f] ELSE 0]
  <2>1. e \in Snapshot /\ commits' = Append(commits, e)
    <3>1. \A f \in File : work[f] \in Content /\ 0 \in Content
        BY ClaimLockAssumption DEF TypeOK, Snapshot, Content
    <3>2. e \in Snapshot
        BY <3>1 DEF Snapshot
    <3> QED
        BY <1>2, <3>2 DEF Commit
  <2> HIDE DEF e
  <2>2. Len(commits) < MaxCommits
    BY <1>2 DEF Commit
  <2>3. /\ commits' \in Seq(Snapshot) /\ Len(commits') = Len(commits) + 1
        /\ \A n \in 1 .. Len(commits) : commits'[n] = commits[n]
    BY <1>1, <2>1, AppendProperties
  <2> QED
    BY <1>1, <2>2, <2>3, ClaimLockAssumption
<1>3. CASE commits' = commits
    BY <1>1, <1>3
<1> QED
    BY <1>2, <1>3
       DEF Next, vars, files, Edit, Add, Remove, PromptWithoutLock, PromptCheck, LockBegin, LockAppend,
           StopFind, StopWithoutClaim, StopReport, SettleBegin, SettleAppend, Kill, TurnOver

\* Between the steps of its commands a session holds what it will need.
LEMMA BaseStep == Base /\ [Next]_vars => Base'
<1> SUFFICES ASSUME Base, [Next]_vars PROVE Base'
    OBVIOUS
<1>1. /\ TypeOK /\ PhaseInv
      /\ locks' \in Seq(LockRecord) /\ Claims \subseteq Claims'
      /\ (\E k \in Nat : Claims = 1 .. k)'
      /\ \A n \in 1 .. Len(locks') : locks'[n].pre <= Len(commits)
      /\ commits' \in Seq(Snapshot) /\ Len(commits') <= MaxCommits
      /\ Len(commits) <= Len(commits') /\ Len(commits) \in Nat /\ Len(commits') \in Nat
    BY LogGrows, CommitsStep DEF Base
<1>2. \A n \in 1 .. Len(locks') : locks'[n].pre <= Len(commits')
  <2>1. \A n \in 1 .. Len(locks') : locks'[n].pre \in Nat
    BY <1>1, RecordFields
  <2> QED
    BY <1>1, <2>1
<1>3. Len(locks') <= MaxRecords
  <2>1. locks \in Seq(LockRecord) /\ Len(locks) \in Nat /\ Len(locks) <= MaxRecords
    BY LenProperties DEF Base, TypeOK
  <2>2. ASSUME NEW s \in Session, LockAppend(s) \/ SettleAppend(s) PROVE Len(locks) < MaxRecords
    BY <2>2 DEF LockAppend, SettleAppend
  <2>3. CASE locks' = locks
    BY <2>1, <2>3
  <2>4. ASSUME NEW r \in LockRecord, locks' = Append(locks, r), Len(locks) < MaxRecords
        PROVE  Len(locks') <= MaxRecords
    <3>1. Len(locks') = Len(locks) + 1
        BY <2>1, <2>4, LogOfAppend
    <3> QED
        BY <2>1, <2>4, <3>1, ClaimLockAssumption
  <2> QED
    BY <2>2, <2>3, <2>4, LogStep, RecordsStep
<1>4. Claims \subseteq Claim /\ Claims' \subseteq Claim /\ NoClaim \notin Claim
  <2>1. \A n \in 1 .. Len(locks) : locks[n].claim \in Claim
    BY <1>1, RecordFields DEF TypeOK
  <2>2. \A n \in 1 .. Len(locks') : locks'[n].claim \in Claim
    BY <1>1, RecordFields
  <2> QED
    BY <2>1, <2>2, ClaimLockAssumption DEF Claims, Claim
<1>5. work' \in Snapshot /\ tracked' \subseteq File /\ prompted' \subseteq Session
  <2>1. CASE \E f \in File : Edit(f) \/ Add(f) \/ Remove(f)
    BY <1>1, <2>1 DEF Edit, Add, Remove, TypeOK, Snapshot, Untracked
  <2>2. CASE Commit
    BY <1>1, <2>2 DEF Commit, TypeOK
  <2>3. ASSUME NEW s \in Session, StopReport(s)
        PROVE  work' \in Snapshot /\ UNCHANGED <<tracked, prompted>>
    BY <1>1, <2>3 DEF StopReport, TypeOK, Snapshot
  <2>4. ASSUME UNCHANGED <<work, tracked>>, prompted' \subseteq Session
        PROVE  work' \in Snapshot /\ tracked' \subseteq File /\ prompted' \subseteq Session
    BY <1>1, <2>4 DEF TypeOK
  <2> QED
    BY <1>1, <2>1, <2>2, <2>3, <2>4
       DEF Next, vars, files, PromptWithoutLock, PromptCheck, LockBegin, LockAppend, StopFind,
           StopWithoutClaim, SettleBegin, SettleAppend, Kill, TypeOK
<1> DEFINE Phases == {"away", "turn", "locking", "relocking", "settling", "resettling",
                      "reporting"}
           Jobs   == [claim : Claim \cup {NoClaim}, pre : 0 .. MaxCommits]
           Autos  == Claim \cup {NoClaim}
           Fits(x, j, a) == /\ x \in Phases /\ j \in Jobs /\ a \in Autos
                            /\ x \in {"settling", "resettling"} => j.claim \in Claims'
                            /\ j.pre <= Len(commits')
                            /\ a # NoClaim => a \in Claims'
           Sessions == /\ pc' \in [Session -> Phases]
                       /\ job' \in [Session -> Jobs]
                       /\ auto' \in [Session -> Autos]
                       /\ \A s \in Session : Fits(pc'[s], job'[s], auto'[s])
<1>6. /\ pc \in [Session -> Phases] /\ job \in [Session -> Jobs] /\ auto \in [Session -> Autos]
      /\ \A s \in Session : Fits(pc[s], job[s], auto[s])
  <2>1. \A s \in Session : job[s].pre \in Nat /\ job[s].pre <= Len(commits)
    BY <1>1, ClaimLockAssumption DEF TypeOK, PhaseInv
  <2>2. \A s \in Session : job[s].pre <= Len(commits')
    BY <1>1, <2>1
  <2> QED
    BY <1>1, <2>2 DEF TypeOK, PhaseInv
<1>7. ASSUME NEW s \in Session, NEW x, NEW j, NEW a, Fits(x, j, a),
             pc' = [pc EXCEPT ![s] = x], job' = [job EXCEPT ![s] = j],
             auto' = [auto EXCEPT ![s] = a]
      PROVE  Sessions
  <2>1. x \in Phases /\ j \in Jobs /\ a \in Autos
    BY <1>7
  <2> HIDE DEF Phases, Jobs, Autos, Fits
  <2>2. pc' \in [Session -> Phases] /\ job' \in [Session -> Jobs] /\ auto' \in [Session -> Autos]
    BY <1>6, <1>7, <2>1
  <2>3. \A t \in Session : Fits(pc'[t], job'[t], auto'[t])
    BY <1>6, <1>7
  <2> QED
    BY <2>2, <2>3
<1> HIDE DEF Phases, Jobs, Autos, Fits
<1>8. ASSUME pc' = pc, job' = job, auto' = auto PROVE Sessions
    BY <1>6, <1>8
<1> HIDE DEF Sessions
<1>9. Sessions
  <2>1. ASSUME NEW s \in Session
        PROVE  /\ pc[s] \in Phases /\ job[s] \in Jobs /\ auto[s] \in Autos
               /\ Fits(pc[s], job[s], auto[s])
               /\ job = [job EXCEPT ![s] = job[s]] /\ auto = [auto EXCEPT ![s] = auto[s]]
    BY <1>6
  <2>2. /\ Fits("away", NoJob, NoClaim)
        /\ \A s \in Session : Fits("turn", NoJob, auto[s])
    BY <1>1, <2>1, ClaimLockAssumption DEF Fits, Phases, Jobs, Autos, NoJob
  <2>3. ASSUME NEW s \in Session, PromptWithoutLock(s) PROVE Sessions
    <3>1. Fits("turn", job[s], auto[s])
        BY <2>1 DEF Fits, Phases
    <3> QED
        BY <1>7, <2>1, <2>3, <3>1 DEF PromptWithoutLock
  <2>4. ASSUME NEW s \in Session, PromptCheck(s) \/ LockBegin(s) PROVE Sessions
    <3> DEFINE j == [claim |-> NoClaim, pre |-> Len(commits)]
    <3>1. Fits("locking", j, auto[s]) /\ Fits("relocking", j, auto[s])
      <4>1. Len(commits) \in 0 .. MaxCommits
        BY <1>1, ClaimLockAssumption DEF TypeOK
      <4> QED
        BY <1>1, <2>1, <4>1 DEF Fits, Phases, Jobs, Autos
    <3> HIDE DEF j
    <3>2. /\ pc' = [pc EXCEPT ![s] = "locking"] \/ pc' = [pc EXCEPT ![s] = "relocking"]
          /\ job' = [job EXCEPT ![s] = j] /\ auto' = auto
        BY <2>4 DEF PromptCheck, LockBegin, j
    <3> QED
        BY <1>7, <2>1, <3>1, <3>2
  <2>5. ASSUME NEW s \in Session, LockAppend(s) PROVE Sessions
    <3>1. PICK r \in LockRecord :
              /\ locks' = Append(locks, r)
              /\ auto' = IF pc[s] = "locking" THEN [auto EXCEPT ![s] = r.claim] ELSE auto
        BY <2>5, LockedRecord
    <3>2. r.claim \in Claims'
        BY <1>1, <3>1, LogOfAppend, OfTheLog DEF TypeOK
    <3>3. Fits("turn", NoJob, r.claim)
        BY <1>1, <1>4, <2>2, <2>5, <3>2 DEF Fits, Autos
    <3> QED
        BY <1>7, <2>1, <2>2, <2>5, <3>1, <3>3 DEF LockAppend
  <2>6. ASSUME NEW s \in Session, NEW c \in Claims, NEW x \in {"settling", "resettling"},
               job' = [job EXCEPT ![s] = [claim |-> c, pre |-> Latest(c).pre]],
               pc' = [pc EXCEPT ![s] = x], auto' = auto
        PROVE  Sessions
    <3> DEFINE j == [claim |-> c, pre |-> Latest(c).pre]
    <3>1. Latest(c).pre \in 0 .. MaxCommits /\ Latest(c).pre <= Len(commits)
        BY <1>1, LatestType, RecordFields DEF PhaseInv, TypeOK
    <3>2. Latest(c).pre <= Len(commits')
        BY <1>1, <3>1, ClaimLockAssumption
    <3>3. Fits(x, j, auto[s])
        BY <1>1, <1>4, <2>1, <3>1, <3>2 DEF Fits, Phases, Jobs, Autos
    <3> HIDE DEF j
    <3> QED
        BY <1>7, <2>1, <2>6, <3>3 DEF j
  <2>7. ASSUME NEW s \in Session, StopFind(s) PROVE Sessions
    <3>1. Max(Locked) \in Claims
      <4>1. Locked # {} /\ Locked \subseteq Claims
        BY <2>7 DEF StopFind, Locked
      <4>2. PICK k \in Nat : Claims = 1 .. k
        BY <1>1 DEF PhaseInv
      <4> QED
        BY <4>1, <4>2, MaxOfBounded
    <3> QED
        BY <2>6, <2>7, <3>1 DEF StopFind
  <2>8. ASSUME NEW s \in Session, SettleBegin(s) PROVE Sessions
    BY <2>6, <2>8 DEF SettleBegin
  <2>9. ASSUME NEW s \in Session, SettleAppend(s) PROVE Sessions
    <3>1. Fits("reporting", NoJob, auto[s])
        BY <2>2 DEF Fits, Phases
    <3>2. /\ \/ pc' = [pc EXCEPT ![s] = "reporting"]
             \/ pc' = [pc EXCEPT ![s] = "turn"]
          /\ job' = [job EXCEPT ![s] = NoJob] /\ auto' = auto
        BY <2>9 DEF SettleAppend
    <3> QED
        BY <1>7, <2>1, <2>2, <3>1, <3>2
  <2>10. ASSUME NEW s \in Session, StopWithoutClaim(s) \/ StopReport(s) PROVE Sessions
    <3>1. Fits("away", job[s], NoClaim)
        BY <2>1, <2>2 DEF Fits, Phases
    <3> QED
        BY <1>7, <2>1, <2>10, <3>1 DEF StopWithoutClaim, StopReport, TurnOver
  <2>11. ASSUME NEW s \in Session, Kill(s) PROVE Sessions
    BY <1>7, <2>2, <2>11 DEF Kill
  <2>12. CASE Commit \/ (\E f \in File : Edit(f) \/ Add(f) \/ Remove(f)) \/ UNCHANGED vars
    <3>1. pc' = pc /\ job' = job /\ auto' = auto
        BY <2>12 DEF Commit, Edit, Add, Remove, vars
    <3> QED
        BY <1>8, <3>1
  <2> QED
    BY <2>3, <2>4, <2>5, <2>7, <2>8, <2>9, <2>10, <2>11, <2>12 DEF Next
<1>10. missed' \subseteq Claims'
  <2>1. missed' \subseteq missed \cup Claims
    BY DEF Next, vars, files, Edit, Add, Remove, Commit, PromptWithoutLock, PromptCheck, LockBegin,
           LockAppend, StopFind, StopWithoutClaim, StopReport, SettleBegin, SettleAppend, Kill,
           TurnOver, Locked
  <2> QED
    BY <1>1, <2>1 DEF PhaseInv
<1> QED
    BY <1>1, <1>2, <1>3, <1>4, <1>5, <1>9, <1>10
       DEF Base, TypeOK, PhaseInv, Sessions, Fits, Phases, Jobs, Autos

\* No claim is locked and no session at work at first.
LEMMA BaseInit == Init => Base
<1> SUFFICES ASSUME Init PROVE Base
    OBVIOUS
<1>1. locks = <<>> /\ Len(locks) = 0 /\ locks \in Seq(LockRecord) /\ Claims = {}
    BY EmptySeq DEF Init, Claims
<1>2. Claims = 1 .. 0
    BY <1>1
<1>3. work \in Snapshot /\ tracked \subseteq File
    BY ClaimLockAssumption DEF Init, Snapshot, Content
<1>4. commits \in Seq(Snapshot) /\ Len(commits) \in 0 .. MaxCommits
  <2>1. CASE commits = <<>>
    BY <2>1, EmptySeq, ClaimLockAssumption
  <2>2. CASE commits = <<work>>
    <3>1. <<work>> \in Seq(Snapshot) /\ Len(<<work>>) = 1
        BY <1>3
    <3> QED
        BY <2>2, <3>1, ClaimLockAssumption
  <2> QED
    BY <2>1, <2>2 DEF Init
<1> QED
    BY <1>1, <1>2, <1>3, <1>4, ClaimLockAssumption
       DEF Init, Base, TypeOK, PhaseInv, NoJob

\* The repository, the log and what each session holds keep their types.
THEOREM TypeCorrect == Spec => []TypeOK
<1>1. Base => TypeOK
    BY DEF Base
<1> QED
    BY <1>1, BaseInit, BaseStep, PTL DEF Spec

-----------------------------------------------------------------------------
(* The seal *)

\* All records of a claim have one scope and one HEAD, only the first is LOCKED, and a
\* settlement under way will ask git about that HEAD.
SealInv ==
    /\ Base
    /\ SealIsFrozen
    /\ \A s \in Session : pc[s] \in {"settling", "resettling"} =>
          job[s].pre = Latest(job[s].claim).pre

\* Every record of a claim has the seal of the latest one.
LEMMA SealOfLatest ==
    ASSUME Base, SealIsFrozen, NEW n \in 1 .. Len(locks)
    PROVE  /\ locks[n].claim \in Claims
           /\ Latest(locks[n].claim).scope = locks[n].scope
           /\ Latest(locks[n].claim).pre = locks[n].pre
<1> DEFINE c == locks[n].claim
<1>1. c \in Claims /\ locks \in Seq(LockRecord) /\ Len(locks) \in Nat
    BY LenProperties DEF Claims, Base, TypeOK
<1>2. PICK k \in 1 .. Len(locks) : Latest(c) = locks[k] /\ locks[k].claim = c
    BY <1>1, LatestType DEF Base
<1>3. n < k \/ n = k \/ k < n
    BY <1>1
<1> QED
    BY <1>1, <1>2, <1>3 DEF SealIsFrozen

\* The records stay frozen.
LEMMA SealStep ==
    ASSUME SealInv, [Next]_vars
    PROVE  SealIsFrozen'
<1>1. Base /\ SealIsFrozen /\ locks \in Seq(LockRecord) /\ Len(locks) \in Nat
    BY LenProperties DEF SealInv, Base, TypeOK
<1>2. CASE locks' = locks
    BY <1>1, <1>2 DEF SealIsFrozen
<1>3. ASSUME NEW r \in LockRecord, locks' = Append(locks, r),
             \A n \in 1 .. Len(locks) : locks[n].claim = r.claim =>
                /\ locks[n].scope = r.scope /\ locks[n].pre = r.pre
                /\ r.status # "LOCKED"
      PROVE  SealIsFrozen'
  <2>1. /\ Len(locks') = Len(locks) + 1
        /\ \A n \in 1 .. Len(locks) : locks'[n] = locks[n]
        /\ locks'[Len(locks) + 1] = r
    BY <1>1, <1>3, LogOfAppend
  <2>2. SUFFICES ASSUME NEW m \in 1 .. Len(locks'), NEW n \in 1 .. Len(locks'),
                        m < n, locks'[m].claim = locks'[n].claim
                 PROVE  /\ locks'[m].scope = locks'[n].scope
                        /\ locks'[m].pre = locks'[n].pre
                        /\ locks'[n].status # "LOCKED"
    BY DEF SealIsFrozen
  <2>3. m \in 1 .. Len(locks)
    BY <1>1, <2>1, <2>2
  <2>4. CASE n \in 1 .. Len(locks)
    BY <1>1, <2>1, <2>2, <2>3, <2>4 DEF SealIsFrozen
  <2>5. CASE n = Len(locks) + 1
    BY <1>3, <2>1, <2>2, <2>3, <2>5
  <2> QED
    BY <1>1, <2>1, <2>4, <2>5
<1>4. ASSUME NEW s \in Session, LockAppend(s) PROVE SealIsFrozen'
  <2>1. PICK r \in LockRecord : locks' = Append(locks, r) /\ r.claim \notin Claims
    BY <1>1, <1>4, LockedRecord
  <2>2. \A n \in 1 .. Len(locks) : locks[n].claim # r.claim
    BY <2>1 DEF Claims
  <2> QED
    BY <1>3, <2>1, <2>2
<1>5. ASSUME NEW s \in Session, SettleAppend(s) PROVE SealIsFrozen'
  <2>1. PICK r \in LockRecord :
           /\ locks' = Append(locks, r) /\ r.status # "LOCKED"
           /\ r.pre = Latest(r.claim).pre /\ r.scope = Latest(r.claim).scope
    BY <1>1, <1>5, SettledRecord
  <2>2. \A n \in 1 .. Len(locks) : locks[n].claim = r.claim =>
           locks[n].scope = r.scope /\ locks[n].pre = r.pre
    BY <1>1, <2>1, SealOfLatest
  <2> QED
    BY <1>3, <2>1, <2>2
<1> QED
    BY <1>2, <1>4, <1>5, LogStep

\* The HEAD of a claim that was locked stays that of its latest record.
LEMMA PreStays ==
    ASSUME SealInv, [Next]_vars, NEW c \in Claims
    PROVE  LatestIn(locks', c).pre = Latest(c).pre
<1>1. Base /\ locks \in Seq(LockRecord) /\ Claims = ClaimsIn(locks)
    BY OfTheLog DEF SealInv, Base, TypeOK
<1>2. CASE locks' = locks
    BY <1>2, OfTheLog
<1>3. ASSUME NEW r \in LockRecord, locks' = Append(locks, r),
             c = r.claim => r.pre = Latest(c).pre
      PROVE  LatestIn(locks', c).pre = Latest(c).pre
  <2>1. c \in ClaimsIn(Append(locks, r))
    BY <1>1, LogOfAppend
  <2> QED
    BY <1>1, <1>3, <2>1, LatestOfAppend, OfTheLog
<1>4. ASSUME NEW s \in Session, LockAppend(s)
      PROVE  \E r \in LockRecord : locks' = Append(locks, r)
                                   /\ (c = r.claim => r.pre = Latest(c).pre)
    BY <1>1, <1>4, LockedRecord
<1>5. ASSUME NEW s \in Session, SettleAppend(s)
      PROVE  \E r \in LockRecord : locks' = Append(locks, r)
                                   /\ (c = r.claim => r.pre = Latest(c).pre)
    BY <1>1, <1>5, SettledRecord
<1> QED
    BY <1>2, <1>3, <1>4, <1>5, LogStep

\* A session begins a settlement only with StopFind and SettleBegin, and is left alone
\* by the steps of others.
LEMMA WhoSettles ==
    ASSUME TypeOK, [Next]_vars, NEW t \in Session
    PROVE  \/ pc'[t] = pc[t] /\ job'[t] = job[t]
           \/ pc'[t] \notin {"settling", "resettling"}
           \/ StopFind(t) \/ SettleBegin(t)
<1>1. pc \in [Session -> {"away", "turn", "locking", "relocking", "settling", "resettling",
                         "reporting"}]
      /\ job \in [Session -> [claim : Claim \cup {NoClaim}, pre : 0 .. MaxCommits]]
    BY DEF TypeOK
<1> DEFINE Alone == pc'[t] = pc[t] /\ job'[t] = job[t]
           Else  == pc'[t] \notin {"settling", "resettling"}
<1>2. ASSUME NEW s \in Session, PromptWithoutLock(s) PROVE Alone \/ Else
    BY <1>1, <1>2 DEF PromptWithoutLock
<1>3. ASSUME NEW s \in Session, PromptCheck(s) \/ LockBegin(s) \/ LockAppend(s)
      PROVE  Alone \/ Else
    BY <1>1, <1>3 DEF PromptCheck, LockBegin, LockAppend
<1>4. ASSUME NEW s \in Session, s # t, StopFind(s) \/ SettleBegin(s)
      PROVE  Alone \/ Else
    BY <1>1, <1>4 DEF StopFind, SettleBegin
<1>5. ASSUME NEW s \in Session, SettleAppend(s)
      PROVE  Alone \/ Else
    BY <1>1, <1>5 DEF SettleAppend
<1>6. ASSUME NEW s \in Session, StopWithoutClaim(s) \/ StopReport(s) \/ Kill(s)
      PROVE  Alone \/ Else
    BY <1>1, <1>6 DEF StopWithoutClaim, StopReport, Kill, TurnOver
<1>7. CASE Commit \/ (\E f \in File : Edit(f) \/ Add(f) \/ Remove(f)) \/ UNCHANGED vars
    BY <1>7 DEF Commit, Edit, Add, Remove, vars
<1> QED
    BY <1>2, <1>3, <1>4, <1>5, <1>6, <1>7 DEF Next

\* The sealed part of a claim and its settlements under way agree after any step.
LEMMA SealInvStep == SealInv /\ [Next]_vars => SealInv'
<1> SUFFICES ASSUME SealInv, [Next]_vars PROVE SealInv'
    OBVIOUS
<1>1. Base /\ Base' /\ SealIsFrozen' /\ \A c : Latest(c)' = LatestIn(locks', c)
    BY BaseStep, SealStep DEF SealInv, Latest, LatestIn
<1> DEFINE Reads(s) == pc'[s] \in {"settling", "resettling"} =>
                          job'[s].pre = LatestIn(locks', job'[s].claim).pre
<1>2. ASSUME NEW s \in Session, pc[s] = pc'[s], job[s] = job'[s] PROVE Reads(s)
  <2>1. pc[s] \in {"settling", "resettling"} =>
            job[s].claim \in Claims /\ job[s].pre = Latest(job[s].claim).pre
    BY <1>1 DEF SealInv, Base, PhaseInv
  <2> QED
    BY <1>2, <2>1, PreStays
<1>3. ASSUME NEW s \in Session, StopFind(s) \/ SettleBegin(s) PROVE Reads(s)
  <2>1. PICK c \in Claim \cup {NoClaim} : /\ job'[s] = [claim |-> c, pre |-> Latest(c).pre]
                                         /\ locks' = locks
    <3>1. job \in [Session -> [claim : Claim \cup {NoClaim}, pre : 0 .. MaxCommits]]
        BY <1>1 DEF Base, TypeOK
    <3>2. \E c : /\ job' = [job EXCEPT ![s] = [claim |-> c, pre |-> Latest(c).pre]]
                /\ locks' = locks
        BY <1>3 DEF StopFind, SettleBegin
    <3>3. job'[s].claim \in Claim \cup {NoClaim}
        BY <1>1 DEF Base, TypeOK
    <3> QED
        BY <3>1, <3>2, <3>3
  <2> QED
    BY <2>1, OfTheLog
<1>4. ASSUME NEW s \in Session PROVE Reads(s)
    BY <1>1, <1>2, <1>3, WhoSettles DEF Base
<1> QED
    BY <1>1, <1>4 DEF SealInv

\* There is nothing to keep at first.
LEMMA SealInvInit == Init => SealInv
    BY BaseInit, EmptySeq DEF Init, SealInv, SealIsFrozen

\* A claim is sealed once: whoever settles it, how often, and from however old a
\* reading, its records keep the scope and the HEAD, and none is LOCKED again.
THEOREM SealStaysFrozen == Spec => []SealIsFrozen
<1>1. SealInv => SealIsFrozen
    BY DEF SealInv
<1> QED
    BY <1>1, SealInvInit, SealInvStep, PTL DEF Spec

\* What a list of changes leaves out is gone, and there is as much new in the list.
LEMMA OnlyMovesAreHidden ==
    ASSUME NEW snapshot, NEW changed \in ChangedSince(snapshot),
           NEW lost \in SUBSET (File \ changed), \A f \in lost : work[f] # snapshot[f]
    PROVE  /\ New(snapshot) \subseteq changed
           /\ \A f \in lost : work[f] = 0
           /\ Cardinality(lost) <= Cardinality(New(snapshot))
<1>1. PICK moved \in Renamed(Gone(snapshot), New(snapshot)) :
          changed = ({f \in File : Seen(f) # snapshot[f]} \ moved) \cup Untracked
    BY DEF ChangedSince
<1>2. /\ moved \subseteq Gone(snapshot)
      /\ Cardinality(moved) <= Cardinality(New(snapshot))
    BY DEF Renamed
<1>3. lost \subseteq moved
    BY <1>1 DEF Seen, Untracked
<1>4. New(snapshot) \subseteq changed
    BY <1>1, <1>2 DEF New, Gone
<1>5. \A f \in lost : work[f] = 0
    BY <1>1, <1>2, <1>3 DEF Gone, Seen, Untracked
<1>6. Cardinality(lost) <= Cardinality(New(snapshot))
  <2>1. IsFiniteSet(moved) /\ IsFiniteSet(New(snapshot))
    BY <1>2, ClaimLockAssumption, FS_Subset DEF Gone, New
  <2>2. Cardinality(lost) <= Cardinality(moved)
    BY <1>3, <2>1, FS_Subset
  <2>3. /\ Cardinality(lost) \in Nat /\ Cardinality(moved) \in Nat
        /\ Cardinality(New(snapshot)) \in Nat
    BY <1>3, <2>1, FS_Subset, FS_CardinalityType
  <2> QED
    BY <1>2, <2>2, <2>3
<1> QED
    BY <1>4, <1>5, <1>6

\* VALIDATED, of a claim sealed at a commit, means that outside its scope nothing has
\* come in or been edited since, and that what has gone from there is made up for by
\* new files in the scope, whatever was edited, added, removed and committed.
THEOREM ValidatedOnlyMoves == Spec => ValidatedLosesOnlyMoves
<1> DEFINE OnlyMoves ==
        locks' # locks =>
            LET record == locks'[Len(locks')]
                sealed == commits[record.pre]
                lost   == {f \in File \ record.scope : work[f] # sealed[f]}
            IN  record.status = "VALIDATED" /\ record.pre # 0 =>
                    /\ \A f \in lost : work[f] = 0
                    /\ Cardinality(lost) <= Cardinality(New(sealed) \cap record.scope)
<1>1. ASSUME SealInv, [Next]_vars PROVE OnlyMoves
  <2>1. Base /\ TypeOK /\ locks \in Seq(LockRecord)
    BY <1>1 DEF SealInv, Base, TypeOK
  <2>2. ASSUME NEW s \in Session, LockAppend(s) PROVE OnlyMoves
    <3>1. PICK r \in LockRecord : locks' = Append(locks, r) /\ r.status = "LOCKED"
        BY <2>1, <2>2, LockedRecord
    <3>2. locks'[Len(locks')] = r
        BY <2>1, <3>1, LogOfAppend
    <3> QED
        BY <3>1, <3>2
  <2>3. ASSUME NEW s \in Session, SettleAppend(s) PROVE OnlyMoves
    <3>1. PICK r \in LockRecord, changed \in ChangedFiles(job[s].pre) :
              /\ locks' = Append(locks, r) /\ r.claim = job[s].claim
              /\ r.pre = Latest(r.claim).pre
              /\ r.status = "VALIDATED" => changed \subseteq r.scope
        BY <2>1, <2>3, SettledRecord
    <3>2. locks'[Len(locks')] = r
        BY <2>1, <3>1, LogOfAppend
    <3>3. r.pre = job[s].pre
        BY <1>1, <2>3, <3>1 DEF SealInv, SettleAppend
    <3> DEFINE sealed == commits[r.pre]
               lost   == {f \in File \ r.scope : work[f] # sealed[f]}
    <3>4. ASSUME r.status = "VALIDATED", r.pre # 0
          PROVE  /\ \A f \in lost : work[f] = 0
                 /\ Cardinality(lost) <= Cardinality(New(sealed) \cap r.scope)
      <4>1. changed \in ChangedSince(sealed) /\ changed \subseteq r.scope
        BY <3>1, <3>3, <3>4 DEF ChangedFiles
      <4>2. lost \in SUBSET (File \ changed) /\ \A f \in lost : work[f] # sealed[f]
        BY <4>1
      <4> HIDE DEF lost, sealed
      <4>3. /\ New(sealed) \subseteq changed /\ \A f \in lost : work[f] = 0
            /\ Cardinality(lost) <= Cardinality(New(sealed))
        BY <4>1, <4>2, OnlyMovesAreHidden
      <4>4. New(sealed) \cap r.scope = New(sealed)
        BY <4>1, <4>3
      <4> QED
        BY <4>3, <4>4
    <3> QED
        BY <3>2, <3>4
  <2> QED
    BY <1>1, <2>2, <2>3, LogStep
<1>2. SealInv /\ [Next]_vars => [OnlyMoves]_vars
    BY <1>1
<1> QED
    BY <1>2, SealInvInit, SealInvStep, PTL DEF Spec, ValidatedLosesOnlyMoves

-----------------------------------------------------------------------------
(* The X-Ray *)

\* Once there is a commit, the X-Ray puts every file that differs from HEAD into one of
\* its classes, but for files that are gone, no more of them than it shows new ones, and
\* leaves none dark that a settled claim covers.
THEOREM XrayHidesJustMoves == Spec => []XrayHidesOnlyMoves
<1>1. XrayHidesOnlyMoves
  <2> SUFFICES ASSUME commits # <<>>, NEW changed \in ChangedSince(HEAD)
               PROVE  LET shown  == XrayCovered(changed) \cup XrayWeak(changed)
                                      \cup XrayDark(changed)
                          hidden == {f \in File : work[f] # HEAD[f]} \ shown
                      IN  /\ \A f \in hidden : work[f] = 0
                          /\ Cardinality(hidden) <= Cardinality(New(HEAD) \cap shown)
                          /\ XrayDark(changed) \cap InScopeOf(Status \ {"LOCKED"}) = {}
    BY DEF XrayHidesOnlyMoves, XrayChanges
  <2>1. changed = XrayCovered(changed) \cup XrayWeak(changed) \cup XrayDark(changed)
    BY DEF XrayCovered, XrayWeak, XrayDark
  <2>2. InScopeOf(Status \ {"LOCKED"}) = InScopeOf({"VALIDATED", "SCOPE_DRIFT"})
                                            \cup InScopeOf({"CONTRADICTED", "UNSETTLED"})
    BY DEF InScopeOf, Status
  <2>3. XrayDark(changed) \cap InScopeOf(Status \ {"LOCKED"}) = {}
    BY <2>2 DEF XrayCovered, XrayWeak, XrayDark
  <2> DEFINE hidden == {f \in File : work[f] # HEAD[f]} \ changed
  <2>4. hidden \in SUBSET (File \ changed) /\ \A f \in hidden : work[f] # HEAD[f]
    OBVIOUS
  <2> HIDE DEF hidden
  <2>5. /\ New(HEAD) \subseteq changed /\ \A f \in hidden : work[f] = 0
        /\ Cardinality(hidden) <= Cardinality(New(HEAD))
    BY <2>4, OnlyMovesAreHidden
  <2>6. New(HEAD) \cap changed = New(HEAD)
    BY <2>5
  <2> QED
    BY <2>1, <2>3, <2>5, <2>6 DEF hidden
<1> QED
    BY <1>1, PTL

-----------------------------------------------------------------------------
(* The claim of a turn *)

\* A claim that is settled, or older than another, may be left by the Stop hook.
SafeIn(log, c) == c \notin LockedIn(log) \/ \E d \in ClaimsIn(log) : d > c

\* The Stop hook settles the claim its turn was locked for, unless that was settled
\* meanwhile or is not the newest.
MissInv ==
    /\ Base
    /\ MissedOnlyForANewer
    /\ \A s \in Session : auto[s] # NoClaim =>
          /\ pc[s] = "settling" => job[s].claim = auto[s] \/ SafeIn(locks, auto[s])
          /\ pc[s] = "reporting" => SafeIn(locks, auto[s])

\* What may be left stays so: no claim becomes LOCKED again.
LEMMA SafeStays ==
    ASSUME Base, [Next]_vars, NEW c \in Claims, SafeIn(locks, c)
    PROVE  SafeIn(locks', c)
<1>1. locks \in Seq(LockRecord) /\ Claims = ClaimsIn(locks)
    BY OfTheLog DEF Base, TypeOK
<1>2. CASE locks' = locks
    BY <1>2
<1>3. ASSUME NEW r \in LockRecord, locks' = Append(locks, r),
             r.claim \notin Claims \/ r.status # "LOCKED"
      PROVE  SafeIn(locks', c)
  <2>1. ClaimsIn(locks') = Claims \cup {r.claim}
    BY <1>1, <1>3, LogOfAppend
  <2>2. CASE \E d \in ClaimsIn(locks) : d > c
    BY <1>1, <2>1, <2>2 DEF SafeIn
  <2>3. CASE c \notin LockedIn(locks)
    <3>1. LatestIn(locks', c) = IF c = r.claim THEN r ELSE LatestIn(locks, c)
        BY <1>1, <1>3, <2>1, LatestOfAppend
    <3>2. LatestIn(locks', c).status # "LOCKED"
        BY <1>1, <1>3, <2>3, <3>1 DEF LockedIn
    <3> QED
        BY <3>2 DEF SafeIn, LockedIn
  <2> QED
    BY <2>2, <2>3 DEF SafeIn
<1>4. ASSUME NEW s \in Session, LockAppend(s)
      PROVE  \E r \in LockRecord : locks' = Append(locks, r) /\ r.claim \notin Claims
    BY <1>4, LockedRecord
<1>5. ASSUME NEW s \in Session, SettleAppend(s)
      PROVE  \E r \in LockRecord : locks' = Append(locks, r) /\ r.status # "LOCKED"
    BY <1>5, SettledRecord
<1> QED
    BY <1>2, <1>3, <1>4, <1>5, LogStep

\* Settling a claim makes it one that may be left.
LEMMA SettledIsSafe ==
    ASSUME Base, NEW s \in Session, SettleAppend(s)
    PROVE  SafeIn(locks', job[s].claim)
<1>1. locks \in Seq(LockRecord)
    BY DEF Base, TypeOK
<1>2. PICK r \in LockRecord :
          locks' = Append(locks, r) /\ r.claim = job[s].claim /\ r.status # "LOCKED"
    BY SettledRecord
<1>3. r.claim \in ClaimsIn(locks')
    BY <1>1, <1>2, LogOfAppend
<1>4. LatestIn(locks', r.claim) = r
    BY <1>1, <1>2, <1>3, LatestOfAppend
<1> QED
    BY <1>2, <1>4 DEF SafeIn, LockedIn

\* The Stop hook finds the claim of its turn, or a newer one.
LEMMA FoundOrSafe ==
    ASSUME Base, NEW s \in Session, StopFind(s), NEW c \in Claims
    PROVE  Max(Locked) = c \/ SafeIn(locks, c)
<1>1. PICK k \in Nat : Claims = 1 .. k
    BY DEF Base, PhaseInv
<1>2. Locked # {} /\ Locked \in SUBSET (1 .. k)
    BY <1>1 DEF StopFind, Locked
<1>3. Max(Locked) \in Locked /\ \A d \in Locked : d <= Max(Locked)
    BY <1>2, MaxOfBounded
<1>4. CASE c \in Locked
  <2>1. Max(Locked) \in Nat /\ c \in Nat /\ c <= Max(Locked) /\ Max(Locked) \in Claims
    <3>1. Max(Locked) \in 1 .. k /\ c \in 1 .. k /\ c <= Max(Locked)
        BY <1>2, <1>3, <1>4
    <3> HIDE DEF Claims
    <3> QED
        BY <1>1, <3>1
  <2>2. Max(Locked) = c \/ Max(Locked) > c
    BY <2>1
  <2> QED
    BY <2>1, <2>2, OfTheLog DEF SafeIn
<1>5. CASE c \notin Locked
    BY <1>5, OfTheLog DEF SafeIn
<1> QED
    BY <1>4, <1>5

\* Every step keeps it: a Stop hook finds the claim of its turn or a newer one, and
\* settles what it has found.
LEMMA MissInvStep == MissInv /\ [Next]_vars => MissInv'
<1> SUFFICES ASSUME MissInv, [Next]_vars PROVE MissInv'
    OBVIOUS
<1>1. Base /\ Base' /\ TypeOK /\ PhaseInv /\ Claims \subseteq Claims' /\ NoClaim \notin Claims
  <2>1. Base /\ Base' /\ TypeOK /\ PhaseInv /\ Claims \subseteq Claims'
    BY BaseStep, LogGrows DEF MissInv, Base
  <2> QED
    BY <2>1, ClaimLockAssumption DEF PhaseInv
<1> DEFINE Kept(s) == auto'[s] # NoClaim =>
               /\ pc'[s] = "settling" => job'[s].claim = auto'[s] \/ SafeIn(locks', auto'[s])
               /\ pc'[s] = "reporting" => SafeIn(locks', auto'[s])
<1>2. /\ pc \in [Session -> {"away", "turn", "locking", "relocking", "settling", "resettling",
                            "reporting"}]
      /\ job \in [Session -> [claim : Claim \cup {NoClaim}, pre : 0 .. MaxCommits]]
      /\ auto \in [Session -> Claim \cup {NoClaim}]
      /\ \A s \in Session : auto[s] # NoClaim => auto[s] \in Claims
    BY <1>1 DEF TypeOK, PhaseInv
<1>3. ASSUME NEW t \in Session, pc'[t] = pc[t], job'[t] = job[t], auto'[t] = auto[t]
      PROVE  Kept(t)
    BY <1>1, <1>2, <1>3, SafeStays DEF MissInv
<1>4. ASSUME NEW t \in Session, pc'[t] \notin {"settling", "reporting"} PROVE Kept(t)
    BY <1>4
<1>5. ASSUME NEW t \in Session, StopFind(t) PROVE Kept(t)
  <2>1. /\ pc'[t] = "settling" /\ auto'[t] = auto[t] /\ locks' = locks
        /\ job'[t].claim = Max(Locked)
    BY <1>2, <1>5 DEF StopFind
  <2> QED
    BY <1>1, <1>2, <1>5, <2>1, FoundOrSafe
<1>6. ASSUME NEW t \in Session, SettleAppend(t), pc[t] = "settling" PROVE Kept(t)
  <2>1. pc'[t] = "reporting" /\ auto'[t] = auto[t]
    BY <1>2, <1>6 DEF SettleAppend
  <2>2. auto[t] # NoClaim => job[t].claim = auto[t] \/ SafeIn(locks, auto[t])
    BY <1>6 DEF MissInv
  <2> QED
    BY <1>1, <1>2, <1>6, <2>1, <2>2, SafeStays, SettledIsSafe
<1>7. ASSUME NEW t \in Session PROVE Kept(t)
  <2> DEFINE Alone == pc'[t] = pc[t] /\ job'[t] = job[t] /\ auto'[t] = auto[t]
             Else  == pc'[t] \notin {"settling", "reporting"}
  <2>1. ASSUME NEW s \in Session, PromptWithoutLock(s) \/ PromptCheck(s) \/ LockBegin(s)
        PROVE  Alone \/ Else
    BY <1>2, <2>1 DEF PromptWithoutLock, PromptCheck, LockBegin
  <2>2. ASSUME NEW s \in Session, LockAppend(s) PROVE Alone \/ Else
    BY <1>2, <2>2 DEF LockAppend
  <2>3. ASSUME NEW s \in Session, s # t, StopFind(s) PROVE Alone
    BY <1>2, <2>3 DEF StopFind
  <2>4. ASSUME NEW s \in Session, SettleBegin(s) PROVE Alone \/ Else
    BY <1>2, <2>4 DEF SettleBegin
  <2>5. ASSUME NEW s \in Session, s # t \/ pc[t] # "settling", SettleAppend(s)
        PROVE  Alone \/ Else
    BY <1>2, <2>5 DEF SettleAppend
  <2>6. ASSUME NEW s \in Session, StopWithoutClaim(s) \/ StopReport(s) \/ Kill(s)
        PROVE  Alone \/ Else
    BY <1>2, <2>6 DEF StopWithoutClaim, StopReport, Kill, TurnOver
  <2>7. Commit \/ (\E f \in File : Edit(f) \/ Add(f) \/ Remove(f)) \/ UNCHANGED vars => Alone
    BY DEF Commit, Edit, Add, Remove, vars
  <2>8. Alone => Kept(t)
    BY <1>3
  <2>9. Else => Kept(t)
    BY <1>4
  <2> HIDE DEF Alone, Else, Kept
  <2> QED
    BY <1>5, <1>6, <2>1, <2>2, <2>3, <2>4, <2>5, <2>6, <2>7, <2>8, <2>9 DEF Next
<1>8. MissedOnlyForANewer'
  <2>1. ASSUME NEW s \in Session, StopReport(s)
        PROVE  /\ locks' = locks
               /\ \A c \in missed' : c \in missed \/ \E d \in Claims : d > c
    <3>1. missed' = missed \cup ({auto[s]} \cap Locked) /\ locks' = locks /\ pc[s] = "reporting"
        BY <2>1 DEF StopReport, TurnOver
    <3>2. auto[s] \in Locked => auto[s] # NoClaim
        BY <1>1 DEF Locked
    <3>3. auto[s] \in Locked => \E d \in Claims : d > auto[s]
        BY <3>1, <3>2, OfTheLog DEF MissInv, SafeIn
    <3> QED
        BY <3>1, <3>3
  <2>2. ASSUME NEW s \in Session, StopWithoutClaim(s) PROVE missed' = missed
    <3>1. missed' = missed \cup ({auto[s]} \cap Locked) /\ Locked = {}
        BY <2>2 DEF StopWithoutClaim, TurnOver
    <3> QED
        BY <3>1
  <2>3. \A c \in missed' : c \in missed \/ \E d \in Claims : d > c
    BY <2>1, <2>2
       DEF Next, vars, files, Edit, Add, Remove, Commit, PromptWithoutLock, PromptCheck, LockBegin,
           LockAppend, StopFind, SettleBegin, SettleAppend, Kill
  <2> QED
    BY <1>1, <2>3 DEF MissInv, MissedOnlyForANewer
<1> QED
    BY <1>1, <1>7, <1>8 DEF MissInv

\* The Stop hook leaves the claim of its turn LOCKED only if another was locked after
\* it, whatever other sessions lock and settle meanwhile.
THEOREM MissedIsNotTheNewest == Spec => []MissedOnlyForANewer
<1>1. Init => MissInv
    BY BaseInit DEF Init, MissInv, MissedOnlyForANewer
<1>2. MissInv => MissedOnlyForANewer
    BY DEF MissInv
<1> QED
    BY <1>1, <1>2, MissInvStep, PTL DEF Spec
=============================================================================
