---------------------------- MODULE BundlesProofs ----------------------------
(***************************************************************************)
(* Proofs about Bundles, for any numbers of records, sessions and errata.  *)
(*                                                                         *)
(* The ledger only grows: what an export has read is part of what the next *)
(* one reads.  So the parts of a directory left by exports that may have   *)
(* died are nested, and that is what makes counts worth comparing.         *)
(***************************************************************************)
EXTENDS Bundles, SequenceTheorems, FiniteSetTheorems, WellFoundedInduction, TLAPS

-----------------------------------------------------------------------------
(* Numbers, and the records of a claim *)

\* Of some numbers up to n there is a largest, and Max names it: counted down from n,
\* one of them comes first.
LEMMA MaxOfBounded ==
    ASSUME NEW n \in Nat, NEW S \in SUBSET (1 .. n), S # {}
    PROVE  Max(S) \in S /\ \A x \in S : x <= Max(S)
<1> DEFINE D == {k \in Nat : n - k \in S}
<1>1. \A x \in S : n - x \in D /\ n - (n - x) = x
    OBVIOUS
<1>2. PICK d \in D : \A e \in D : <<e, d>> \notin OpToRel(<, Nat)
    BY <1>1, NatLessThanWellFounded, WFMin
<1>3. \A x \in S : ~(n - x < d)
    BY <1>1, <1>2 DEF OpToRel
<1>4. n - d \in S /\ \A x \in S : x <= n - d
    BY <1>3
<1> QED
    BY <1>4 DEF Max

\* Of some numbers there is a smallest, and Min names it.
LEMMA MinOfNumbers ==
    ASSUME NEW S \in SUBSET Nat, S # {}
    PROVE  Min(S) \in S /\ \A x \in S : Min(S) <= x
<1>1. PICK d \in S : \A e \in S : <<e, d>> \notin OpToRel(<, Nat)
    BY NatLessThanWellFounded, WFMin
<1>2. \A x \in S : ~(x < d) /\ x \in Nat /\ d \in Nat
    BY <1>1 DEF OpToRel
<1>3. \A x \in S : d <= x
    BY <1>2
<1> QED
    BY <1>3 DEF Min

\* The elements are of the type of the sequence.
LEMMA ElementsType ==
    ASSUME NEW S, NEW seq \in Seq(S)
    PROVE  Elements(seq) \subseteq S
    BY ElementOfSeq DEF Elements

\* A recorded claim has a latest record, which is one of its records.
LEMMA LatestIsARecord ==
    ASSUME TypeOK, NEW c \in Recorded
    PROVE  Latest(c) \in ClaimRecord /\ Latest(c).id = c
<1> DEFINE S == {n \in 1 .. Len(records) : records[n].id = c}
<1>1. Len(records) \in Nat
    BY LenProperties DEF TypeOK
<1>2. S # {} /\ S \in SUBSET (1 .. Len(records))
    BY DEF Recorded, Elements, Ids
<1>3. Max(S) \in S
    BY <1>1, <1>2, MaxOfBounded
<1>4. Latest(c) = records[Max(S)]
    BY DEF Latest
<1>5. Latest(c) \in Elements(records) /\ Latest(c).id = c
    BY <1>3, <1>4 DEF Elements
<1> QED
    BY <1>5, ElementsType DEF TypeOK

\* What is said of records.jsonl after an append, line by line.
LEMMA RecordsOfAppend ==
    ASSUME TypeOK, NEW r \in ClaimRecord, records' = Append(records, r)
    PROVE  /\ records' \in Seq(ClaimRecord)
           /\ Len(records') = Len(records) + 1 /\ Len(records) \in Nat
           /\ \A n \in 1 .. Len(records) : records'[n] = records[n]
           /\ records'[Len(records) + 1] = r
           /\ 1 .. Len(records') = (1 .. Len(records)) \cup {Len(records) + 1}
           /\ Recorded' = Recorded \cup {r.id}
<1>1. /\ Len(records') = Len(records) + 1 /\ Len(records) \in Nat
      /\ \A n \in 1 .. Len(records) : records'[n] = records[n]
      /\ records'[Len(records) + 1] = r
      /\ records' \in Seq(ClaimRecord)
    BY AppendProperties, LenProperties DEF TypeOK
<1>2. 1 .. Len(records') = (1 .. Len(records)) \cup {Len(records) + 1}
    BY <1>1
<1>3. Elements(records') = Elements(records) \cup {r}
    BY <1>1, <1>2 DEF Elements
<1>4. Recorded' = Recorded \cup {r.id}
    BY <1>3 DEF Recorded, Ids
<1> QED
    BY <1>1, <1>2, <1>4

\* The record appended is the latest of its claim, and those of the others stay.
LEMMA LatestOfAppend ==
    ASSUME TypeOK, NEW r \in ClaimRecord, records' = Append(records, r)
    PROVE  /\ Latest(r.id)' = r
           /\ \A c \in Recorded : c # r.id => Latest(c)' = Latest(c)
<1>1. /\ Len(records') = Len(records) + 1 /\ Len(records) \in Nat
      /\ \A n \in 1 .. Len(records) : records'[n] = records[n]
      /\ records'[Len(records) + 1] = r
      /\ 1 .. Len(records') = (1 .. Len(records)) \cup {Len(records) + 1}
    BY RecordsOfAppend
<1>2. Latest(r.id)' = r
  <2> DEFINE S == {n \in 1 .. Len(records') : records'[n].id = r.id}
  <2>1. Len(records') \in Nat /\ S \in SUBSET (1 .. Len(records')) /\ Len(records') \in S
    BY <1>1
  <2>2. S # {}
    BY <2>1
  <2>3. Max(S) \in S /\ \A x \in S : x <= Max(S)
    BY <2>1, <2>2, MaxOfBounded
  <2>4. Max(S) \in 1 .. Len(records') /\ Max(S) >= Len(records')
    BY <2>1, <2>3
  <2> HIDE DEF S
  <2>5. Latest(r.id)' = records'[Max(S)]
    BY DEF Latest, S
  <2>6. Max(S) = Len(records')
    BY <1>1, <2>4
  <2> QED
    BY <1>1, <2>5, <2>6
<1>3. ASSUME NEW c \in Recorded, c # r.id PROVE Latest(c)' = Latest(c)
  <2> DEFINE S == {n \in 1 .. Len(records) : records[n].id = c}
  <2>1. {n \in 1 .. Len(records') : records'[n].id = c} = S
    BY <1>1, <1>3
  <2>2. S # {} /\ S \in SUBSET (1 .. Len(records))
    BY <1>3 DEF Recorded, Elements, Ids
  <2>3. Max(S) \in S
    BY <1>1, <2>2, MaxOfBounded
  <2>4. records'[Max(S)] = records[Max(S)]
    BY <1>1, <2>3
  <2> HIDE DEF S
  <2>5. Latest(c) = records[Max(S)]
    BY DEF Latest, S
  <2>6. Latest(c)' = records'[Max(S)]
    BY <2>1 DEF Latest
  <2> QED
    BY <2>4, <2>5, <2>6
<1> QED
    BY <1>2, <1>3

-----------------------------------------------------------------------------
(* The ledger grows *)

\* Ids are given out from 1 on, one to a claim.
LedgerInv ==
    /\ Recorded = 1 .. Cardinality(Recorded)
    /\ Cardinality(Recorded) \in Nat /\ Cardinality(Recorded) <= Len(records)

\* The claims an evidence export would read now.
CleanIds == {c \in Recorded : Latest(c).attributed}

\* A claim is recorded under a new id; everything else written is of a claim there is.
LEMMA RecordClaimFacts ==
    ASSUME TypeOK, LedgerInv, RecordClaim
    PROVE  \E r \in ClaimRecord : /\ records' = Append(records, r) /\ r.id \notin Recorded
                                  /\ r.id = Cardinality(Recorded) + 1
                                  /\ r.status = "PROPOSED"
<1>1. PICK a \in BOOLEAN :
           records' = Append(records, [id |-> NewId, session |-> ended + 1,
                                       status |-> "PROPOSED", attributed |-> a])
    BY DEF RecordClaim
<1> DEFINE r == [id |-> NewId, session |-> ended + 1, status |-> "PROPOSED", attributed |-> a]
<1>2. Len(records) \in Nat /\ Len(records) < MaxRecords /\ ended < MaxSessions
    BY LenProperties DEF TypeOK, RecordClaim
<1>3. NewId \in Id /\ ended + 1 \in Session
    BY <1>2, BundlesAssumption DEF LedgerInv, NewId, Id, Session, TypeOK
<1>4. r \in ClaimRecord
    BY <1>3 DEF ClaimRecord
<1>5. NewId \notin Recorded
  <2> DEFINE k == Cardinality(Recorded)
  <2>1. Recorded = 1 .. k /\ k \in Nat
    BY DEF LedgerInv
  <2> HIDE DEF k
  <2>2. k + 1 \notin Recorded
    BY <2>1
  <2> QED
    BY <2>2 DEF NewId, k
<1>6. r.id = NewId /\ r.status = "PROPOSED"
    OBVIOUS
<1> HIDE DEF r
<1>7. records' = Append(records, r)
    BY <1>1 DEF r
<1> QED
    BY <1>4, <1>5, <1>6, <1>7 DEF NewId

LEMMA SettleClaimFacts ==
    ASSUME TypeOK, SettleClaim
    PROVE  \E r \in ClaimRecord, c \in Recorded :
              /\ records' = Append(records, r) /\ r.id = c
              /\ r.attributed = Latest(c).attributed
<1>1. PICK c \in Recorded, s \in Settled :
          records' = Append(records, [Latest(c) EXCEPT !.status = s])
    BY DEF SettleClaim
<1>2. Latest(c) \in ClaimRecord /\ Latest(c).id = c
    BY LatestIsARecord
<1>3. /\ [Latest(c) EXCEPT !.status = s] \in ClaimRecord
      /\ [Latest(c) EXCEPT !.status = s].id = c
      /\ [Latest(c) EXCEPT !.status = s].attributed = Latest(c).attributed
    BY <1>2 DEF ClaimRecord
<1> QED
    BY <1>1, <1>3

\* What any step does to records.jsonl.
LEMMA RecordsStep ==
    ASSUME TypeOK, LedgerInv, [Next]_vars
    PROVE  \/ records' = records
           \/ \E r \in ClaimRecord :
                 /\ records' = Append(records, r)
                 /\ \/ r.id \notin Recorded /\ r.id = Cardinality(Recorded) + 1
                    \/ r.id \in Recorded /\ r.attributed = Latest(r.id).attributed
<1>1. CASE RecordClaim
    BY <1>1, RecordClaimFacts
<1>2. CASE SettleClaim
    BY <1>2, SettleClaimFacts
<1>3. CASE EndSession \/ AddErratum \/ (\E k \in Kind : Begin(k)) \/ WriteFile \/ Die \/ Keep
    BY <1>3 DEF EndSession, AddErratum, Begin, WriteFile, Die, Keep, ledger
<1>4. CASE UNCHANGED vars
    BY <1>4 DEF vars
<1> QED
    BY <1>1, <1>2, <1>3, <1>4 DEF Next

LEMMA LedgerStep == TypeOK /\ LedgerInv /\ [Next]_vars => LedgerInv'
<1> SUFFICES ASSUME TypeOK, LedgerInv, [Next]_vars PROVE LedgerInv'
    OBVIOUS
<1> DEFINE k == Cardinality(Recorded)
<1>0. Recorded = 1 .. k /\ k \in Nat /\ k <= Len(records) /\ Len(records) \in Nat
    BY LenProperties DEF LedgerInv, TypeOK
<1>1. CASE records' = records
    BY <1>1 DEF LedgerInv, Recorded
<1>2. ASSUME NEW r \in ClaimRecord, records' = Append(records, r), r.id = k + 1
      PROVE  LedgerInv'
  <2>1. Recorded' = Recorded \cup {r.id} /\ Len(records') = Len(records) + 1
    BY <1>2, RecordsOfAppend
  <2> HIDE DEF k
  <2>2. Recorded' = 1 .. k + 1
    BY <1>0, <1>2, <2>1
  <2>3. Cardinality(1 .. k + 1) = k + 1
    BY <1>0, FS_Interval
  <2>4. Cardinality(Recorded') = k + 1
    BY <2>2, <2>3
  <2>5. k + 1 \in Nat /\ k + 1 <= Len(records')
    BY <1>0, <2>1
  <2> QED
    BY <2>2, <2>4, <2>5 DEF LedgerInv
<1>3. ASSUME NEW r \in ClaimRecord, records' = Append(records, r), r.id \in Recorded
      PROVE  LedgerInv'
  <2>1. Recorded' = Recorded \cup {r.id} /\ Len(records') = Len(records) + 1
    BY <1>3, RecordsOfAppend
  <2>2. Recorded' = Recorded
    BY <1>3, <2>1
  <2>3. Cardinality(Recorded') = k
    BY <2>2
  <2> HIDE DEF k
  <2> QED
    BY <1>0, <2>1, <2>2, <2>3 DEF LedgerInv
<1> QED
    BY <1>1, <1>2, <1>3, RecordsStep

\* No step takes a claim from the ledger, nor from those an export reads, nor an
\* erratum.
LEMMA LedgerGrows ==
    ASSUME TypeOK, LedgerInv, [Next]_vars
    PROVE  /\ Recorded \subseteq Recorded' /\ CleanIds \subseteq CleanIds'
           /\ errata \subseteq errata'
<1>1. errata \subseteq errata'
  <2>1. CASE AddErratum
    BY <2>1 DEF AddErratum
  <2>2. CASE RecordClaim \/ SettleClaim \/ EndSession \/ (\E k \in Kind : Begin(k))
             \/ WriteFile \/ Die \/ Keep
    BY <2>2 DEF RecordClaim, SettleClaim, EndSession, Begin, WriteFile, Die, Keep, ledger
  <2>3. CASE UNCHANGED vars
    BY <2>3 DEF vars
  <2> QED
    BY <2>1, <2>2, <2>3 DEF Next
<1>2. CASE records' = records
    BY <1>1, <1>2 DEF Recorded, CleanIds, Latest
<1>3. ASSUME NEW r \in ClaimRecord, records' = Append(records, r),
             r.id \in Recorded => r.attributed = Latest(r.id).attributed
      PROVE  Recorded \subseteq Recorded' /\ CleanIds \subseteq CleanIds'
  <2>1. /\ Recorded' = Recorded \cup {r.id}
        /\ Latest(r.id)' = r
        /\ \A c \in Recorded : c # r.id => Latest(c)' = Latest(c)
    BY <1>3, RecordsOfAppend, LatestOfAppend
  <2>2. ASSUME NEW c \in Recorded, Latest(c).attributed PROVE Latest(c)'.attributed
    BY <1>3, <2>1, <2>2
  <2> QED
    BY <2>1, <2>2 DEF CleanIds
<1> QED
    BY <1>1, <1>2, <1>3, RecordsStep

-----------------------------------------------------------------------------
(* What an export reads *)

\* The records at which a claim of the session is settled.
SettledAt(recs, c, s) ==
    {n \in 1 .. Len(recs) : recs[n].id = c /\ recs[n].session = s /\ recs[n].status \in Settled}

\* The commands of a session are those of the first such records.
LEMMA CommandsFirst ==
    ASSUME NEW s
    PROVE  Commands(s) = {[id |-> c, status |-> records[Min(SettledAt(records, c, s))].status] :
                             c \in {c \in Recorded : SettledAt(records, c, s) # {}}}
    BY DEF Commands, SettledAt

\* A command that was reported is reported by every later receipt of the session, with
\* the same result: its claim was settled first where it was.
LEMMA CommandsGrow ==
    ASSUME TypeOK, LedgerInv, [Next]_vars, NEW s
    PROVE  Commands(s) \subseteq Commands(s)'
<1>1. CASE records' = records
    BY <1>1 DEF Commands, Recorded
<1>2. ASSUME NEW r \in ClaimRecord, records' = Append(records, r)
      PROVE  Commands(s) \subseteq Commands(s)'
  <2>1. /\ Len(records') = Len(records) + 1 /\ Len(records) \in Nat
        /\ \A n \in 1 .. Len(records) : records'[n] = records[n]
        /\ 1 .. Len(records') = (1 .. Len(records)) \cup {Len(records) + 1}
        /\ Recorded' = Recorded \cup {r.id}
    BY <1>2, RecordsOfAppend
  <2>2. ASSUME NEW c \in Recorded, SettledAt(records, c, s) # {}
        PROVE  /\ SettledAt(records', c, s) # {}
               /\ records'[Min(SettledAt(records', c, s))]
                      = records[Min(SettledAt(records, c, s))]
    <3> DEFINE S == SettledAt(records, c, s)
               T == SettledAt(records', c, s)
    <3>1. S \subseteq 1 .. Len(records) /\ S # {}
      BY <2>2 DEF SettledAt
    <3>2. S \subseteq T /\ T \subseteq S \cup {Len(records) + 1}
      BY <2>1 DEF SettledAt
    <3> HIDE DEF S, T
    <3> DEFINE L == Len(records)
    <3>0. L \in Nat /\ L + 1 \in Nat
      BY <2>1
    <3>3. S \in SUBSET Nat /\ T \in SUBSET Nat /\ T # {}
      <4> HIDE DEF L
      <4>1. S \in SUBSET Nat
        BY <3>0, <3>1 DEF L
      <4>2. T \in SUBSET Nat /\ T # {}
        BY <3>0, <3>1, <3>2, <4>1 DEF L
      <4> QED
        BY <4>1, <4>2
    <3>4. Min(S) \in S /\ \A x \in S : Min(S) <= x
      BY <3>1, <3>3, MinOfNumbers
    <3>5. Min(T) \in T /\ \A x \in T : Min(T) <= x
      BY <3>3, MinOfNumbers
    <3>6. Min(S) \in T /\ Min(S) \in 1 .. Len(records)
      BY <3>1, <3>2, <3>4
    <3>7. Min(T) <= Min(S) /\ Min(T) \in Nat
      BY <3>3, <3>5, <3>6
    <3>8. Min(T) # Len(records) + 1
      BY <3>0, <3>6, <3>7
    <3>9. Min(T) \in S
      BY <3>2, <3>5, <3>8
    <3>10. Min(T) = Min(S)
      <4>1. Min(S) \in Nat /\ Min(S) <= Min(T)
        BY <3>3, <3>4, <3>9
      <4> QED
        BY <3>7, <4>1
    <3>11. records'[Min(T)] = records[Min(S)]
      BY <2>1, <3>6, <3>10
    <3> QED
      BY <3>3, <3>11 DEF S, T
  <2>3. Commands(s)' = {[id |-> c, status |-> records'[Min(SettledAt(records', c, s))].status] :
                           c \in {c \in Recorded' : SettledAt(records', c, s) # {}}}
    BY DEF Commands, SettledAt
  <2> QED
    BY <2>1, <2>2, <2>3, CommandsFirst
<1> QED
    BY <1>1, <1>2, RecordsStep

\* The commands of a receipt are commands.
LEMMA CommandsType ==
    ASSUME TypeOK, NEW s
    PROVE  Commands(s) \subseteq [id : Id, status : Settled]
<1> SUFFICES ASSUME NEW c \in Recorded, SettledAt(records, c, s) # {}
             PROVE  [id |-> c, status |-> records[Min(SettledAt(records, c, s))].status]
                        \in [id : Id, status : Settled]
    BY CommandsFirst
<1> DEFINE S == SettledAt(records, c, s)
<1>1. Len(records) \in Nat
    BY LenProperties DEF TypeOK
<1>2. S \in SUBSET Nat /\ S # {}
    BY <1>1 DEF SettledAt
<1>3. Min(S) \in S
    BY <1>2, MinOfNumbers
<1>4. records[Min(S)].status \in Settled
    BY <1>3 DEF SettledAt
<1>5. c \in Id
    BY LatestIsARecord DEF ClaimRecord
<1> QED
    BY <1>4, <1>5

\* The events of an export are one for each claim it reads.
LEMMA CleanEventsFacts ==
    ASSUME TypeOK
    PROVE  /\ CleanEvents \subseteq EngineEvent
           /\ Ids(CleanEvents) = CleanIds
           /\ \A d, e \in CleanEvents : d.id = e.id => d = e
           /\ \A e \in CleanEvents : e.corrected => e.id \in errata
<1> DEFINE Event(c) == [id |-> c, status |-> Latest(c).status, corrected |-> c \in errata]
<1>1. CleanEvents = {Event(c) : c \in CleanIds}
    BY DEF CleanEvents, CleanIds
<1>2. \A c : /\ Event(c).id = c
             /\ Event(c).corrected => c \in errata
    OBVIOUS
<1>3. \A c \in CleanIds : Event(c) \in EngineEvent
    BY LatestIsARecord DEF CleanIds, EngineEvent, ClaimRecord
<1> HIDE DEF Event
<1>4. Ids(CleanEvents) = CleanIds
    BY <1>1, <1>2 DEF Ids
<1>5. \A d, e \in CleanEvents : d.id = e.id => d = e
    BY <1>1, <1>2
<1>6. ASSUME NEW e \in CleanEvents, e.corrected PROVE e.id \in errata
  <2>1. PICK c \in CleanIds : e = Event(c)
    BY <1>1
  <2>2. Event(c).corrected
    BY <1>6, <2>1
  <2> QED
    BY <1>2, <2>1, <2>2
<1>7. CleanEvents \subseteq EngineEvent
    BY <1>1, <1>3
<1> QED
    BY <1>4, <1>5, <1>6, <1>7

\* Few claims, so few of anything that is of claims.
LEMMA ClaimsAreFinite ==
    ASSUME LedgerInv, NEW S \in SUBSET Recorded
    PROVE  IsFiniteSet(S) /\ Cardinality(S) \in Nat
<1> DEFINE k == Cardinality(Recorded)
<1>1. Recorded = 1 .. k /\ k \in Nat
    BY DEF LedgerInv
<1> HIDE DEF k
<1>2. IsFiniteSet(1 .. k)
    BY <1>1, FS_Interval
<1> QED
    BY <1>1, <1>2, FS_Subset, FS_CardinalityType

-----------------------------------------------------------------------------
(* The steps of an export *)

\* There is no export under way, or one that has files left to write.
JobInv ==
    /\ job.kind = "none" => job = NoJob
    /\ done # "none" => job = NoJob

Base == TypeOK /\ LedgerInv /\ JobInv

\* The names of the files.
LEMMA FileNames ==
    /\ \A k \in Kind : Len(Files(k)) = 4
    /\ /\ Files("evidence")[1] = "events.jsonl"  /\ Files("evidence")[2] = "errata.jsonl"
       /\ Files("evidence")[3] = "manifest.json" /\ Files("evidence")[4] = "README.md"
    /\ /\ Files("receipt")[1] = "receipt.md"  /\ Files("receipt")[2] = "receipt.json"
       /\ Files("receipt")[3] = "verify.json" /\ Files("receipt")[4] = "README.md"
    /\ \A k \in Kind, n \in 1 .. 4 : Files(k)[n] \in File
<1>1. \A k \in Kind : Len(Files(k)) = 4
    BY DEF Files
<1>2. \A k \in Kind, n \in 1 .. 4 : Files(k)[n] \in File
    BY <1>1 DEF File
<1> QED
    BY <1>1, <1>2 DEF Files

\* A directory with one more file, or with other content in it.
LEMMA PutFacts ==
    ASSUME NEW d, NEW file, NEW content
    PROVE  /\ Present(Put(d, file, content)) = Present(d) \cup {file}
           /\ Put(d, file, content)[file] = content
           /\ \A f \in Present(d) : f # file => Put(d, file, content)[f] = d[f]
           /\ SetIn(Put(d, file, content), file) = content
           /\ \A f : f # file => SetIn(Put(d, file, content), f) = SetIn(d, f)
    BY DEF Present, Put, SetIn

\* What a step that writes a file does.
LEMMA WriteStep ==
    ASSUME Base, WriteFile
    PROVE  /\ job.kind \in Kind /\ job.next \in 1 .. 4 /\ done = "none"
           /\ \/ /\ Writes(Files(job.kind)[job.next])
                 /\ dir' = Put(dir, Files(job.kind)[job.next], Content(Files(job.kind)[job.next]))
              \/ Skips(Files(job.kind)[job.next]) /\ dir' = dir
           /\ \/ job.next = 4 /\ job' = NoJob /\ done' = job.kind
              \/ /\ job.next \in 1 .. 3 /\ done' = "none"
                 /\ job'.kind = job.kind /\ job'.next = job.next + 1
                 /\ job'.events = job.events /\ job'.receipt = job.receipt
                 /\ job'.errata = IF Files(job.kind)[job.next] = "errata.jsonl"
                                  THEN Cardinality(RelevantErrata) ELSE job.errata
                 /\ job' \in Job
           /\ UNCHANGED <<ledger, users, kept>>
<1> DEFINE file == Files(job.kind)[job.next]
<1>1. job \in Job /\ job # NoJob /\ done = "none"
    BY DEF Base, TypeOK, JobInv, WriteFile
<1>2. job.kind \in Kind /\ job.next \in 1 .. 4 /\ job.errata \in Nat
    BY <1>1 DEF Base, JobInv, Job
<1>3. Len(Files(job.kind)) = 4
    BY <1>2, FileNames
<1>4. /\ \/ Writes(file) /\ dir' = Put(dir, file, Content(file))
         \/ Skips(file) /\ dir' = dir
      /\ UNCHANGED <<ledger, users, kept>>
    BY DEF WriteFile
<1>5. CASE job.next = 4
  <2>1. job' = NoJob /\ done' = job.kind
    BY <1>3, <1>5 DEF WriteFile
  <2> QED
    BY <1>1, <1>2, <1>4, <1>5, <2>1
<1>6. CASE job.next # 4
  <2> DEFINE count == IF file = "errata.jsonl" THEN Cardinality(RelevantErrata) ELSE job.errata
  <2>1. /\ job' = [job EXCEPT !.next = @ + 1,
                              !.errata = IF file = "errata.jsonl"
                                         THEN Cardinality(RelevantErrata) ELSE @]
        /\ done' = done
    BY <1>3, <1>6 DEF WriteFile
  <2>2. Cardinality(RelevantErrata) \in Nat
    BY ClaimsAreFinite DEF Base, TypeOK, RelevantErrata
  <2>3. count \in Nat
    BY <1>2, <2>2
  <2> HIDE DEF file
  <2>4. job' = [job EXCEPT !.next = @ + 1, !.errata = count]
    BY <1>1, <2>1 DEF Job
  <2> HIDE DEF count
  <2>5. job.next \in 1 .. 3 /\ job.next + 1 \in 1 .. 4
    BY <1>2, <1>6
  <2>6. /\ job'.kind = job.kind /\ job'.next = job.next + 1 /\ job'.errata = count
        /\ job'.events = job.events /\ job'.receipt = job.receipt
        /\ job' \in Job
    BY <1>1, <2>3, <2>4, <2>5 DEF Job
  <2> QED
    BY <1>1, <1>2, <1>4, <2>1, <2>5, <2>6 DEF count, file
<1> QED
    BY <1>5, <1>6

\* What a step that begins an export does.
LEMMA BeginStep ==
    ASSUME Base, NEW k \in Kind, Begin(k)
    PROVE  /\ job = NoJob /\ job' \in Job /\ job'.kind = k /\ job'.next = 1
           /\ k = "evidence" => job'.events = CleanEvents
           /\ k = "receipt" => job'.receipt = Receipt
           /\ k \in users' /\ users \subseteq users' /\ users' \subseteq Kind
           /\ done' = "none" /\ UNCHANGED <<ledger, dir, kept>>
<1> DEFINE events == IF k = "evidence" THEN CleanEvents ELSE {}
           receipt == IF k = "receipt" THEN Receipt ELSE NoReceipt
<1>1. NoReceipt \in ReceiptRecord
    BY BundlesAssumption DEF NoReceipt, ReceiptRecord
<1>2. Receipt \in ReceiptRecord
    BY CommandsType DEF Base, TypeOK, Receipt, ReceiptRecord
<1>3. events \in SUBSET EngineEvent /\ receipt \in ReceiptRecord
    BY <1>1, <1>2, CleanEventsFacts DEF Base
<1>4. job' = [NoJob EXCEPT !.kind = k, !.events = events, !.receipt = receipt]
    BY DEF Begin
<1> HIDE DEF events, receipt
<1>5. /\ job'.kind = k /\ job'.next = 1 /\ job'.events = events /\ job'.receipt = receipt
      /\ job' \in Job
  <2>1. job' = [kind |-> k, next |-> 1, events |-> events, errata |-> 0, receipt |-> receipt]
    BY <1>4 DEF NoJob
  <2> QED
    BY <1>3, <2>1 DEF Job
<1>6. /\ k \in users' /\ users \subseteq users' /\ users' \subseteq Kind
      /\ done' = "none" /\ UNCHANGED <<ledger, dir, kept>> /\ job = NoJob
    BY DEF Begin, Base, TypeOK
<1> QED
    BY <1>5, <1>6 DEF events, receipt

\* What the ledger's steps leave alone, and the others too.
LEMMA QuietSteps ==
    ASSUME [Next]_vars
    PROVE  \/ UNCHANGED <<dir, job, users, done, kept>>
           \/ \E k \in Kind : Begin(k)
           \/ WriteFile
           \/ Die /\ job' = NoJob /\ UNCHANGED <<ledger, dir, users, done, kept>>
           \/ Keep /\ UNCHANGED <<ledger, dir, job, users, done>>
    BY DEF Next, RecordClaim, SettleClaim, EndSession, AddErratum, Exports, Die, Keep, vars

\* Every step keeps the types, the ids and the shape of the job.
LEMMA BaseStep == Base /\ [Next]_vars => Base'
<1> SUFFICES ASSUME Base, [Next]_vars PROVE Base'
    OBVIOUS
<1>0. TypeOK /\ LedgerInv /\ JobInv
    BY DEF Base
<1>1. LedgerInv'
    BY <1>0, LedgerStep
<1>2. records' \in Seq(ClaimRecord)
  <2>1. ASSUME NEW r \in ClaimRecord, records' = Append(records, r)
        PROVE  records' \in Seq(ClaimRecord)
    BY <1>0, <2>1, RecordsOfAppend
  <2>2. CASE records' = records
    BY <1>0, <2>2 DEF TypeOK
  <2> QED
    BY <1>0, <2>1, <2>2, RecordsStep
<1>3. ended' \in 0 .. MaxSessions
  <2>1. CASE EndSession
    BY <1>0, <2>1, BundlesAssumption DEF TypeOK, EndSession
  <2>2. CASE RecordClaim \/ SettleClaim \/ AddErratum \/ (\E k \in Kind : Begin(k))
             \/ WriteFile \/ Die \/ Keep
    BY <1>0, <2>2 DEF TypeOK, RecordClaim, SettleClaim, AddErratum, Begin, WriteFile, Die, Keep,
                      ledger
  <2>3. CASE UNCHANGED vars
    BY <1>0, <2>3 DEF TypeOK, vars
  <2> QED
    BY <2>1, <2>2, <2>3 DEF Next
<1>4. errata' \subseteq Recorded'
  <2>1. CASE AddErratum
    BY <1>0, <2>1, LedgerGrows DEF TypeOK, AddErratum
  <2>2. CASE RecordClaim \/ SettleClaim \/ EndSession \/ (\E k \in Kind : Begin(k))
             \/ WriteFile \/ Die \/ Keep
    <3>1. errata' = errata
      BY <2>2 DEF RecordClaim, SettleClaim, EndSession, Begin, WriteFile, Die, Keep, ledger
    <3> QED
      BY <1>0, <3>1, LedgerGrows DEF TypeOK
  <2>3. CASE UNCHANGED vars
    BY <1>0, <2>3 DEF TypeOK, vars, Recorded
  <2> QED
    BY <2>1, <2>2, <2>3 DEF Next
<1> DEFINE Rest == /\ job' \in Job /\ users' \subseteq Kind /\ done' \in Kind \cup {"none"}
                   /\ Present(dir') \subseteq File /\ Present(kept') \subseteq File
                   /\ JobInv'
<1>5. NoJob \in Job
    BY BundlesAssumption DEF NoJob, Job, NoReceipt, ReceiptRecord
<1>6. ASSUME UNCHANGED <<dir, job, users, done, kept>> PROVE Rest
    BY <1>0, <1>6 DEF TypeOK, JobInv, Present
<1>7. ASSUME NEW k \in Kind, Begin(k) PROVE Rest
  <2>1. /\ job' \in Job /\ job'.kind = k /\ users' \subseteq Kind /\ done' = "none"
        /\ UNCHANGED <<dir, kept>>
    BY <1>7, BeginStep
  <2>2. k # "none"
    BY DEF Kind
  <2> QED
    BY <1>0, <2>1, <2>2 DEF TypeOK, JobInv, Present
<1>8. ASSUME WriteFile PROVE Rest
  <2>1. /\ job.kind \in Kind /\ job.next \in 1 .. 4
        /\ UNCHANGED <<users, kept>>
        /\ \/ dir' = Put(dir, Files(job.kind)[job.next], Content(Files(job.kind)[job.next]))
           \/ dir' = dir
        /\ \/ job' = NoJob /\ done' = job.kind
           \/ done' = "none" /\ job'.kind = job.kind /\ job' \in Job
    BY <1>8, WriteStep DEF ledger
  <2>2. Files(job.kind)[job.next] \in File
    BY <2>1, FileNames
  <2>3. Present(dir') \subseteq File
    BY <1>0, <2>1, <2>2, PutFacts DEF TypeOK
  <2>4. job.kind # "none"
    BY <2>1 DEF Kind
  <2>5. JobInv'
    BY <2>1, <2>4 DEF JobInv
  <2>6. job' \in Job /\ done' \in Kind \cup {"none"}
    BY <1>5, <2>1
  <2>7. users' \subseteq Kind /\ Present(kept') \subseteq File
    BY <1>0, <2>1 DEF TypeOK
  <2> QED
    BY <2>3, <2>5, <2>6, <2>7 DEF Present
<1>9. ASSUME job' = NoJob /\ UNCHANGED <<ledger, dir, users, done, kept>> PROVE Rest
    BY <1>0, <1>5, <1>9 DEF TypeOK, JobInv, Present
<1>10. ASSUME Keep /\ UNCHANGED <<ledger, dir, job, users, done>> PROVE Rest
    BY <1>0, <1>10 DEF TypeOK, JobInv, Present, Keep
<1>11. Rest
    BY <1>6, <1>7, <1>8, <1>9, <1>10, QuietSteps
<1> QED
    BY <1>1, <1>2, <1>3, <1>4, <1>11 DEF Base, TypeOK

LEMMA BaseInit == Init => Base
<1> SUFFICES ASSUME Init PROVE Base
    OBVIOUS
<1>1. NoJob \in Job /\ records \in Seq(ClaimRecord) /\ Recorded = {} /\ Len(records) = 0
    BY BundlesAssumption, EmptySeq
       DEF Init, NoJob, Job, NoReceipt, ReceiptRecord, Recorded, Ids, Elements
<1>2. Cardinality(Recorded) = 0
    BY <1>1, FS_EmptySet
<1>3. LedgerInv
    BY <1>1, <1>2 DEF LedgerInv
<1>4. TypeOK
    BY <1>1, BundlesAssumption DEF Init, TypeOK, Present, NoDir
<1> QED
    BY <1>3, <1>4 DEF Base, JobInv, Init

\* The ledger, the directory and the export under way are of their types.
THEOREM TypeCorrect == Spec => []TypeOK
<1>1. Base => TypeOK
    BY DEF Base
<1> QED
    BY <1>1, BaseInit, BaseStep, PTL DEF Spec

-----------------------------------------------------------------------------
(* The parts of a bundle *)

EventsIn(d) == SetIn(d, "events.jsonl")
ErrataIn(d) == SetIn(d, "errata.jsonl")

Corrected(events) == {e.id : e \in {e \in events : e.corrected}}

\* Events as an export of a ledger reads them, the ledger being this far or further.
Sound(events, clean, errs) ==
    /\ \A d, e \in events : d.id = e.id => d = e
    /\ Ids(events) \subseteq clean
    /\ Corrected(events) \subseteq errs

\* A directory exports have left: no file of events or errata is empty, the errata are
\* of claims in it, and the manifest, which may be of an export before, counted some
\* of those.
Bundle(d, clean, errs) ==
    /\ Sound(EventsIn(d), clean, errs)
    /\ "events.jsonl" \in Present(d) => EventsIn(d) # {}
    /\ "errata.jsonl" \in Present(d) => ErrataIn(d) # {}
    /\ ErrataIn(d) \subseteq errs \cap Ids(EventsIn(d))
    /\ "manifest.json" \in Present(d) =>
          /\ d["manifest.json"].counted \subseteq Ids(EventsIn(d))
          /\ d["manifest.json"].events = Cardinality(d["manifest.json"].counted)

DirInv ==
    /\ Bundle(dir, CleanIds, errata)
    /\ {"receipt.md", "receipt.json"} \cap Present(dir) # {} => "receipt" \in users

\* The copy that was kept has nothing the directory does not have.
KeptInv ==
    /\ Present(kept) \subseteq Present(dir)
    /\ Ids(EventsIn(kept)) \subseteq Ids(EventsIn(dir))
    /\ "manifest.json" \in Present(kept) =>
          kept["manifest.json"].events = Cardinality(Ids(EventsIn(kept)))

\* An evidence export has read all that is in the directory, and what it has written
\* by now is there.
EvidenceInv ==
    job.kind = "evidence" =>
        /\ Sound(job.events, CleanIds, errata)
        /\ Ids(EventsIn(dir)) \subseteq Ids(job.events)
        /\ job.next >= 2 => EventsIn(dir) = job.events
        /\ job.next >= 3 => /\ Corrected(job.events) \subseteq ErrataIn(dir)
                            /\ job.errata = Cardinality(ErrataIn(dir))
        /\ job.next = 4 => /\ "manifest.json" \in Present(dir)
                           /\ dir["manifest.json"].events = Cardinality(Ids(job.events))
                           /\ dir["manifest.json"].errata = job.errata

ReceiptInv ==
    job.kind = "receipt" =>
        /\ "receipt" \in users
        /\ job.next >= 2 => "receipt.md" \in Present(dir) /\ dir["receipt.md"] = job.receipt
        /\ job.next >= 3 => "receipt.json" \in Present(dir) /\ dir["receipt.json"] = job.receipt

\* What an export that ran to its end has left.
DoneInv ==
    /\ done = "evidence" =>
          /\ {"manifest.json", "README.md"} \subseteq Present(dir)
          /\ dir["manifest.json"].events = Cardinality(Ids(EventsIn(dir)))
          /\ dir["manifest.json"].errata = Cardinality(ErrataIn(dir))
          /\ Corrected(EventsIn(dir)) \subseteq ErrataIn(dir)
    /\ done = "receipt" =>
          /\ {"receipt.md", "receipt.json", "README.md"} \subseteq Present(dir)
          /\ dir["receipt.json"] = dir["receipt.md"]

PartsInv == DirInv /\ KeptInv /\ EvidenceInv /\ ReceiptInv /\ DoneInv

\* What was sound stays so as the ledger grows.
LEMMA SoundStays ==
    ASSUME NEW events, NEW c, NEW d, NEW f, NEW g, c \subseteq d, f \subseteq g,
           Sound(events, c, f)
    PROVE  Sound(events, d, g)
    BY DEF Sound

LEMMA BundleStays ==
    ASSUME NEW b, NEW c, NEW d, NEW f, NEW g, c \subseteq d, f \subseteq g, Bundle(b, c, f)
    PROVE  Bundle(b, d, g)
    BY SoundStays DEF Bundle

\* Sound events are as many as their claims.
LEMMA IdsCounted ==
    ASSUME NEW events, NEW c, NEW f, Sound(events, c, f), IsFiniteSet(Ids(events))
    PROVE  Cardinality(events) = Cardinality(Ids(events))
<1> DEFINE id == [e \in events |-> e.id]
<1>1. \A i \in Ids(events) : \E e \in events : id[e] = i
    BY DEF Ids
<1>2. id \in [events -> Ids(events)]
    BY DEF Ids
<1>3. \A d, e \in events : id[d] = id[e] => d = e
    BY DEF Sound
<1> HIDE DEF id
<1>4. id \in Injection(events, Ids(events)) /\ id \in Surjection(events, Ids(events))
    BY <1>1, <1>2, <1>3 DEF Injection, Surjection, IsInjective
<1> QED
    BY <1>4, FS_Injection

\* A step that leaves the directory and the exports alone keeps the parts together.
LEMMA PartsStay ==
    ASSUME Base, [Next]_vars, PartsInv, UNCHANGED <<dir, users, kept>>,
           \/ UNCHANGED <<job, done>>
           \/ job' = NoJob /\ done' = done
    PROVE  PartsInv'
<1>1. CleanIds \subseteq CleanIds' /\ errata \subseteq errata'
    BY LedgerGrows DEF Base
<1>2. DirInv'
  <2>1. Bundle(dir, CleanIds', errata')
    BY <1>1, BundleStays DEF PartsInv, DirInv
  <2> QED
    BY <2>1 DEF PartsInv, DirInv
<1>3. KeptInv'
    BY DEF PartsInv, KeptInv
<1>4. EvidenceInv' /\ ReceiptInv'
  <2>1. CASE job' = NoJob
    BY <2>1 DEF EvidenceInv, ReceiptInv, NoJob
  <2>2. CASE job' = job
    <3>1. job.kind = "evidence" => Sound(job.events, CleanIds', errata')
      BY <1>1, SoundStays DEF PartsInv, EvidenceInv
    <3> QED
      BY <2>2, <3>1 DEF PartsInv, EvidenceInv, ReceiptInv
  <2> QED
    BY <2>1, <2>2
<1>5. DoneInv'
    BY DEF PartsInv, DoneInv
<1> QED
    BY <1>2, <1>3, <1>4, <1>5 DEF PartsInv

\* An export that begins has read all that is in the directory.
LEMMA PartsBegun ==
    ASSUME Base, [Next]_vars, PartsInv, NEW k \in Kind, Begin(k)
    PROVE  PartsInv'
<1>0. TypeOK
    BY DEF Base
<1>1. /\ job'.kind = k /\ job'.next = 1 /\ k \in users' /\ users \subseteq users'
      /\ k = "evidence" => job'.events = CleanEvents
      /\ done' = "none" /\ UNCHANGED <<ledger, dir, kept>>
    BY BeginStep
<1>2. CleanIds' = CleanIds /\ errata' = errata
    BY <1>1 DEF ledger, CleanIds, Recorded, Latest
<1>3. Ids(CleanEvents) = CleanIds /\ Sound(CleanEvents, CleanIds, errata)
    BY <1>0, CleanEventsFacts DEF Sound, Corrected
<1>4. DirInv'
    BY <1>1, <1>2 DEF PartsInv, DirInv
<1>5. KeptInv'
    BY <1>1 DEF PartsInv, KeptInv
<1>6. EvidenceInv'
  <2> SUFFICES ASSUME k = "evidence" PROVE EvidenceInv'
    BY <1>1 DEF EvidenceInv
  <2>1. Sound(job'.events, CleanIds', errata')
    BY <1>1, <1>2, <1>3
  <2>2. Ids(EventsIn(dir)) \subseteq Ids(job'.events)
    BY <1>1, <1>3 DEF PartsInv, DirInv, Bundle, Sound
  <2> QED
    BY <1>1, <2>1, <2>2 DEF EvidenceInv
<1>7. ReceiptInv'
    BY <1>1 DEF ReceiptInv
<1>8. DoneInv'
    BY <1>1 DEF DoneInv
<1> QED
    BY <1>4, <1>5, <1>6, <1>7, <1>8 DEF PartsInv

\* The copy is of a directory whose export has ended.
LEMMA PartsKept ==
    ASSUME Base, [Next]_vars, PartsInv, Keep
    PROVE  PartsInv'
<1>1. kept' = dir /\ done = "evidence" /\ UNCHANGED <<ledger, dir, job, users, done>>
    BY DEF Keep
<1>2. CleanIds' = CleanIds /\ errata' = errata
    BY <1>1 DEF ledger, CleanIds, Recorded, Latest
<1>3. KeptInv'
    BY <1>1 DEF PartsInv, DoneInv, KeptInv
<1>4. DirInv' /\ EvidenceInv' /\ ReceiptInv' /\ DoneInv'
    BY <1>1, <1>2 DEF PartsInv, DirInv, EvidenceInv, ReceiptInv, DoneInv
<1> QED
    BY <1>3, <1>4 DEF PartsInv

\* What each file gets.
LEMMA Contents ==
    /\ Content("events.jsonl") = job.events /\ Content("errata.jsonl") = RelevantErrata
    /\ Content("manifest.json") = [events |-> Cardinality(job.events), errata |-> job.errata,
                                   counted |-> Ids(job.events)]
    /\ Content("receipt.md") = job.receipt /\ Content("receipt.json") = job.receipt
    BY DEF Content

\* A bundle in which another file is put.
LEMMA BundleOtherFile ==
    ASSUME NEW d, NEW file, NEW content, NEW c, NEW f, Bundle(d, c, f),
           file \notin {"events.jsonl", "errata.jsonl", "manifest.json"}
    PROVE  /\ Bundle(Put(d, file, content), c, f)
           /\ EventsIn(Put(d, file, content)) = EventsIn(d)
           /\ ErrataIn(Put(d, file, content)) = ErrataIn(d)
<1> DEFINE e == Put(d, file, content)
<1>1. /\ Present(e) = Present(d) \cup {file}
      /\ \A g \in Present(d) : g # file => e[g] = d[g]
      /\ \A g : g # file => SetIn(e, g) = SetIn(d, g)
    BY PutFacts
<1> HIDE DEF e
<1>2. EventsIn(e) = EventsIn(d) /\ ErrataIn(e) = ErrataIn(d)
    BY <1>1 DEF EventsIn, ErrataIn
<1>3. Bundle(e, c, f)
    BY <1>1, <1>2 DEF Bundle
<1> QED
    BY <1>2, <1>3 DEF e

\* The events are written, or there are none and the file is not there.
LEMMA EventsWritten ==
    ASSUME Base, PartsInv, WriteFile, job.kind = "evidence", job.next = 1
    PROVE  DirInv' /\ KeptInv' /\ EventsIn(dir)' = job.events
<1>1. /\ \/ job.events # {} /\ dir' = Put(dir, "events.jsonl", job.events)
         \/ job.events = {} /\ dir' = dir
      /\ UNCHANGED <<ledger, users, kept>>
    BY WriteStep, FileNames, Contents DEF Writes, Skips
<1>2. /\ Bundle(dir, CleanIds, errata) /\ Sound(job.events, CleanIds, errata)
      /\ Ids(EventsIn(dir)) \subseteq Ids(job.events)
    BY DEF PartsInv, DirInv, EvidenceInv
<1>3. CleanIds' = CleanIds /\ errata' = errata
    BY <1>1 DEF ledger, CleanIds, Recorded, Latest
<1>4. CASE job.events # {} /\ dir' = Put(dir, "events.jsonl", job.events)
  <2>1. /\ Present(dir') = Present(dir) \cup {"events.jsonl"}
        /\ \A g \in Present(dir) : g # "events.jsonl" => dir'[g] = dir[g]
        /\ EventsIn(dir') = job.events /\ ErrataIn(dir') = ErrataIn(dir)
    BY <1>4, PutFacts DEF EventsIn, ErrataIn
  <2>2. Bundle(dir', CleanIds, errata)
    BY <1>2, <1>4, <2>1 DEF Bundle
  <2>3. DirInv'
    BY <1>1, <1>3, <2>1, <2>2 DEF PartsInv, DirInv
  <2>4. KeptInv'
    BY <1>1, <1>2, <2>1 DEF PartsInv, KeptInv
  <2> QED
    BY <2>1, <2>3, <2>4
<1>5. CASE job.events = {} /\ dir' = dir
  <2>1. EventsIn(dir) = {}
    BY <1>2, <1>5 DEF Ids
  <2>2. DirInv' /\ KeptInv'
    BY <1>1, <1>3, <1>5 DEF PartsInv, DirInv, KeptInv
  <2>3. EventsIn(dir') = EventsIn(dir)
    BY <1>5
  <2> QED
    BY <1>5, <2>1, <2>2, <2>3
<1> QED
    BY <1>1, <1>4, <1>5

\* The errata are written, or none is of a claim in the bundle and the file is not there.
LEMMA ErrataWritten ==
    ASSUME Base, PartsInv, WriteFile, job.kind = "evidence", job.next = 2
    PROVE  /\ DirInv' /\ KeptInv'
           /\ EventsIn(dir)' = job.events /\ ErrataIn(dir)' = RelevantErrata
           /\ Corrected(job.events) \subseteq RelevantErrata
<1>1. /\ \/ RelevantErrata # {} /\ dir' = Put(dir, "errata.jsonl", RelevantErrata)
         \/ RelevantErrata = {} /\ dir' = dir
      /\ UNCHANGED <<ledger, users, kept>>
    BY WriteStep, FileNames, Contents DEF Writes, Skips
<1>2. /\ Bundle(dir, CleanIds, errata) /\ Sound(job.events, CleanIds, errata)
      /\ EventsIn(dir) = job.events
    BY DEF PartsInv, DirInv, EvidenceInv
<1>3. CleanIds' = CleanIds /\ errata' = errata
    BY <1>1 DEF ledger, CleanIds, Recorded, Latest
<1>4. RelevantErrata = errata \cap Ids(job.events)
    BY DEF RelevantErrata
<1>5. Corrected(job.events) \subseteq RelevantErrata
    BY <1>2, <1>4 DEF Sound, Corrected, Ids
<1> HIDE DEF RelevantErrata
<1>6. CASE RelevantErrata # {} /\ dir' = Put(dir, "errata.jsonl", RelevantErrata)
  <2>1. /\ Present(dir') = Present(dir) \cup {"errata.jsonl"}
        /\ \A g \in Present(dir) : g # "errata.jsonl" => dir'[g] = dir[g]
        /\ EventsIn(dir') = EventsIn(dir) /\ ErrataIn(dir') = RelevantErrata
    BY <1>6, PutFacts DEF EventsIn, ErrataIn
  <2>2. Bundle(dir', CleanIds, errata)
    BY <1>2, <1>4, <1>6, <2>1 DEF Bundle
  <2>3. DirInv'
    BY <1>1, <1>3, <2>1, <2>2 DEF PartsInv, DirInv
  <2>4. KeptInv'
    BY <1>1, <2>1 DEF PartsInv, KeptInv
  <2> QED
    BY <1>2, <1>5, <2>1, <2>3, <2>4
<1>7. CASE RelevantErrata = {} /\ dir' = dir
  <2>1. ErrataIn(dir) = RelevantErrata
    BY <1>2, <1>4, <1>7 DEF Bundle
  <2>2. DirInv' /\ KeptInv'
    BY <1>1, <1>3, <1>7 DEF PartsInv, DirInv, KeptInv
  <2>3. EventsIn(dir') = job.events /\ ErrataIn(dir') = RelevantErrata
    BY <1>2, <1>7, <2>1
  <2> QED
    BY <1>5, <2>2, <2>3
<1> QED
    BY <1>1, <1>6, <1>7

\* The manifest counts the events that are in the directory.
LEMMA ManifestWritten ==
    ASSUME Base, PartsInv, WriteFile, job.kind = "evidence", job.next = 3
    PROVE  /\ DirInv' /\ KeptInv'
           /\ EventsIn(dir)' = job.events /\ ErrataIn(dir)' = ErrataIn(dir)
           /\ "manifest.json" \in Present(dir')
           /\ dir'["manifest.json"].events = Cardinality(Ids(job.events))
           /\ dir'["manifest.json"].errata = job.errata
<1> DEFINE manifest == [events |-> Cardinality(job.events), errata |-> job.errata,
                        counted |-> Ids(job.events)]
<1>1. dir' = Put(dir, "manifest.json", manifest) /\ UNCHANGED <<ledger, users, kept>>
    BY WriteStep, FileNames, Contents DEF Writes, Skips
<1>2. /\ Bundle(dir, CleanIds, errata) /\ Sound(job.events, CleanIds, errata)
      /\ EventsIn(dir) = job.events
    BY DEF PartsInv, DirInv, EvidenceInv
<1>3. CleanIds' = CleanIds /\ errata' = errata
    BY <1>1 DEF ledger, CleanIds, Recorded, Latest
<1>4. Cardinality(job.events) = Cardinality(Ids(job.events))
  <2>1. Ids(job.events) \subseteq Recorded
    BY <1>2 DEF Sound, CleanIds
  <2>2. IsFiniteSet(Ids(job.events))
    BY <2>1, ClaimsAreFinite DEF Base
  <2> QED
    BY <1>2, <2>2, IdsCounted
<1>5. /\ manifest.events = Cardinality(Ids(job.events)) /\ manifest.errata = job.errata
      /\ manifest.counted = Ids(job.events)
    BY <1>4
<1> HIDE DEF manifest
<1>6. /\ Present(dir') = Present(dir) \cup {"manifest.json"}
      /\ dir'["manifest.json"] = manifest
      /\ \A g \in Present(dir) : g # "manifest.json" => dir'[g] = dir[g]
      /\ EventsIn(dir') = EventsIn(dir) /\ ErrataIn(dir') = ErrataIn(dir)
    BY <1>1, PutFacts DEF EventsIn, ErrataIn
<1>7. Bundle(dir', CleanIds, errata)
    BY <1>2, <1>5, <1>6 DEF Bundle
<1>8. DirInv'
    BY <1>1, <1>3, <1>6, <1>7 DEF PartsInv, DirInv
<1>9. KeptInv'
    BY <1>1, <1>6 DEF PartsInv, KeptInv
<1> QED
    BY <1>2, <1>5, <1>6, <1>8, <1>9

\* A file the import does not read: those of a receipt, and README.md.
LEMMA OtherWritten ==
    ASSUME Base, PartsInv, WriteFile,
           Files(job.kind)[job.next] \notin {"events.jsonl", "errata.jsonl", "manifest.json"}
    PROVE  /\ DirInv' /\ KeptInv'
           /\ EventsIn(dir)' = EventsIn(dir) /\ ErrataIn(dir)' = ErrataIn(dir)
           /\ \A f \in Present(dir) : f # Files(job.kind)[job.next] => dir'[f] = dir[f]
           /\ Present(dir) \subseteq Present(dir')
<1> DEFINE file == Files(job.kind)[job.next]
<1>1. /\ dir' = Put(dir, file, Content(file)) \/ dir' = dir
      /\ job.kind \in Kind /\ job.next \in 1 .. 4 /\ UNCHANGED <<ledger, users, kept>>
    BY WriteStep
<1>2. CleanIds' = CleanIds /\ errata' = errata
    BY <1>1 DEF ledger, CleanIds, Recorded, Latest
<1>3. file \in {"receipt.md", "receipt.json"} => "receipt" \in users
    BY <1>1, FileNames DEF PartsInv, ReceiptInv, Kind
<1>4. Bundle(dir, CleanIds, errata)
    BY DEF PartsInv, DirInv
<1>5. file \notin {"events.jsonl", "errata.jsonl", "manifest.json"}
    OBVIOUS
<1> HIDE DEF file
<1>6. CASE dir' = Put(dir, file, Content(file))
  <2>1. /\ Bundle(dir', CleanIds, errata)
        /\ EventsIn(dir') = EventsIn(dir) /\ ErrataIn(dir') = ErrataIn(dir)
    BY <1>4, <1>5, <1>6, BundleOtherFile
  <2>2. /\ Present(dir') = Present(dir) \cup {file}
        /\ \A f \in Present(dir) : f # file => dir'[f] = dir[f]
    BY <1>6, PutFacts
  <2>3. DirInv'
    BY <1>1, <1>2, <1>3, <2>1, <2>2 DEF PartsInv, DirInv
  <2>4. KeptInv'
    BY <1>1, <2>1, <2>2 DEF PartsInv, KeptInv
  <2> QED
    BY <2>1, <2>2, <2>3, <2>4 DEF file
<1>7. CASE dir' = dir
    BY <1>1, <1>2, <1>7 DEF PartsInv, DirInv, KeptInv
<1> QED
    BY <1>1, <1>6, <1>7

\* Writing a file of an evidence bundle keeps the parts together.
LEMMA PartsOfEvidence ==
    ASSUME Base, PartsInv, WriteFile, job.kind = "evidence"
    PROVE  PartsInv'
<1>0. /\ job.next \in 1 .. 4 /\ done = "none" /\ UNCHANGED <<ledger, users, kept>>
      /\ \/ job.next = 4 /\ job' = NoJob /\ done' = "evidence"
         \/ /\ job.next \in 1 .. 3 /\ done' = "none"
            /\ job'.kind = "evidence" /\ job'.next = job.next + 1 /\ job'.events = job.events
            /\ job'.errata = IF Files("evidence")[job.next] = "errata.jsonl"
                             THEN Cardinality(RelevantErrata) ELSE job.errata
    BY WriteStep
<1>1. CleanIds' = CleanIds /\ errata' = errata
    BY <1>0 DEF ledger, CleanIds, Recorded, Latest
<1>2. Sound(job.events, CleanIds, errata)
    BY DEF PartsInv, EvidenceInv
<1>3. CASE job.next = 1
  <2>1. DirInv' /\ KeptInv' /\ EventsIn(dir)' = job.events
    BY <1>3, EventsWritten
  <2>2. job'.kind = "evidence" /\ job'.next = 2 /\ job'.events = job.events /\ done' = "none"
    BY <1>0, <1>3
  <2>3. EvidenceInv'
    BY <1>1, <1>2, <2>1, <2>2 DEF EvidenceInv
  <2> QED
    BY <2>1, <2>2, <2>3 DEF PartsInv, ReceiptInv, DoneInv
<1>4. CASE job.next = 2
  <2>1. /\ DirInv' /\ KeptInv'
        /\ EventsIn(dir)' = job.events /\ ErrataIn(dir)' = RelevantErrata
        /\ Corrected(job.events) \subseteq RelevantErrata
    BY <1>4, ErrataWritten
  <2>2. /\ job'.kind = "evidence" /\ job'.next = 3 /\ job'.events = job.events /\ done' = "none"
        /\ job'.errata = Cardinality(RelevantErrata)
    BY <1>0, <1>4, FileNames
  <2>3. EvidenceInv'
    BY <1>1, <1>2, <2>1, <2>2 DEF EvidenceInv
  <2> QED
    BY <2>1, <2>2, <2>3 DEF PartsInv, ReceiptInv, DoneInv
<1>5. CASE job.next = 3
  <2>1. /\ DirInv' /\ KeptInv'
        /\ EventsIn(dir)' = job.events /\ ErrataIn(dir)' = ErrataIn(dir)
        /\ "manifest.json" \in Present(dir')
        /\ dir'["manifest.json"].events = Cardinality(Ids(job.events))
        /\ dir'["manifest.json"].errata = job.errata
    BY <1>5, ManifestWritten
  <2>2. /\ job'.kind = "evidence" /\ job'.next = 4 /\ job'.events = job.events /\ done' = "none"
        /\ job'.errata = job.errata
    BY <1>0, <1>5, FileNames
  <2>3. Corrected(job.events) \subseteq ErrataIn(dir) /\ job.errata = Cardinality(ErrataIn(dir))
    BY <1>5 DEF PartsInv, EvidenceInv
  <2>4. EvidenceInv'
    BY <1>1, <1>2, <2>1, <2>2, <2>3 DEF EvidenceInv
  <2> QED
    BY <2>1, <2>2, <2>4 DEF PartsInv, ReceiptInv, DoneInv
<1>6. CASE job.next = 4
  <2>1. Files(job.kind)[job.next] = "README.md"
    BY <1>6, FileNames
  <2>2. /\ DirInv' /\ KeptInv'
        /\ EventsIn(dir)' = EventsIn(dir) /\ ErrataIn(dir)' = ErrataIn(dir)
        /\ \A f \in Present(dir) : f # "README.md" => dir'[f] = dir[f]
        /\ Present(dir) \subseteq Present(dir')
    BY <2>1, OtherWritten
  <2>3. "README.md" \in Present(dir')
    <3>1. ~Skips("README.md")
      BY DEF Skips
    <3> QED
      BY <2>1, <3>1, WriteStep, PutFacts
  <2>4. job' = NoJob /\ done' = "evidence"
    BY <1>0, <1>6
  <2>5. /\ EventsIn(dir) = job.events /\ Corrected(job.events) \subseteq ErrataIn(dir)
        /\ "manifest.json" \in Present(dir)
        /\ dir["manifest.json"].events = Cardinality(Ids(job.events))
        /\ dir["manifest.json"].errata = Cardinality(ErrataIn(dir))
    BY <1>6 DEF PartsInv, EvidenceInv
  <2>6. DoneInv'
    BY <2>2, <2>3, <2>4, <2>5 DEF DoneInv
  <2>7. EvidenceInv' /\ ReceiptInv'
    BY <2>4 DEF EvidenceInv, ReceiptInv, NoJob
  <2> QED
    BY <2>2, <2>6, <2>7 DEF PartsInv
<1> QED
    BY <1>0, <1>3, <1>4, <1>5, <1>6

\* So does writing a file of a receipt bundle.
LEMMA PartsOfReceipt ==
    ASSUME Base, PartsInv, WriteFile, job.kind = "receipt"
    PROVE  PartsInv'
<1> DEFINE file == Files(job.kind)[job.next]
<1>0. /\ job.next \in 1 .. 4 /\ UNCHANGED users
      /\ \/ job.next = 4 /\ job' = NoJob /\ done' = "receipt"
         \/ /\ job.next \in 1 .. 3 /\ done' = "none"
            /\ job'.kind = "receipt" /\ job'.next = job.next + 1 /\ job'.receipt = job.receipt
      /\ dir' = Put(dir, file, Content(file)) \/ (Skips(file) /\ dir' = dir)
    BY WriteStep
<1>1. /\ file = IF job.next = 1 THEN "receipt.md" ELSE IF job.next = 2 THEN "receipt.json"
                ELSE IF job.next = 3 THEN "verify.json" ELSE "README.md"
      /\ file \notin {"events.jsonl", "errata.jsonl", "manifest.json"}
    BY <1>0, FileNames
<1>2. /\ DirInv' /\ KeptInv'
      /\ \A f \in Present(dir) : f # file => dir'[f] = dir[f]
      /\ Present(dir) \subseteq Present(dir')
    BY <1>1, OtherWritten
<1> HIDE DEF file
<1>3. ~Skips(file) => file \in Present(dir') /\ dir'[file] = Content(file)
    BY <1>0, PutFacts
<1>4. job.next # 3 => ~Skips(file)
    BY <1>0, <1>1 DEF Skips
<1>5. job.next >= 2 => /\ "receipt.md" \in Present(dir') /\ dir'["receipt.md"] = job.receipt
    BY <1>0, <1>1, <1>2 DEF PartsInv, ReceiptInv
<1>6. job.next = 1 => "receipt.md" \in Present(dir') /\ dir'["receipt.md"] = job.receipt
    BY <1>1, <1>3, <1>4, Contents
<1>7. job.next = 2 => "receipt.json" \in Present(dir') /\ dir'["receipt.json"] = job.receipt
    BY <1>1, <1>3, <1>4, Contents
<1>8. job.next >= 3 => "receipt.json" \in Present(dir') /\ dir'["receipt.json"] = job.receipt
    BY <1>0, <1>1, <1>2 DEF PartsInv, ReceiptInv
<1>9. "receipt" \in users'
    BY <1>0 DEF PartsInv, ReceiptInv
<1>10. ReceiptInv'
    BY <1>0, <1>5, <1>6, <1>7, <1>8, <1>9 DEF ReceiptInv, NoJob
<1>11. EvidenceInv'
    BY <1>0 DEF EvidenceInv, NoJob
<1>12. DoneInv'
  <2>1. job.next = 4 => "README.md" \in Present(dir')
    BY <1>1, <1>3, <1>4
  <2> QED
    BY <1>0, <1>5, <1>8, <2>1 DEF DoneInv
<1> QED
    BY <1>2, <1>10, <1>11, <1>12 DEF PartsInv

ExportInv == Base /\ PartsInv

LEMMA ExportStep == ExportInv /\ [Next]_vars => ExportInv'
<1> SUFFICES ASSUME ExportInv, [Next]_vars PROVE ExportInv'
    OBVIOUS
<1>0. Base /\ PartsInv /\ Base'
    BY BaseStep DEF ExportInv
<1>1. WriteFile => job.kind \in Kind
    BY <1>0, WriteStep
<1>2. WriteFile => PartsInv'
    BY <1>0, <1>1, PartsOfEvidence, PartsOfReceipt DEF Kind
<1>3. PartsInv'
    BY <1>0, <1>2, PartsStay, PartsBegun, PartsKept, QuietSteps
<1> QED
    BY <1>0, <1>3 DEF ExportInv

LEMMA ExportInit == Init => ExportInv
<1> SUFFICES ASSUME Init PROVE PartsInv
    BY BaseInit DEF ExportInv
<1>1. /\ dir = NoDir /\ kept = NoDir /\ job = NoJob /\ done = "none"
      /\ Present(NoDir) = {} /\ job.kind = "none"
    BY DEF Init, Present, NoDir, NoJob
<1>2. EventsIn(NoDir) = {} /\ ErrataIn(NoDir) = {}
    BY DEF EventsIn, ErrataIn, SetIn, NoDir
<1>3. Sound({}, CleanIds, errata)
    BY DEF Sound, Ids, Corrected
<1>4. DirInv
    BY <1>1, <1>2, <1>3 DEF DirInv, Bundle
<1> QED
    BY <1>1, <1>2, <1>4 DEF PartsInv, KeptInv, EvidenceInv, ReceiptInv, DoneInv

\* The events in the directory are finitely many, one of a claim.
LEMMA EventsCounted ==
    ASSUME ExportInv
    PROVE  /\ IsFiniteSet(Ids(EventsIn(dir)))
           /\ Cardinality(EventsIn(dir)) = Cardinality(Ids(EventsIn(dir)))
<1>1. Sound(EventsIn(dir), CleanIds, errata)
    BY DEF ExportInv, PartsInv, DirInv, Bundle
<1>2. Ids(EventsIn(dir)) \subseteq Recorded
    BY <1>1 DEF Sound, CleanIds
<1>3. IsFiniteSet(Ids(EventsIn(dir)))
    BY <1>2, ClaimsAreFinite DEF ExportInv, Base
<1> QED
    BY <1>1, <1>3, IdsCounted

\* A bundle that the import does not warn about holds just the claims its manifest
\* counted, though the manifest may be of an export before the events.
THEOREM CountsAreClaims == Spec => []CountMeansClaims
<1>1. ExportInv => CountMeansClaims
  <2> SUFFICES ASSUME ExportInv, "manifest.json" \in Present(dir),
                      dir["manifest.json"].events # 0, ~EventWarning(dir)
               PROVE  Ids(EventsIn(dir)) = dir["manifest.json"].counted
    BY DEF CountMeansClaims, EventsIn
  <2> DEFINE counted == dir["manifest.json"].counted
  <2>1. counted \subseteq Ids(EventsIn(dir)) /\ dir["manifest.json"].events = Cardinality(counted)
    BY DEF ExportInv, PartsInv, DirInv, Bundle
  <2>2. Cardinality(EventsIn(dir)) = dir["manifest.json"].events
    BY DEF EventWarning, EventsIn
  <2>3. /\ IsFiniteSet(Ids(EventsIn(dir)))
        /\ Cardinality(Ids(EventsIn(dir))) = Cardinality(counted)
    BY <2>1, <2>2, EventsCounted
  <2> QED
    BY <2>1, <2>3, FS_Subset
<1> QED
    BY <1>1, ExportInit, ExportStep, PTL DEF Spec

\* An export that ran to its end has left a bundle whose parts agree.
THEOREM FinishedAgrees == Spec => []FinishedIsConsistent
<1>1. ExportInv => FinishedIsConsistent
  <2> SUFFICES ASSUME ExportInv PROVE FinishedIsConsistent
    OBVIOUS
  <2>1. ASSUME done = "evidence"
        PROVE  LET events == SetIn(dir, "events.jsonl")
               IN  /\ ~EventWarning(dir) /\ ~ErrataWarning(dir)
                   /\ SetIn(dir, "errata.jsonl") \subseteq Ids(events)
                   /\ {e.id : e \in {e \in events : e.corrected}}
                          \subseteq SetIn(dir, "errata.jsonl")
                   /\ NewClaims(dir) = {}
                   /\ \/ "receipt" \in users
                      \/ BundleType(dir) = IF events = {} THEN "unknown" ELSE "evidence"
                   /\ BundleType(dir) = "evidence" => Missing(dir) = {}
    <3>1. /\ {"manifest.json", "README.md"} \subseteq Present(dir)
          /\ dir["manifest.json"].events = Cardinality(Ids(EventsIn(dir)))
          /\ dir["manifest.json"].errata = Cardinality(ErrataIn(dir))
          /\ Corrected(EventsIn(dir)) \subseteq ErrataIn(dir)
      BY <2>1 DEF ExportInv, PartsInv, DoneInv
    <3>2. /\ Sound(EventsIn(dir), CleanIds, errata)
          /\ "events.jsonl" \in Present(dir) => EventsIn(dir) # {}
          /\ ErrataIn(dir) \subseteq errata \cap Ids(EventsIn(dir))
          /\ {"receipt.md", "receipt.json"} \cap Present(dir) # {} => "receipt" \in users
      BY DEF ExportInv, PartsInv, DirInv, Bundle
    <3>3. ~EventWarning(dir)
      BY <3>1, EventsCounted DEF EventWarning, EventsIn
    <3>4. ~ErrataWarning(dir)
      <4>1. "errata.jsonl" \notin Present(dir) => ErrataIn(dir) = {}
        BY DEF ErrataIn, SetIn, Present
      <4> QED
        BY <3>1, <4>1, FS_EmptySet DEF ErrataWarning
    <3>5. ErrataIn(dir) \subseteq Ids(EventsIn(dir))
      BY <3>2
    <3>6. NewClaims(dir) = {}
      BY <3>2 DEF NewClaims, Sound, CleanIds, EventsIn
    <3>7. "events.jsonl" \in Present(dir) <=> EventsIn(dir) # {}
      BY <3>2 DEF EventsIn, SetIn, Present
    <3>8. \/ "receipt" \in users
          \/ BundleType(dir) = IF EventsIn(dir) = {} THEN "unknown" ELSE "evidence"
      BY <3>1, <3>2, <3>7 DEF BundleType
    <3>9. BundleType(dir) = "evidence" => Missing(dir) = {}
      BY <3>1 DEF BundleType, Missing, Expected
    <3> QED
      BY <3>1, <3>3, <3>4, <3>5, <3>6, <3>8, <3>9 DEF EventsIn, ErrataIn, Corrected
  <2>2. ASSUME done = "receipt"
        PROVE  /\ BundleType(dir) = "receipt" /\ Missing(dir) \subseteq {"verify.json"}
               /\ dir["receipt.json"] = dir["receipt.md"]
    <3>1. /\ {"receipt.md", "receipt.json", "README.md"} \subseteq Present(dir)
          /\ dir["receipt.json"] = dir["receipt.md"]
      BY <2>2 DEF ExportInv, PartsInv, DoneInv
    <3>2. BundleType(dir) = "receipt"
      BY <3>1 DEF BundleType
    <3>3. Missing(dir) \subseteq {"verify.json"}
      BY <3>1, <3>2 DEF Missing, Expected
    <3> QED
      BY <3>1, <3>2, <3>3
  <2> QED
    BY <2>1, <2>2 DEF FinishedIsConsistent
<1> QED
    BY <1>1, ExportInit, ExportStep, PTL DEF Spec

\* Between two bundles that evidence exports have left, the delta of bundle diff is the
\* number of claims that have come in, and no file has gone.
THEOREM DiffsAreGrowth == Spec => []DiffIsGrowth
<1>1. ExportInv => DiffIsGrowth
  <2> SUFFICES ASSUME ExportInv, done = "evidence", BundleType(kept) = "evidence"
               PROVE  /\ EventDelta(kept, dir) = Cardinality(Ids(EventsIn(dir))
                                                             \ Ids(EventsIn(kept)))
                      /\ Present(kept) \subseteq Present(dir)
    BY DEF DiffIsGrowth, EventsIn
  <2> DEFINE now == Ids(EventsIn(dir))
             old == Ids(EventsIn(kept))
  <2>1. "manifest.json" \in Present(kept)
    BY DEF BundleType
  <2>2. /\ Present(kept) \subseteq Present(dir) /\ old \subseteq now
        /\ kept["manifest.json"].events = Cardinality(old)
    BY <2>1 DEF ExportInv, PartsInv, KeptInv
  <2>3. dir["manifest.json"].events = Cardinality(now)
    BY DEF ExportInv, PartsInv, DoneInv
  <2>4. IsFiniteSet(now)
    BY EventsCounted
  <2> HIDE DEF now, old
  <2>5. IsFiniteSet(old)
    BY <2>2, <2>4, FS_Subset
  <2>6. now \cap old = old
    BY <2>2
  <2>7. Cardinality(now \ old) = Cardinality(now) - Cardinality(old)
    BY <2>4, <2>6, FS_Difference
  <2> QED
    BY <2>2, <2>3, <2>7 DEF EventDelta, now, old
<1> QED
    BY <1>1, ExportInit, ExportStep, PTL DEF Spec

-----------------------------------------------------------------------------
(* Receipts of one session *)

\* What a receipt says, in the directory or about to be written there, is still so; and
\* the one about to be written says what the one it replaces says.
AgreeInv ==
    /\ \A s : "receipt.json" \in Present(dir) /\ dir["receipt.json"].session = s
              => dir["receipt.json"].commands \subseteq Commands(s)
    /\ \A s : job.kind = "receipt" /\ job.receipt.session = s
              => job.receipt.commands \subseteq Commands(s)
    /\ /\ job.kind = "receipt" /\ "receipt.json" \in Present(dir)
       /\ dir["receipt.json"].session = job.receipt.session
       => dir["receipt.json"].commands \subseteq job.receipt.commands

\* A step that writes the receipt puts there the one it has, and no other step changes it.
LEMMA ReceiptStep ==
    ASSUME Base, [Next]_vars
    PROVE  \/ /\ "receipt.json" \in Present(dir') <=> "receipt.json" \in Present(dir)
              /\ "receipt.json" \in Present(dir) => dir'["receipt.json"] = dir["receipt.json"]
           \/ /\ WriteFile /\ job.kind = "receipt"
              /\ "receipt.json" \in Present(dir') /\ dir'["receipt.json"] = job.receipt
<1>1. CASE WriteFile
  <2> DEFINE file == Files(job.kind)[job.next]
  <2>1. /\ dir' = Put(dir, file, Content(file)) \/ dir' = dir
        /\ job.kind \in Kind /\ job.next \in 1 .. 4
    BY <1>1, WriteStep
  <2>2. file = "receipt.json" => job.kind = "receipt"
    BY <2>1, FileNames DEF Kind
  <2> HIDE DEF file
  <2>3. CASE dir' = Put(dir, file, Content(file)) /\ file = "receipt.json"
    BY <1>1, <2>2, <2>3, PutFacts, Contents
  <2>4. CASE dir' = Put(dir, file, Content(file)) /\ file # "receipt.json"
    BY <2>4, PutFacts
  <2>5. CASE dir' = dir
    BY <2>5
  <2> QED
    BY <2>1, <2>3, <2>4, <2>5
<1>2. CASE \E k \in Kind : Begin(k)
    BY <1>2, BeginStep
<1>3. CASE dir' = dir
    BY <1>3
<1> QED
    BY <1>1, <1>2, <1>3, QuietSteps

\* What a step does to the receipt about to be written: it may begin a new one, of the
\* commands of the ledger as it is.
LEMMA ReceiptJobStep ==
    ASSUME Base, [Next]_vars, job'.kind = "receipt"
    PROVE  \/ job.kind = "receipt" /\ job'.receipt = job.receipt
           \/ /\ UNCHANGED <<ledger, dir>>
              /\ job'.receipt.session = ended /\ job'.receipt.commands = Commands(ended)
<1>1. CASE WriteFile
  <2>1. \/ job' = NoJob
        \/ job'.kind = job.kind /\ job'.receipt = job.receipt
    BY <1>1, WriteStep
  <2> QED
    BY <2>1 DEF NoJob
<1>2. ASSUME NEW k \in Kind, Begin(k)
      PROVE  /\ UNCHANGED <<ledger, dir>>
             /\ job'.receipt.session = ended /\ job'.receipt.commands = Commands(ended)
    BY <1>2, BeginStep DEF Receipt
<1>3. CASE job' = NoJob
    BY <1>3 DEF NoJob
<1>4. CASE job' = job
    BY <1>4
<1> QED
    BY <1>1, <1>2, <1>3, <1>4, QuietSteps

\* A later receipt of a session says of every command what an earlier one said.
THEOREM ReceiptsKeepAgreeing == Spec => ReceiptsAgree
<1>1. Init => Base /\ AgreeInv
  <2>1. Init => AgreeInv
    BY DEF Init, AgreeInv, Present, NoDir, NoJob
  <2> QED
    BY <2>1, BaseInit
<1>2. Base /\ AgreeInv /\ [Next]_vars => (Base /\ AgreeInv)'
  <2> SUFFICES ASSUME Base, AgreeInv, [Next]_vars PROVE AgreeInv'
    BY BaseStep
  <2>1. \A s : Commands(s) \subseteq Commands(s)'
    BY CommandsGrow DEF Base
  <2>2. ASSUME NEW s, "receipt.json" \in Present(dir'), dir'["receipt.json"].session = s
        PROVE  dir'["receipt.json"].commands \subseteq Commands(s)'
    BY <2>1, <2>2, ReceiptStep DEF AgreeInv
  <2>3. ASSUME NEW s, job'.kind = "receipt", job'.receipt.session = s
        PROVE  job'.receipt.commands \subseteq Commands(s)'
    BY <2>1, <2>3, ReceiptJobStep DEF AgreeInv
  <2>4. ASSUME job'.kind = "receipt", "receipt.json" \in Present(dir'),
               dir'["receipt.json"].session = job'.receipt.session
        PROVE  dir'["receipt.json"].commands \subseteq job'.receipt.commands
    <3>1. CASE job.kind = "receipt" /\ job'.receipt = job.receipt
      BY <2>4, <3>1, ReceiptStep DEF AgreeInv
    <3>2. CASE /\ UNCHANGED <<ledger, dir>>
               /\ job'.receipt.session = ended /\ job'.receipt.commands = Commands(ended)
      BY <2>4, <3>2 DEF AgreeInv
    <3> QED
      BY <2>4, <3>1, <3>2, ReceiptJobStep
  <2> QED
    BY <2>2, <2>3, <2>4 DEF AgreeInv, Present
<1>3. Base /\ AgreeInv /\ [Next]_vars =>
        [ LET old == dir["receipt.json"]
              new == dir'["receipt.json"]
          IN  ("receipt.json" \in Present(dir) \cap Present(dir') /\ old.session = new.session)
              => old.commands \subseteq new.commands ]_vars
    BY ReceiptStep DEF AgreeInv
<1> QED
    BY <1>1, <1>2, <1>3, PTL DEF Spec, ReceiptsAgree
=============================================================================
