---------------------------- MODULE LedgerProofs ----------------------------
(***************************************************************************)
(* Proofs about LedgerAppend and LedgerReader, for any number of           *)
(* processes, claims and bodies, and any value of the bounds: first the    *)
(* appends alone, then verify_integrity next to them.                      *)
(***************************************************************************)
EXTENDS LedgerReader, SequenceTheorems, FiniteSetTheorems, TLAPS

-----------------------------------------------------------------------------
(* The data the steps build is of the types they are stored as. *)

\* A chain hash of typed parts is a chain, and never the missing one.
LEMMA ChainHashType ==
    ASSUME NEW line \in Nat, NEW rec \in Record, NEW prev \in Chain
    PROVE  /\ ChainHash(line, rec, prev) \in Chain
           /\ ChainHash(line, rec, prev) # NoChain
<1> DEFINE link == [line |-> line, rec |-> rec]
<1>1. link \in Link
    BY DEF Link
<1> QED
    BY <1>1, AppendProperties DEF Chain, ChainHash, NoChain

\* The entry append_integrity_entry writes, field by field.
LEMMA EntryType ==
    ASSUME NEW line \in Nat, NEW rec \in Record, NEW prev \in Chain
    PROVE  /\ IntegrityEntry(line, rec, prev) \in Entry
           /\ IntegrityEntry(line, rec, prev).line = line
           /\ IntegrityEntry(line, rec, prev).rec = rec
           /\ IntegrityEntry(line, rec, prev).prev = prev
           /\ IntegrityEntry(line, rec, prev).chain = ChainHash(line, rec, prev)
    BY ChainHashType DEF Entry, IntegrityEntry

\* A sequence that is not empty has a last element.
LEMMA LastElement ==
    ASSUME NEW S, NEW seq \in Seq(S), seq # <<>>
    PROVE  Len(seq) \in 1 .. Len(seq) /\ seq[Len(seq)] \in S
<1>1. Len(seq) \in Nat /\ Len(seq) # 0
    BY EmptySeq
<1> QED
    BY <1>1, ElementOfSeq

\* A function on 1 .. n is a sequence of length n.
LEMMA FunctionIsSequence ==
    ASSUME NEW S, NEW n \in Nat, NEW f \in [1 .. n -> S]
    PROVE  f \in Seq(S) /\ Len(f) = n
    OBVIOUS

\* The end of a typed chain is typed.
LEMMA LastChainType == TypeOK => LastChain(integrity) \in Chain
<1> SUFFICES ASSUME TypeOK PROVE LastChain(integrity) \in Chain
    OBVIOUS
<1>1. CASE integrity = <<>>
    BY <1>1 DEF LastChain, NoChain, Chain
<1>2. CASE integrity # <<>>
  <2>1. integrity \in Seq(Entry)
    BY DEF TypeOK
  <2>2. integrity[Len(integrity)] \in Entry
    BY <1>2, <2>1, LastElement
  <2>3. LastChain(integrity) = integrity[Len(integrity)].chain
    BY <1>2 DEF LastChain
  <2> QED
    BY <2>2, <2>3 DEF Entry
<1> QED
    BY <1>1, <1>2

\* Whatever load_or_rebuild returns is an append state.
LEMMA LoadType == TypeOK /\ cache # BadCache => LoadOrRebuild \in AppendState
<1> SUFFICES ASSUME TypeOK, cache # BadCache PROVE LoadOrRebuild \in AppendState
    OBVIOUS
<1>1. Rebuilt \in AppendState
    BY LastChainType DEF TypeOK, Rebuilt, AppendState
<1> QED
    BY <1>1 DEF TypeOK, LoadOrRebuild

\* The state of a process that has loaded nothing is an append state.
LEMMA EmptyStateType == EmptyState \in AppendState
    BY DEF EmptyState, AppendState, NoChain, Chain

-----------------------------------------------------------------------------
(* Type correctness *)

\* The initial states are typed.
LEMMA InitTypeOK == Init => TypeOK
<1> SUFFICES ASSUME Init PROVE TypeOK
    OBVIOUS
<1>1. PICK n \in 0 .. MaxLegacy : claims \in [1 .. n -> Record]
    BY DEF Init
<1>2. claims \in Seq(Record)
    BY <1>1, ConstantsAssumption
<1>3. integrity \in Seq(Entry)
    BY EmptySeq DEF Init
<1> QED
    BY <1>2, <1>3, EmptyStateType, ConstantsAssumption DEF Init, TypeOK, Holding

\* Every step keeps the types, as long as whoever is under way has a record.
LEMMA NextTypeOK == TypeOK /\ (\A p \in Proc : pc[p] # "idle" => arg[p] \in Record)
                           /\ [Next]_vars => TypeOK'
<1> SUFFICES ASSUME TypeOK,
                    \A p \in Proc : pc[p] # "idle" => arg[p] \in Record,
                    [Next]_vars
             PROVE  TypeOK'
    OBVIOUS
<1> USE DEF TypeOK, Holding, files
<1>1. ASSUME NEW p \in Proc, Call(p) PROVE TypeOK'
    BY <1>1 DEF Call
<1>2. ASSUME NEW p \in Proc, Acquire(p) PROVE TypeOK'
    BY <1>2 DEF Acquire
<1>3. ASSUME NEW p \in Proc, Load(p) PROVE TypeOK'
    BY <1>3, LoadType DEF Load
<1>12. ASSUME NEW p \in Proc, LoadRaises(p) PROVE TypeOK'
    BY <1>12 DEF LoadRaises
<1>4. ASSUME NEW p \in Proc, WriteClaim(p) PROVE TypeOK'
  <2>1. arg[p] \in Record
    BY <1>4 DEF WriteClaim
  <2>2. claims' \in Seq(Record)
    BY <1>4, <2>1, AppendProperties DEF WriteClaim
  <2> QED
    BY <1>4, <2>2 DEF WriteClaim
<1>5. ASSUME NEW p \in Proc, WriteIntegrity(p) PROVE TypeOK'
  <2> DEFINE entry == IntegrityEntry(state[p].line + 1, arg[p], state[p].chain)
  <2>1. arg[p] \in Record /\ state[p].line + 1 \in Nat /\ state[p].chain \in Chain
    BY <1>5 DEF WriteIntegrity, AppendState
  <2>2. /\ entry \in Entry
        /\ [line |-> entry.line, chain |-> entry.chain, rec |-> entry.rec] \in AppendState
    BY <2>1, EntryType, ChainHashType DEF AppendState
  <2> HIDE DEF entry
  <2>3. /\ integrity' = Append(integrity, entry)
        /\ state' = [state EXCEPT ![p] = [line  |-> entry.line,
                                          chain |-> entry.chain,
                                          rec   |-> entry.rec]]
        /\ pc' = [pc EXCEPT ![p] = "signed"]
        /\ UNCHANGED <<claims, cache, index, lock, arg, upsets, orphaned>>
    BY <1>5 DEF WriteIntegrity, entry
  <2>4. integrity' \in Seq(Entry)
    BY <2>2, <2>3, AppendProperties
  <2>5. state' \in [Proc -> AppendState]
    BY <2>2, <2>3
  <2> QED
    BY <2>3, <2>4, <2>5
<1>6. ASSUME NEW p \in Proc, SaveState(p) PROVE TypeOK'
    BY <1>6 DEF SaveState
<1>7. ASSUME NEW p \in Proc, UpdateIndex(p) PROVE TypeOK'
  <2>1. arg[p] \in Record /\ arg[p].id \in ClaimId
    BY <1>7 DEF UpdateIndex, Record
  <2> QED
    BY <1>7, <2>1 DEF UpdateIndex
<1>8. ASSUME NEW p \in Proc, Release(p) PROVE TypeOK'
    BY <1>8, EmptyStateType DEF Release
<1>9. ASSUME NEW p \in Proc, Crash(p) PROVE TypeOK'
    BY <1>9, EmptyStateType DEF Crash
<1>10. CASE UpsetCache
  <2>1. \A i \in 1 .. Len(integrity) : integrity[i] \in Entry
    BY ElementOfSeq
  <2>2. cache' \in AppendState \cup {NoCache, BadCache}
    BY <1>10, <2>1 DEF UpsetCache, AppendState, Entry
  <2> QED
    BY <1>10, <2>2 DEF UpsetCache
<1>11. CASE UNCHANGED vars
    BY <1>11 DEF vars
<1> QED
    BY <1>1, <1>2, <1>3, <1>4, <1>5, <1>6, <1>7, <1>8, <1>9, <1>10, <1>11, <1>12
       DEF Next, Step

-----------------------------------------------------------------------------
(* The inductive invariant *)

\* Two processes never both stand between taking and freeing the lock.
LEMMA OneHolder ==
    LockInv => \A p, q \in Proc : pc[p] \in Holding /\ pc[q] \in Holding => p = q
    BY DEF LockInv

\* What WriteIntegrity adds: one entry at the end, built from what the holder
\* loaded; the entries before it stay as they are.
LEMMA WrittenEntry ==
    ASSUME TypeOK, HolderInv, NEW p \in Proc, WriteIntegrity(p)
    PROVE  /\ Len(integrity) \in Nat
           /\ Len(integrity') = Len(integrity) + 1
           /\ \A i \in 1 .. Len(integrity) : integrity'[i] = integrity[i]
           /\ integrity'[Len(integrity')] =
                 IntegrityEntry(state[p].line + 1, arg[p], state[p].chain)
           /\ integrity' # <<>>
           /\ integrity'[Len(integrity')].line = state[p].line + 1
           /\ integrity'[Len(integrity')].rec = arg[p]
           /\ integrity'[Len(integrity')].prev = state[p].chain
           /\ integrity'[Len(integrity')].chain =
                 ChainHash(state[p].line + 1, arg[p], state[p].chain)
           /\ state[p].line \in Nat
           /\ integrity'[Len(integrity')].chain # NoChain
           /\ state'[p].chain = integrity'[Len(integrity')].chain
<1> DEFINE entry == IntegrityEntry(state[p].line + 1, arg[p], state[p].chain)
<1>1. /\ arg[p] \in Record
      /\ state[p] \in AppendState
      /\ integrity \in Seq(Entry)
      /\ state \in [Proc -> AppendState]
    BY DEF TypeOK, HolderInv, Held, WriteIntegrity
<1>2. state[p].line \in Nat /\ state[p].line + 1 \in Nat /\ state[p].chain \in Chain
    BY <1>1 DEF AppendState
<1>3. /\ entry \in Entry
      /\ entry.line = state[p].line + 1
      /\ entry.rec = arg[p]
      /\ entry.prev = state[p].chain
      /\ entry.chain = ChainHash(state[p].line + 1, arg[p], state[p].chain)
      /\ entry.chain # NoChain
    BY <1>1, <1>2, EntryType, ChainHashType
<1>4. /\ integrity' = Append(integrity, entry)
      /\ state' = [state EXCEPT ![p] = [line  |-> entry.line,
                                        chain |-> entry.chain,
                                        rec   |-> entry.rec]]
    BY DEF WriteIntegrity
<1> HIDE DEF entry
<1>5. /\ Len(integrity) \in Nat
      /\ Len(integrity') = Len(integrity) + 1
      /\ \A i \in 1 .. Len(integrity) : integrity'[i] = integrity[i]
      /\ integrity'[Len(integrity) + 1] = entry
      /\ integrity' # <<>>
    BY <1>1, <1>3, <1>4, AppendProperties, LenProperties
<1>6. state'[p].chain = entry.chain
    BY <1>1, <1>4
<1> QED
    BY <1>2, <1>3, <1>5, <1>6 DEF entry

\* What WriteClaim adds: one line at the end.
LEMMA WrittenClaim ==
    ASSUME TypeOK, HolderInv, NEW p \in Proc, WriteClaim(p)
    PROVE  /\ Len(claims) \in Nat
           /\ Len(claims') = Len(claims) + 1
           /\ \A n \in 1 .. Len(claims) : claims'[n] = claims[n]
           /\ claims'[Len(claims')] = arg[p]
<1>1. arg[p] \in Record /\ claims \in Seq(Record) /\ claims' = Append(claims, arg[p])
    BY DEF TypeOK, HolderInv, Held, WriteClaim
<1> QED
    BY <1>1, AppendProperties, LenProperties

\* Every entry stored is typed; so is the last.
LEMMA EntryFields ==
    ASSUME TypeOK
    PROVE  /\ Len(integrity) \in Nat
           /\ Len(claims) \in Nat
           /\ \A i \in 1 .. Len(integrity) :
                 integrity[i].line \in Nat /\ integrity[i].chain \in Chain
           /\ integrity # <<>> => Len(integrity) \in 1 .. Len(integrity)
           /\ integrity = <<>> => Len(integrity) = 0
<1>1. integrity \in Seq(Entry) /\ claims \in Seq(Record)
    BY DEF TypeOK
<1>2. \A i \in 1 .. Len(integrity) : integrity[i] \in Entry
    BY <1>1, ElementOfSeq
<1> QED
    BY <1>1, <1>2, LenProperties, LastElement, EmptySeq DEF Entry

\* The lock is taken only when free, and freed only by its holder.
LEMMA LockStep == TypeOK /\ LockInv /\ [Next]_vars => LockInv'
<1> SUFFICES ASSUME TypeOK, LockInv, [Next]_vars PROVE LockInv'
    OBVIOUS
<1> USE ConstantsAssumption DEF TypeOK, LockInv, Holding
<1>1. ASSUME NEW p \in Proc, Call(p) PROVE LockInv'
    BY <1>1 DEF Call
<1>2. ASSUME NEW p \in Proc, Acquire(p) PROVE LockInv'
    BY <1>2 DEF Acquire
<1>3. ASSUME NEW p \in Proc, Load(p) PROVE LockInv'
    BY <1>3 DEF Load
<1>12. ASSUME NEW p \in Proc, LoadRaises(p) PROVE LockInv'
    BY <1>12 DEF LoadRaises
<1>4. ASSUME NEW p \in Proc, WriteClaim(p) PROVE LockInv'
    BY <1>4 DEF WriteClaim
<1>5. ASSUME NEW p \in Proc, WriteIntegrity(p) PROVE LockInv'
    BY <1>5 DEF WriteIntegrity
<1>6. ASSUME NEW p \in Proc, SaveState(p) PROVE LockInv'
    BY <1>6 DEF SaveState
<1>7. ASSUME NEW p \in Proc, UpdateIndex(p) PROVE LockInv'
    BY <1>7 DEF UpdateIndex
<1>8. ASSUME NEW p \in Proc, Release(p) PROVE LockInv'
    BY <1>8 DEF Release
<1>9. ASSUME NEW p \in Proc, Crash(p) PROVE LockInv'
    BY <1>9 DEF Crash
<1>10. CASE UpsetCache
    BY <1>10 DEF UpsetCache
<1>11. CASE UNCHANGED vars
    BY <1>11 DEF vars
<1> QED
    BY <1>1, <1>2, <1>3, <1>4, <1>5, <1>6, <1>7, <1>8, <1>9, <1>10, <1>11, <1>12
       DEF Next, Step

\* The cache is written from an entry's chain hash only.
LEMMA CacheStep ==
    TypeOK /\ CacheInv /\ HolderInv /\ ChainLinked /\ [Next]_vars => CacheInv'
<1> SUFFICES ASSUME TypeOK, CacheInv, HolderInv, ChainLinked, [Next]_vars
             PROVE  CacheInv'
    OBVIOUS
<1>1. ASSUME NEW p \in Proc, SaveState(p) PROVE CacheInv'
    BY <1>1 DEF SaveState, CacheInv, HolderInv, Held
<1>2. CASE UpsetCache
  <2>1. ASSUME NEW i \in 1 .. Len(integrity) PROVE integrity[i].chain # NoChain
    <3>1. integrity[i] \in Entry
        BY ElementOfSeq DEF TypeOK
    <3>2. integrity[i].chain = ChainHash(integrity[i].line, integrity[i].rec, integrity[i].prev)
        BY DEF ChainLinked, ChainMismatch
    <3> QED
        BY <3>1, <3>2, ChainHashType DEF Entry
  <2> QED
    BY <1>2, <2>1 DEF UpsetCache, CacheInv
<1>3. CASE UNCHANGED cache
    BY <1>3 DEF CacheInv
<1> QED
    BY <1>1, <1>2, <1>3
       DEF Next, Step, vars, files, Call, Acquire, Load, LoadRaises, WriteClaim, WriteIntegrity,
           UpdateIndex, Release, Crash

\* What load_or_rebuild returns continues the chain where it ends, on a line
\* no entry has reached; it is the number of claim lines if nothing is orphaned.
LEMMA LoadFacts ==
    ASSUME TypeOK, CacheInv, LineNumbersIncrease, cache # BadCache
    PROVE  /\ LoadOrRebuild.chain = LastChain(integrity)
           /\ integrity # <<>> => LastLine <= LoadOrRebuild.line
           /\ LoadOrRebuild.line <= Len(claims)
           /\ CoverInv /\ ~orphaned /\ ~InFlight => LoadOrRebuild.line = Len(claims)
<1>1. CASE cache # NoCache /\ MatchesTail(cache)
  <2>1. LoadOrRebuild = cache
    BY <1>1 DEF LoadOrRebuild
  <2>2. integrity # <<>>
    BY <1>1 DEF MatchesTail, CacheInv
  <2>3. cache.line = LastLine /\ cache.chain = LastChain(integrity)
    BY <1>1, <2>2 DEF MatchesTail, LastLine, LastChain
  <2>4. LastLine \in 1 .. Len(claims)
    BY <2>2, EntryFields DEF LineNumbersIncrease, LastLine
  <2> QED
    BY <2>1, <2>2, <2>3, <2>4, EntryFields DEF CoverInv
<1>2. CASE ~(cache # NoCache /\ MatchesTail(cache))
  <2>1. LoadOrRebuild = Rebuilt
    BY <1>2 DEF LoadOrRebuild
  <2>2. Rebuilt.line = Len(claims) /\ Rebuilt.chain = LastChain(integrity)
    BY DEF Rebuilt
  <2>3. integrity # <<>> => LastLine \in 1 .. Len(claims)
    BY EntryFields DEF LineNumbersIncrease, LastLine
  <2> QED
    BY <2>1, <2>2, <2>3, EntryFields
<1> QED
    BY <1>1, <1>2

\* Only the holder writes, so what it loaded stays true until it writes itself.
LEMMA HolderStep ==
    TypeOK /\ LockInv /\ CacheInv /\ HolderInv /\ LineNumbersIncrease /\ [Next]_vars
        => HolderInv'
<1> SUFFICES ASSUME TypeOK, LockInv, CacheInv, HolderInv, LineNumbersIncrease,
                    [Next]_vars,
                    NEW q \in Proc
             PROVE  Held(q)'
    BY DEF HolderInv
<1> USE DEF Held
<1>a. /\ pc[q] # "idle" => arg[q] \in Record
      /\ pc[q] \in {"loaded", "claimed"} =>
            /\ state[q].chain = LastChain(integrity)
            /\ integrity # <<>> => integrity[Len(integrity)].line <= state[q].line
      /\ pc[q] = "loaded" => state[q].line <= Len(claims)
      /\ pc[q] = "claimed" => state[q].line < Len(claims)
      /\ pc[q] \in {"claimed", "signed", "saved"} =>
            Len(claims) > 0 /\ claims[Len(claims)] = arg[q]
      /\ pc[q] = "signed" => state[q].chain # NoChain
    BY DEF HolderInv, LastLine
<1>b. /\ pc \in [Proc -> {"idle", "waiting"} \cup Holding]
      /\ arg \in [Proc -> Record \cup {NoRecord}]
      /\ state \in [Proc -> AppendState]
    BY DEF TypeOK
<1>1. ASSUME NEW p \in Proc, Call(p) \/ Acquire(p) \/ UpdateIndex(p) \/ SaveState(p)
             \/ Release(p) \/ LoadRaises(p) \/ Crash(p)
      PROVE  /\ integrity' = integrity /\ claims' = claims
             /\ pc'[q] \in {"loaded", "claimed", "signed"} =>
                   pc'[q] = pc[q] /\ state'[q] = state[q] /\ arg'[q] = arg[q]
             /\ pc'[q] = "saved" => pc[q] \in {"signed", "saved"} /\ arg'[q] = arg[q]
             /\ pc'[q] # "idle" => arg'[q] \in Record
    BY <1>1, <1>a, <1>b DEF Call, Acquire, UpdateIndex, SaveState, Release, LoadRaises, Crash, files
<1>2. ASSUME NEW p \in Proc, Call(p) \/ Acquire(p) \/ UpdateIndex(p) \/ SaveState(p)
             \/ Release(p) \/ LoadRaises(p) \/ Crash(p)
      PROVE  Held(q)'
    BY <1>1, <1>2, <1>a DEF LastLine
<1>3. ASSUME NEW p \in Proc, Load(p) PROVE Held(q)'
  <2>1. /\ integrity' = integrity /\ claims' = claims /\ arg' = arg
        /\ pc' = [pc EXCEPT ![p] = "loaded"]
        /\ state' = [state EXCEPT ![p] = LoadOrRebuild]
        /\ pc[p] = "locked" /\ cache # BadCache
    BY <1>3 DEF Load, files
  <2>2. CASE q = p
    BY <1>a, <1>b, <2>1, <2>2, LoadFacts DEF LastLine, LastChain
  <2>3. CASE q # p
    BY <1>a, <1>b, <2>1, <2>3 DEF LastLine, LastChain
  <2> QED
    BY <2>2, <2>3
<1>4. ASSUME NEW p \in Proc, WriteClaim(p) PROVE Held(q)'
  <2>1. /\ integrity' = integrity /\ arg' = arg /\ state' = state
        /\ pc' = [pc EXCEPT ![p] = "claimed"]
        /\ pc[p] = "loaded"
    BY <1>4 DEF WriteClaim
  <2>2. CASE q = p
    <3>1. state[q].line \in Nat
        BY <1>b DEF AppendState
    <3>2. state[q].line < Len(claims')
        BY <1>4, <1>a, <2>1, <2>2, <3>1, WrittenClaim
    <3> QED
        BY <1>4, <1>a, <1>b, <2>1, <2>2, <3>2, WrittenClaim DEF LastLine, LastChain
  <2>3. CASE q # p
    <3>1. pc[q] \notin Holding
        BY <2>1, <2>3, OneHolder DEF Holding
    <3> QED
        BY <1>a, <1>b, <2>1, <2>3, <3>1 DEF Holding
  <2> QED
    BY <2>2, <2>3
<1>5. ASSUME NEW p \in Proc, WriteIntegrity(p) PROVE Held(q)'
  <2>1. /\ claims' = claims /\ arg' = arg
        /\ pc' = [pc EXCEPT ![p] = "signed"]
        /\ pc[p] = "claimed"
    BY <1>5 DEF WriteIntegrity
  <2>2. CASE q = p
    BY <1>5, <1>a, <1>b, <2>1, <2>2, WrittenEntry
  <2>3. CASE q # p
    <3>1. pc[q] \notin Holding
        BY <2>1, <2>3, OneHolder DEF Holding
    <3> QED
        BY <1>a, <1>b, <2>1, <2>3, <3>1 DEF Holding
  <2> QED
    BY <2>2, <2>3
<1>6. CASE UpsetCache \/ UNCHANGED vars
    BY <1>6, <1>a DEF UpsetCache, vars, LastLine, LastChain
<1> QED
    BY <1>2, <1>3, <1>4, <1>5, <1>6 DEF Next, Step

\* An entry that is added links to the last one, since the holder's chain hash
\* is the one of the last one.
LEMMA ChainStep == TypeOK /\ HolderInv /\ ChainLinked /\ [Next]_vars => ChainLinked'
<1> SUFFICES ASSUME TypeOK, HolderInv, ChainLinked, [Next]_vars PROVE ChainLinked'
    OBVIOUS
<1>1. ASSUME NEW p \in Proc, WriteIntegrity(p) PROVE ChainLinked'
  <2> SUFFICES ASSUME NEW i \in 1 .. Len(integrity')
               PROVE  /\ integrity'[i].prev = ExpectedPrev(integrity', i)
                      /\ integrity'[i].chain =
                            ChainHash(integrity'[i].line, integrity'[i].rec, integrity'[i].prev)
    BY DEF ChainLinked, PrevMismatch, ChainMismatch
  <2>1. CASE i \in 1 .. Len(integrity)
    <3>1. /\ integrity[i].prev = ExpectedPrev(integrity, i)
          /\ integrity[i].chain =
                ChainHash(integrity[i].line, integrity[i].rec, integrity[i].prev)
        BY <2>1 DEF ChainLinked, PrevMismatch, ChainMismatch
    <3>2. integrity'[i] = integrity[i] /\ (i # 1 => integrity'[i - 1] = integrity[i - 1])
        BY <1>1, <2>1, WrittenEntry
    <3> QED
        BY <3>1, <3>2 DEF ExpectedPrev
  <2>2. CASE i = Len(integrity) + 1
    <3>1. state[p].chain = LastChain(integrity)
        BY <1>1 DEF WriteIntegrity, HolderInv, Held
    <3>2. LastChain(integrity) = ExpectedPrev(integrity', i)
        BY <1>1, <2>2, WrittenEntry, EntryFields DEF LastChain, ExpectedPrev
    <3> QED
        BY <1>1, <2>2, <3>1, <3>2, WrittenEntry
  <2> QED
    BY <1>1, <2>1, <2>2, WrittenEntry
<1>2. CASE UNCHANGED integrity
    BY <1>2 DEF ChainLinked, PrevMismatch, ChainMismatch, ExpectedPrev
<1> QED
    BY <1>1, <1>2
       DEF Next, Step, vars, files, Call, Acquire, Load, LoadRaises, WriteClaim, SaveState,
           UpdateIndex, Release, Crash, UpsetCache

\* The line number signed is above every number signed before.
LEMMA LinesStep ==
    TypeOK /\ HolderInv /\ LineNumbersIncrease /\ [Next]_vars => LineNumbersIncrease'
<1> SUFFICES ASSUME TypeOK, HolderInv, LineNumbersIncrease, [Next]_vars
             PROVE  LineNumbersIncrease'
    OBVIOUS
<1> USE DEF LineNumbersIncrease
<1>1. ASSUME NEW p \in Proc, WriteIntegrity(p) PROVE LineNumbersIncrease'
  <2>1. /\ claims' = claims
        /\ state[p].line \in Nat
        /\ state[p].line < Len(claims)
        /\ integrity # <<>> => integrity[Len(integrity)].line <= state[p].line
    BY <1>1, WrittenEntry DEF WriteIntegrity, HolderInv, Held, LastLine
  <2>2. \A i \in 1 .. Len(integrity) : integrity[i].line <= state[p].line
    <3>1. \A i \in 1 .. Len(integrity) :
             integrity[i].line <= integrity[Len(integrity)].line /\ integrity # <<>>
        BY EntryFields
    <3> QED
        BY <2>1, <3>1, EntryFields
  <2>3. integrity'[Len(integrity')].line = state[p].line + 1
    BY <1>1, WrittenEntry
  <2>4. \A i \in 1 .. Len(integrity') : integrity'[i].line \in 1 .. Len(claims')
    BY <1>1, <2>1, <2>3, WrittenEntry, EntryFields
  <2>5. \A i, j \in 1 .. Len(integrity') :
           i < j => integrity'[i].line < integrity'[j].line
    <3> SUFFICES ASSUME NEW i \in 1 .. Len(integrity'), NEW j \in 1 .. Len(integrity'),
                        i < j
                 PROVE  integrity'[i].line < integrity'[j].line
        OBVIOUS
    <3>1. i \in 1 .. Len(integrity) /\ integrity'[i] = integrity[i]
        BY <1>1, WrittenEntry
    <3>2. CASE j \in 1 .. Len(integrity)
        BY <1>1, <3>1, <3>2, WrittenEntry
    <3>3. CASE j = Len(integrity')
        BY <2>1, <2>2, <2>3, <3>1, <3>3, EntryFields
    <3> QED
        BY <1>1, <3>2, <3>3, WrittenEntry
  <2> QED
    BY <2>4, <2>5
<1>2. ASSUME NEW p \in Proc, WriteClaim(p) PROVE LineNumbersIncrease'
  <2>1. integrity' = integrity /\ Len(claims') = Len(claims) + 1 /\ Len(claims) \in Nat
    BY <1>2, WrittenClaim DEF WriteClaim
  <2> QED
    BY <2>1, EntryFields
<1>3. CASE UNCHANGED <<claims, integrity>>
    BY <1>3
<1> QED
    BY <1>1, <1>2, <1>3
       DEF Next, Step, vars, files, Call, Acquire, Load, LoadRaises, SaveState,
           UpdateIndex, Release, Crash, UpsetCache

\* Only a crash between a claim line and its entry makes a line the entries do
\* not cover; the one in the middle of an append is the holder's.
LEMMA CoverStep == IInv /\ [Next]_vars => CoverInv'
<1> SUFFICES ASSUME IInv, [Next]_vars, ~orphaned' PROVE CoverInv'
    BY DEF CoverInv
<1> USE DEF IInv
<1>a. /\ ~orphaned
      /\ pc \in [Proc -> {"idle", "waiting"} \cup Holding]
      /\ state \in [Proc -> AppendState]
    BY DEF TypeOK, Next, Step, vars, files, Call, Acquire, Load, LoadRaises, WriteClaim,
           WriteIntegrity, SaveState, UpdateIndex, Release, Crash, UpsetCache
<1>b. /\ \A i \in 1 .. Len(integrity) :
            /\ integrity[i].line = integrity[1].line + (i - 1)
            /\ claims[integrity[i].line] = integrity[i].rec
            /\ integrity[i].line \in 1 .. Len(claims)
      /\ ~InFlight /\ integrity # <<>> => integrity[Len(integrity)].line = Len(claims)
      /\ \A p \in Proc :
            /\ pc[p] = "loaded" => state[p].line = Len(claims)
            /\ pc[p] = "claimed" =>
                  /\ state[p].line + 1 = Len(claims)
                  /\ integrity # <<>> => integrity[Len(integrity)].line = state[p].line
    BY <1>a DEF CoverInv, LastLine, LineNumbersIncrease
<1>1. ASSUME NEW p \in Proc, Call(p) \/ Acquire(p) \/ UpdateIndex(p) \/ SaveState(p)
             \/ Release(p) \/ LoadRaises(p) \/ Crash(p)
      PROVE  CoverInv'
  <2>1. /\ integrity' = integrity /\ claims' = claims
        /\ \A q \in Proc : pc'[q] \in {"loaded", "claimed"} =>
                             pc'[q] = pc[q] /\ state'[q] = state[q]
        /\ \A q \in Proc : pc[q] = "claimed" => pc'[q] = "claimed"
    BY <1>1, <1>a DEF Call, Acquire, UpdateIndex, SaveState, Release, LoadRaises,
                    Crash, files
  <2>2. InFlight => InFlight'
    BY <2>1 DEF InFlight
  <2> QED
    BY <2>1, <2>2, <1>b DEF CoverInv, LastLine
<1>2. ASSUME NEW p \in Proc, Load(p) PROVE CoverInv'
  <2>1. /\ integrity' = integrity /\ claims' = claims
        /\ pc' = [pc EXCEPT ![p] = "loaded"]
        /\ state' = [state EXCEPT ![p] = LoadOrRebuild]
        /\ pc[p] = "locked" /\ cache # BadCache
    BY <1>2 DEF Load, files
  <2>2. ~InFlight
    BY <2>1, OneHolder DEF InFlight, Holding
  <2>3. LoadOrRebuild.line = Len(claims)
    BY <1>a, <2>1, <2>2, LoadFacts
  <2> QED
    BY <2>1, <2>2, <2>3, <1>a, <1>b DEF CoverInv, LastLine
<1>3. ASSUME NEW p \in Proc, WriteClaim(p) PROVE CoverInv'
  <2>1. /\ integrity' = integrity /\ state' = state
        /\ pc' = [pc EXCEPT ![p] = "claimed"]
        /\ pc[p] = "loaded"
    BY <1>3 DEF WriteClaim
  <2>2. /\ \A q \in Proc : q # p => pc[q] \notin Holding
        /\ ~InFlight
    BY <2>1, OneHolder DEF InFlight, Holding
  <2>3. InFlight'
    BY <1>a, <2>1 DEF InFlight
  <2>4. \A i \in 1 .. Len(integrity) : claims'[integrity[i].line] = integrity[i].rec
    BY <1>3, <1>b, WrittenClaim
  <2>5. \A q \in Proc : pc'[q] \in {"loaded", "claimed"} => q = p /\ pc'[q] = "claimed"
    BY <1>a, <2>1, <2>2 DEF Holding
  <2>6. state[p].line + 1 = Len(claims')
    BY <1>3, <1>b, <2>1, WrittenClaim
  <2>7. integrity # <<>> => integrity[Len(integrity)].line = state[p].line
    BY <1>b, <2>1, <2>2
  <2> QED
    BY <1>b, <2>1, <2>3, <2>4, <2>5, <2>6, <2>7 DEF CoverInv, LastLine
<1>4. ASSUME NEW p \in Proc, WriteIntegrity(p) PROVE CoverInv'
  <2>1. /\ claims' = claims
        /\ pc' = [pc EXCEPT ![p] = "signed"]
        /\ pc[p] = "claimed"
    BY <1>4 DEF WriteIntegrity
  <2>2. \A q \in Proc : pc'[q] \notin {"loaded", "claimed"}
    BY <1>a, <2>1, OneHolder DEF Holding
  <2>3. /\ state[p].line + 1 = Len(claims)
        /\ claims[Len(claims)] = arg[p]
        /\ integrity # <<>> => integrity[Len(integrity)].line = state[p].line
    BY <1>b, <2>1 DEF HolderInv, Held
  <2>4. /\ integrity'[Len(integrity')].line = Len(claims)
        /\ integrity'[Len(integrity')].rec = arg[p]
    BY <1>4, <2>3, WrittenEntry
  <2>5. \A i \in 1 .. Len(integrity') :
           claims[integrity'[i].line] = integrity'[i].rec
    <3>1. /\ Len(integrity) \in Nat /\ Len(integrity') = Len(integrity) + 1
          /\ \A i \in 1 .. Len(integrity) : integrity'[i] = integrity[i]
        BY <1>4, WrittenEntry
    <3>2. \A i \in 1 .. Len(integrity) : claims[integrity'[i].line] = integrity'[i].rec
        BY <1>b, <3>1
    <3>3. claims[integrity'[Len(integrity')].line] = integrity'[Len(integrity')].rec
        BY <2>3, <2>4
    <3>4. \A i \in 1 .. Len(integrity') : i \in 1 .. Len(integrity) \/ i = Len(integrity')
        BY <3>1
    <3> QED
        BY <3>2, <3>3, <3>4
  <2>6. \A i \in 1 .. Len(integrity') :
           integrity'[i].line = integrity'[1].line + (i - 1)
    <3>1. CASE integrity = <<>>
        BY <1>4, <2>4, <3>1, WrittenEntry, EntryFields
    <3>2. CASE integrity # <<>>
      <4>1. 1 \in 1 .. Len(integrity) /\ Len(integrity) \in 1 .. Len(integrity)
          BY <3>2, EntryFields
      <4>2. integrity[Len(integrity)].line = integrity[1].line + (Len(integrity) - 1)
          BY <1>b, <4>1
      <4>3. integrity'[Len(integrity')].line = integrity[1].line + Len(integrity)
        <5>1. /\ integrity'[Len(integrity')].line = integrity[Len(integrity)].line + 1
              /\ integrity[1].line \in Nat /\ Len(integrity) \in Nat
            BY <2>3, <2>4, <3>2, <4>1, EntryFields
        <5> QED
            BY <4>2, <5>1
      <4>4. integrity'[1] = integrity[1]
          BY <1>4, <4>1, WrittenEntry
      <4>5. \A i \in 1 .. Len(integrity) :
               integrity'[i].line = integrity'[1].line + (i - 1)
          BY <1>4, <1>b, <4>4, WrittenEntry
      <4> QED
          BY <1>4, <4>3, <4>4, <4>5, WrittenEntry
    <3> QED
        BY <3>1, <3>2
  <2> QED
    BY <2>1, <2>2, <2>4, <2>5, <2>6 DEF CoverInv, LastLine
<1>5. CASE UpsetCache \/ UNCHANGED vars
    BY <1>5, <1>b DEF UpsetCache, vars, CoverInv, LastLine, InFlight
<1> QED
    BY <1>1, <1>2, <1>3, <1>4, <1>5 DEF Next, Step

-----------------------------------------------------------------------------
(* The results *)

\* No file is written yet, or the claim lines are all older than the chain.
LEMMA InitIInv == Init => IInv
<1> SUFFICES ASSUME Init PROVE IInv
    OBVIOUS
<1>1. TypeOK
    BY InitTypeOK
<1>2. integrity = <<>> /\ Len(integrity) = 0
    BY EmptySeq DEF Init
<1>3. LockInv /\ CacheInv /\ HolderInv
    BY ConstantsAssumption DEF Init, LockInv, CacheInv, HolderInv, Held, Holding
<1>4. ChainLinked /\ LineNumbersIncrease
    BY <1>2 DEF ChainLinked, LineNumbersIncrease
<1>5. CoverInv
    BY <1>2 DEF Init, CoverInv
<1> QED
    BY <1>1, <1>3, <1>4, <1>5 DEF IInv

\* The invariant is inductive: every step of append_claim, every crash and
\* every damage to the cache keeps it.
LEMMA NextIInv == IInv /\ [Next]_vars => IInv'
<1> SUFFICES ASSUME IInv, [Next]_vars PROVE IInv'
    OBVIOUS
<1>1. \A p \in Proc : pc[p] # "idle" => arg[p] \in Record
    BY DEF IInv, HolderInv, Held
<1> QED
    BY <1>1, NextTypeOK, LockStep, CacheStep, HolderStep, ChainStep, LinesStep, CoverStep
       DEF IInv

\* The inductive invariant holds in every reachable state.
THEOREM Invariance == Spec => []IInv
    BY InitIInv, NextIInv, PTL DEF Spec

\* Every file, the lock and the locals keep the types append_claim gives them.
THEOREM TypeCorrect == Spec => []TypeOK
<1>1. IInv => TypeOK
    BY DEF IInv
<1> QED
    BY <1>1, Invariance, PTL

\* integrity.jsonl is one chain whoever crashes and whatever the cache says.
THEOREM ChainIsLinked == Spec => []ChainLinked
<1>1. IInv => ChainLinked
    BY DEF IInv
<1> QED
    BY <1>1, Invariance, PTL

\* No line is signed twice, and none before it is written.
THEOREM NoLineSignedTwice == Spec => []LineNumbersIncrease
<1>1. IInv => LineNumbersIncrease
    BY DEF IInv
<1> QED
    BY <1>1, Invariance, PTL

\* In the middle of an append a verifier could name the last line, as unsigned,
\* and nothing else.
LEMMA OpenLine == IInv => OnlyTheLastLineIsOpen
<1> SUFFICES ASSUME IInv, ~orphaned, integrity # <<>>
             PROVE  /\ Broken(claims, integrity) = {}
                    /\ UnsignedGaps(claims, integrity) \subseteq {Len(claims)}
    BY DEF OnlyTheLastLineIsOpen
<1> USE DEF IInv
<1>1. \A i \in 1 .. Len(integrity) :
         /\ integrity[i].line = integrity[1].line + (i - 1)
         /\ claims[integrity[i].line] = integrity[i].rec
         /\ integrity[i].line \in 1 .. Len(claims)
         /\ ~PrevMismatch(integrity, i)
         /\ ~ChainMismatch(integrity, i)
    BY DEF CoverInv, ChainLinked, LineNumbersIncrease
<1>2. Broken(claims, integrity) = {}
    BY <1>1 DEF Broken, Accusing, NotFound, RecordMismatch
<1>3. LastLine \in {Len(claims), Len(claims) - 1}
  <2>1. CASE InFlight
    <3>1. PICK p \in Proc : pc[p] = "claimed"
        BY <2>1 DEF InFlight
    <3>2. state[p].line + 1 = Len(claims) /\ LastLine = state[p].line
        BY <3>1 DEF CoverInv
    <3>3. state[p].line \in Nat
        BY DEF TypeOK, AppendState
    <3> QED
        BY <3>2, <3>3
  <2>2. CASE ~InFlight
    BY <2>2 DEF CoverInv
  <2> QED
    BY <2>1, <2>2
<1>4. ASSUME NEW line \in UnsignedGaps(claims, integrity) PROVE line = Len(claims)
  <2>1. /\ line \in integrity[1].line .. Len(claims)
        /\ \A i \in 1 .. Len(integrity) : integrity[i].line # line
    BY <1>4 DEF UnsignedGaps
  <2>2. Len(integrity) \in 1 .. Len(integrity) /\ integrity[1].line \in Nat
    BY EntryFields
  <2>3. LastLine = integrity[1].line + (Len(integrity) - 1)
    BY <1>1, <2>2 DEF LastLine
  <2>4. CASE line <= LastLine
    <3> DEFINE i == line - integrity[1].line + 1
    <3>1. i \in 1 .. Len(integrity) /\ integrity[1].line + (i - 1) = line
        BY <2>1, <2>2, <2>3, <2>4
    <3> HIDE DEF i
    <3>2. integrity[i].line = line
        BY <1>1, <3>1
    <3> QED
        BY <2>1, <3>1, <3>2
  <2>5. CASE line > LastLine
    BY <1>3, <2>1, <2>2, <2>3, <2>5, EntryFields
  <2> QED
    BY <2>1, <2>2, <2>3, <2>4, <2>5, EntryFields
<1> QED
    BY <1>2, <1>4

\* In the middle of an append a verifier can name the line just written, as an
\* unsigned gap, and nothing else.
THEOREM OnlyAnOpenLine == Spec => []OnlyTheLastLineIsOpen
    BY OpenLine, Invariance, PTL

\* Between appends the ledger verifies, unless an append has died between its
\* line and its entry.
LEMMA QuietVerifies == IInv => Verifies
<1> SUFFICES ASSUME IInv, ~orphaned, ~InFlight
             PROVE  VerifyStatus(claims, integrity) # "BROKEN"
    BY DEF Verifies
<1>1. CASE integrity = <<>>
    BY <1>1 DEF VerifyStatus
<1>2. CASE integrity # <<>>
  <2>1. /\ Broken(claims, integrity) = {}
        /\ UnsignedGaps(claims, integrity) \subseteq {Len(claims)}
    BY <1>2, OpenLine DEF OnlyTheLastLineIsOpen
  <2>2. Len(integrity) \in 1 .. Len(integrity) /\ LastLine = Len(claims)
    BY <1>2, EntryFields DEF IInv, CoverInv
  <2>3. Len(claims) \notin UnsignedGaps(claims, integrity)
    BY <2>2 DEF UnsignedGaps, LastLine
  <2>4. UnsignedGaps(claims, integrity) = {}
    BY <2>1, <2>3
  <2> QED
    BY <2>1, <2>4 DEF VerifyStatus
<1> QED
    BY <1>1, <1>2

\* verify_integrity finds nothing BROKEN between appends, unless one of them
\* died between its line and its entry.
THEOREM LedgerVerifies == Spec => []Verifies
    BY QuietVerifies, Invariance, PTL

\* Between appends, and without an orphan, every line from the first signed one to
\* the last has its entry, with the record that stands there.
LEMMA LinesAreSigned ==
    ASSUME IInv, ~orphaned, ~InFlight, integrity # <<>>,
           NEW n \in integrity[1].line .. Len(claims)
    PROVE  \E i \in 1 .. Len(integrity) : integrity[i].line = n /\ integrity[i].rec = claims[n]
<1> USE DEF IInv
<1>1. /\ Len(integrity) \in 1 .. Len(integrity) /\ integrity[1].line \in Nat
      /\ LastLine = Len(claims) /\ Len(claims) \in Nat
    BY EntryFields, LenProperties DEF CoverInv, TypeOK
<1>2. \A i \in 1 .. Len(integrity) :
         /\ integrity[i].line = integrity[1].line + (i - 1)
         /\ claims[integrity[i].line] = integrity[i].rec
    BY DEF CoverInv
<1>3. Len(claims) = integrity[1].line + (Len(integrity) - 1)
    BY <1>1, <1>2 DEF LastLine
<1> DEFINE i == n - integrity[1].line + 1
<1>4. i \in 1 .. Len(integrity) /\ integrity[1].line + (i - 1) = n
    BY <1>1, <1>3
<1> HIDE DEF i
<1> QED
    BY <1>2, <1>4

\* Another record on a signed line, a line more or a line less in claims.jsonl:
\* verify_integrity reports each of them as BROKEN, unless an append has died
\* between its line and its entry.
THEOREM ChangesAreReported == Spec => []ChangeIsReported
<1>1. IInv => ChangeIsReported
  <2> SUFFICES ASSUME IInv, ~orphaned, ~InFlight, integrity # <<>>,
                      NEW n \in integrity[1].line .. Len(claims)
               PROVE  LET Reported(lines) == VerifyStatus(lines, integrity) = "BROKEN"
                      IN  /\ \A r \in Record \ {claims[n]} :
                                Reported([claims EXCEPT ![n] = r])
                          /\ \A r \in Record :
                                Reported(SubSeq(claims, 1, n) \o <<r>>
                                            \o SubSeq(claims, n + 1, Len(claims)))
                          /\ Reported(SubSeq(claims, 1, n - 1)
                                         \o SubSeq(claims, n + 1, Len(claims)))
    BY DEF ChangeIsReported
  <2>1. /\ Len(integrity) \in 1 .. Len(integrity) /\ LastLine = Len(claims)
        /\ integrity[1].line \in 1 .. Len(claims)
        /\ claims \in Seq(Record) /\ Len(claims) \in Nat /\ n \in 1 .. Len(claims)
    BY EntryFields, LenProperties DEF IInv, CoverInv, TypeOK, LineNumbersIncrease
  <2>2. ASSUME NEW r \in Record \ {claims[n]}
        PROVE  VerifyStatus([claims EXCEPT ![n] = r], integrity) = "BROKEN"
    <3> DEFINE lines == [claims EXCEPT ![n] = r]
    <3>1. Len(lines) = Len(claims) /\ lines[n] = r
        BY <2>1, ExceptSeq
    <3>2. PICK i \in 1 .. Len(integrity) :
                  integrity[i].line = n /\ integrity[i].rec = claims[n]
        BY LinesAreSigned
    <3>3. i \in Broken(lines, integrity)
        BY <2>1, <3>1, <3>2 DEF Broken, Accusing, RecordMismatch, NotFound
    <3> QED
        BY <3>3 DEF VerifyStatus
  <2>3. ASSUME NEW r \in Record
        PROVE  VerifyStatus(SubSeq(claims, 1, n) \o <<r>> \o SubSeq(claims, n + 1, Len(claims)),
                            integrity) = "BROKEN"
    <3> DEFINE head  == SubSeq(claims, 1, n)
               tail  == SubSeq(claims, n + 1, Len(claims))
               first == head \o <<r>>
               lines == first \o tail
    <3>1. /\ head \in Seq(Record) /\ Len(head) = n
          /\ tail \in Seq(Record) /\ Len(tail) = Len(claims) - n
          /\ <<r>> \in Seq(Record) /\ Len(<<r>>) = 1
        BY <2>1, SubSeqProperties
    <3> HIDE DEF head, tail
    <3>2. first \in Seq(Record) /\ Len(first) = n + 1
        BY <2>1, <3>1, ConcatProperties
    <3> HIDE DEF first
    <3>3. Len(lines) = Len(claims) + 1
      <4>1. Len(first \o tail) = Len(first) + Len(tail)
        BY <3>1, <3>2, ConcatProperties
      <4> QED
        BY <2>1, <3>1, <3>2, <4>1
    <3>4. \A i \in 1 .. Len(integrity) : integrity[i].line # Len(claims) + 1
        BY <2>1 DEF IInv, LineNumbersIncrease
    <3>5. Len(claims) + 1 \in integrity[1].line .. Len(lines)
        BY <2>1, <3>3
    <3> HIDE DEF lines
    <3>6. VerifyStatus(lines, integrity) = "BROKEN"
        BY <3>4, <3>5 DEF VerifyStatus, UnsignedGaps
    <3> QED
        BY <3>6 DEF lines, first, head, tail
  <2>4. VerifyStatus(SubSeq(claims, 1, n - 1) \o SubSeq(claims, n + 1, Len(claims)),
                     integrity) = "BROKEN"
    <3> DEFINE head  == SubSeq(claims, 1, n - 1)
               tail  == SubSeq(claims, n + 1, Len(claims))
               lines == head \o tail
    <3>1. /\ head \in Seq(Record) /\ Len(head) = n - 1
          /\ tail \in Seq(Record) /\ Len(tail) = Len(claims) - n
        BY <2>1, SubSeqProperties
    <3> HIDE DEF head, tail
    <3>2. Len(lines) = Len(claims) - 1
        BY <2>1, <3>1, ConcatProperties
    <3> HIDE DEF lines
    <3>3. Len(integrity) \in Broken(lines, integrity)
        BY <2>1, <3>2 DEF Broken, NotFound, LastLine
    <3>4. VerifyStatus(lines, integrity) = "BROKEN"
        BY <2>1, <3>3 DEF VerifyStatus
    <3> QED
        BY <3>4 DEF lines, head, tail
  <2> QED
    BY <2>2, <2>3, <2>4
<1> QED
    BY <1>1, Invariance, PTL

\* The row of a claim only ever becomes the record on the last line.
THEOREM IndexIsLatest == Spec => IndexTakesLatest
<1> DEFINE Latest ==
        \A c \in ClaimId : index'[c] # index[c] =>
           \E n \in 1 .. Len(claims) :
              /\ claims[n] = index'[c]
              /\ claims[n].id = c
              /\ \A m \in n + 1 .. Len(claims) : claims[m].id # c
<1>1. ASSUME IInv, [Next]_vars PROVE [Latest]_vars
  <2>1. ASSUME NEW p \in Proc, UpdateIndex(p) PROVE Latest
    <3> SUFFICES ASSUME NEW c \in ClaimId, index'[c] # index[c]
                 PROVE  \E n \in 1 .. Len(claims) :
                           /\ claims[n] = index'[c]
                           /\ claims[n].id = c
                           /\ \A m \in n + 1 .. Len(claims) : claims[m].id # c
        OBVIOUS
    <3>1. Len(claims) \in 1 .. Len(claims) /\ claims[Len(claims)] = arg[p]
        BY <1>1, <2>1, EntryFields DEF UpdateIndex, IInv, HolderInv, Held
    <3>2. c = arg[p].id /\ index'[c] = arg[p]
        BY <1>1, <2>1 DEF UpdateIndex, IInv, TypeOK
    <3>3. \A m \in Len(claims) + 1 .. Len(claims) : FALSE
        BY <3>1
    <3> QED
        BY <3>1, <3>2, <3>3
  <2>2. CASE UNCHANGED index
    BY <2>2
  <2> QED
    BY <1>1, <2>1, <2>2
       DEF Next, Step, vars, files, Call, Acquire, Load, LoadRaises, WriteClaim,
           WriteIntegrity, SaveState, Release, Crash, UpsetCache
<1> QED
    BY <1>1, Invariance, PTL DEF Spec, IndexTakesLatest

\* Nothing an append or a crash does takes a line away or changes one, and an entry
\* is always of the line written last, though the cache may have been out of date.
THEOREM LedgersAreExtended == Spec => AppendOnly
<1> DEFINE Extended ==
        /\ claims' # claims => \E r \in Record : claims' = Append(claims, r)
        /\ integrity' # integrity =>
              LET entry == integrity'[Len(integrity')]
              IN  /\ integrity' = Append(integrity, entry)
                  /\ entry.rec = claims[Len(claims)]
<1>1. ASSUME IInv, [Next]_vars PROVE [Extended]_vars
  <2>1. ASSUME NEW p \in Proc, WriteClaim(p) PROVE Extended
    <3>1. arg[p] \in Record
        BY <1>1, <2>1 DEF WriteClaim, IInv, HolderInv, Held
    <3> QED
        BY <2>1, <3>1 DEF WriteClaim
  <2>2. ASSUME NEW p \in Proc, WriteIntegrity(p) PROVE Extended
    <3> DEFINE entry == IntegrityEntry(state[p].line + 1, arg[p], state[p].chain)
    <3>1. integrity' = Append(integrity, entry) /\ claims' = claims
        BY <2>2 DEF WriteIntegrity
    <3>2. entry.rec = arg[p]
        BY DEF IntegrityEntry
    <3> HIDE DEF entry
    <3>3. integrity'[Len(integrity')] = entry
        BY <1>1, <3>1, AppendProperties DEF IInv, TypeOK
    <3>4. claims[Len(claims)] = arg[p]
        BY <1>1, <2>2 DEF WriteIntegrity, IInv, HolderInv, Held
    <3> QED
        BY <3>1, <3>2, <3>3, <3>4
  <2>3. CASE UNCHANGED <<claims, integrity>>
    BY <2>3
  <2> QED
    BY <1>1, <2>1, <2>2, <2>3
       DEF Next, Step, vars, files, Call, Acquire, Load, LoadRaises, SaveState, UpdateIndex, Release,
           Crash, UpsetCache
<1> QED
    BY <1>1, Invariance, PTL DEF Spec, AppendOnly

-----------------------------------------------------------------------------
(* LedgerAppend implements SignedLog. *)

\* The abstract log is a sequence, and a step that adds an entry extends it by
\* what stands on the line named and what was signed for it.
LEMMA SignedLinesType ==
    ASSUME IInv
    PROVE  /\ SignedLines \in Seq([rec : Record, signed : Record])
           /\ Len(SignedLines) = Len(integrity)
<1>1. Len(integrity) \in Nat /\ claims \in Seq(Record) /\ integrity \in Seq(Entry)
    BY EntryFields DEF IInv, TypeOK
<1>2. ASSUME NEW i \in 1 .. Len(integrity)
      PROVE  [rec |-> claims[integrity[i].line], signed |-> integrity[i].rec]
                \in [rec : Record, signed : Record]
  <2>1. integrity[i] \in Entry /\ integrity[i].line \in 1 .. Len(claims)
    BY <1>1, ElementOfSeq DEF IInv, LineNumbersIncrease
  <2>2. claims[integrity[i].line] \in Record
    BY <1>1, <2>1, ElementOfSeq
  <2> QED
    BY <2>1, <2>2 DEF Entry
<1>3. SignedLines \in [1 .. Len(integrity) -> [rec : Record, signed : Record]]
    BY <1>2 DEF SignedLines
<1> QED
    BY <1>1, <1>3, FunctionIsSequence

\* Writing an entry adds one signed line: the record on the line it names, with
\* the record signed; the signed lines before it stay as they are.
LEMMA SignedLinesStep ==
    ASSUME IInv, IInv', NEW p \in Proc, WriteIntegrity(p)
    PROVE  /\ state[p].line + 1 \in 1 .. Len(claims)
           /\ SignedLines' = Append(SignedLines, [rec    |-> claims[state[p].line + 1],
                                                 signed |-> arg[p]])
<1> DEFINE added == [rec |-> claims[state[p].line + 1], signed |-> arg[p]]
           Lines == [rec : Record, signed : Record]
<1>1. /\ state[p].line + 1 \in 1 .. Len(claims)
      /\ state[p].line + 1 = integrity'[Len(integrity')].line
      /\ claims' = claims
      /\ claims \in Seq(Record)
      /\ arg[p] \in Record
  <2>1. pc[p] = "claimed" /\ claims' = claims
    BY DEF WriteIntegrity
  <2>2. arg[p] \in Record /\ state[p].line < Len(claims)
    BY <2>1 DEF IInv, HolderInv, Held
  <2>3. state[p].line \in Nat /\ state[p].line + 1 = integrity'[Len(integrity')].line
    BY WrittenEntry DEF IInv
  <2>4. Len(claims) \in Nat /\ claims \in Seq(Record)
    BY EntryFields DEF IInv, TypeOK
  <2> QED
    BY <2>1, <2>2, <2>3, <2>4
<1>2. added \in Lines
    BY <1>1, ElementOfSeq
<1>3. /\ SignedLines \in Seq(Lines) /\ Len(SignedLines) = Len(integrity)
      /\ SignedLines' \in Seq(Lines) /\ Len(SignedLines') = Len(integrity')
      /\ Len(integrity') = Len(integrity) + 1
      /\ Len(integrity) \in Nat
  <2>1. SignedLines \in Seq(Lines) /\ Len(SignedLines) = Len(integrity)
    BY SignedLinesType
  <2>2. (SignedLines \in Seq(Lines) /\ Len(SignedLines) = Len(integrity))'
    BY SignedLinesType, PTL
  <2> QED
    BY <2>1, <2>2, WrittenEntry DEF IInv
<1>4. /\ Append(SignedLines, added) \in Seq(Lines)
      /\ Len(Append(SignedLines, added)) = Len(integrity) + 1
      /\ \A i \in 1 .. Len(integrity) : Append(SignedLines, added)[i] = SignedLines[i]
      /\ Append(SignedLines, added)[Len(integrity) + 1] = added
    BY <1>2, <1>3, AppendProperties
<1>5. ASSUME NEW i \in 1 .. Len(SignedLines')
      PROVE  SignedLines'[i] = Append(SignedLines, added)[i]
  <2>1. SignedLines'[i] = [rec |-> claims[integrity'[i].line], signed |-> integrity'[i].rec]
    BY <1>1, <1>3, <1>5 DEF SignedLines
  <2>2. CASE i \in 1 .. Len(integrity)
    BY <1>4, <2>1, <2>2, WrittenEntry DEF SignedLines, IInv
  <2>3. CASE i = Len(integrity) + 1
    BY <1>1, <1>3, <1>4, <2>1, <2>3, WrittenEntry DEF IInv
  <2> QED
    BY <1>3, <2>2, <2>3
<1> QED
    BY <1>1, <1>3, <1>4, <1>5, SeqEqual

\* append_claim, whatever interrupts it, adds signed lines one at a time; only
\* after an orphan may a signature be another record's.
THEOREM Refinement == Spec => ImplementsSignedLog
<1>1. Init => Log!Init
    BY EmptySeq DEF Init, Log!Init, SignedLines
<1>2. ASSUME IInv, IInv', [Next]_vars PROVE [Log!Next]_(Log!vars)
  <2>1. ASSUME NEW p \in Proc, WriteIntegrity(p) PROVE Log!Next
    <3>1. SignedLines' = Append(SignedLines, [rec    |-> claims[state[p].line + 1],
                                              signed |-> arg[p]])
        BY <1>2, <2>1, SignedLinesStep
    <3>2. orphaned' = orphaned /\ arg[p] \in Record
        BY <1>2, <2>1 DEF WriteIntegrity, IInv, HolderInv, Held
    <3>3. claims[state[p].line + 1] \in Record
        BY <1>2, <2>1, SignedLinesStep, ElementOfSeq DEF IInv, TypeOK
    <3>4. CASE orphaned
        BY <3>1, <3>2, <3>3, <3>4 DEF Log!Next, Log!AppendMissigned
    <3>5. CASE ~orphaned
      <4>1. claims[state[p].line + 1] = arg[p]
          BY <1>2, <2>1, <3>5 DEF WriteIntegrity, IInv, HolderInv, Held, CoverInv
      <4> QED
          BY <3>1, <3>2, <4>1 DEF Log!Next, Log!AppendSigned
    <3> QED
        BY <3>4, <3>5
  <2>2. ASSUME NEW p \in Proc, WriteClaim(p) PROVE UNCHANGED Log!vars
    <3>1. integrity' = integrity /\ orphaned' = orphaned
        BY <2>2 DEF WriteClaim
    <3>2. \A i \in 1 .. Len(integrity) : claims'[integrity[i].line] = claims[integrity[i].line]
        BY <1>2, <2>2, WrittenClaim DEF IInv, LineNumbersIncrease
    <3> QED
        BY <3>1, <3>2 DEF Log!vars, SignedLines
  <2>3. ASSUME NEW p \in Proc, Crash(p) PROVE [Log!Next]_(Log!vars)
    <3>1. SignedLines' = SignedLines
        BY <2>3 DEF Crash, files, SignedLines
    <3>2. orphaned' = TRUE \/ orphaned' = orphaned
        BY <1>2, <2>3 DEF Crash, IInv, TypeOK
    <3> QED
        BY <3>1, <3>2 DEF Log!Next, Log!Damage, Log!vars
  <2>4. CASE UNCHANGED <<claims, integrity, orphaned>>
    BY <2>4 DEF Log!vars, SignedLines
  <2> QED
    BY <1>2, <2>1, <2>2, <2>3, <2>4
       DEF Next, Step, vars, files, Call, Acquire, Load, LoadRaises, SaveState, UpdateIndex,
           Release, UpsetCache
<1> QED
    BY <1>1, <1>2, Invariance, PTL DEF Spec, ImplementsSignedLog, Log!Spec

-----------------------------------------------------------------------------
(* What verify_integrity can say while others append.  The appenders go on as    *)
(* before, so their invariant IInv holds beside the reader.  What is added is    *)
(* what the first read may be relied on for: its lines are still there, and if   *)
(* nothing has disturbed the reading they are all there is.                      *)

\* A reading under way saw lines that are there; one that is undisturbed saw all
\* of them, in a ledger that was not in the middle of an append and so verified.
SeenInv ==
    /\ seen # NotReading => seen \in 0 .. Len(claims)
    /\ seen # NotReading /\ ~disturbed =>
          /\ seen = Len(claims)
          /\ VerifyStatus(claims, integrity) = "BROKEN" => orphaned

ReaderInv ==
    /\ IInv
    /\ ReaderTypeOK
    /\ SeenInv
    /\ NeverAccuses
    /\ FalseAlarmOnlyInARace

-----------------------------------------------------------------------------
(* What a step of the appenders leaves to the reader *)

\* The claims are only extended, and an orphan stays one.
LEMMA LedgersGrow ==
    ASSUME IInv, [Next]_vars
    PROVE  /\ Len(claims) <= Len(claims')
           /\ Len(claims) \in Nat /\ Len(claims') \in Nat
           /\ orphaned => orphaned'
<1>1. IInv'
    BY NextIInv
<1>2. Len(claims) \in Nat /\ Len(claims') \in Nat
    BY <1>1, LenProperties DEF IInv, TypeOK
<1>3. ASSUME NEW p \in Proc, WriteClaim(p) PROVE Len(claims) <= Len(claims')
    BY <1>2, <1>3, WrittenClaim DEF IInv
<1>4. (\A p \in Proc : ~WriteClaim(p)) => claims' = claims
    BY DEF Next, Step, vars, files, Call, Acquire, Load, LoadRaises, WriteIntegrity, SaveState,
           UpdateIndex, Release, Crash, UpsetCache
<1>5. orphaned => orphaned'
    BY DEF Next, Step, vars, files, Call, Acquire, Load, LoadRaises, WriteClaim,
           WriteIntegrity, SaveState, UpdateIndex, Release, Crash, UpsetCache
<1> QED
    BY <1>2, <1>3, <1>4, <1>5

\* Without an orphan no entry accuses a line that is there, however few of the lines
\* are looked at.
LEMMA NothingAccused ==
    ASSUME IInv, ~orphaned, NEW n \in 0 .. Len(claims)
    PROVE  Accusing(SubSeq(claims, 1, n), integrity) = {}
<1> DEFINE lines == SubSeq(claims, 1, n)
<1>1. claims \in Seq(Record) /\ Len(claims) \in Nat
    BY LenProperties DEF IInv, TypeOK
<1>2. Len(lines) = n /\ \A k \in 1 .. n : lines[k] = claims[k]
    BY <1>1, SubSeqProperties
<1>3. \A i \in 1 .. Len(integrity) :
         /\ claims[integrity[i].line] = integrity[i].rec
         /\ ~PrevMismatch(integrity, i) /\ ~ChainMismatch(integrity, i)
    BY DEF IInv, CoverInv, ChainLinked
<1> HIDE DEF lines
<1>4. Accusing(lines, integrity) = {}
    BY <1>2, <1>3 DEF Accusing, RecordMismatch, NotFound
<1> QED
    BY <1>4 DEF lines

\* All lines of a ledger are the ledger.
LEMMA AllLines ==
    ASSUME TypeOK
    PROVE  SubSeq(claims, 1, Len(claims)) = claims
    BY SubSeqFull DEF TypeOK

-----------------------------------------------------------------------------
(* The invariant *)

\* Nobody reads at first.
LEMMA ReaderInvInit == ReaderInit => ReaderInv
    BY InitIInv
       DEF ReaderInit, ReaderInv, ReaderTypeOK, SeenInv, NeverAccuses, FalseAlarmOnlyInARace

\* Both reads of the reader, and every step of an appender between them, keep it.
LEMMA ReaderInvStep == ReaderInv /\ [ReaderNext]_allVars => ReaderInv'
<1> SUFFICES ASSUME ReaderInv, [ReaderNext]_allVars PROVE ReaderInv'
    OBVIOUS
<1>1. IInv /\ Verifies /\ Len(claims) \in Nat /\ [Next]_vars
  <2>1. [Next]_vars
    BY DEF ReaderNext, ReadClaims, ReadIntegrity, AppendStep, allVars
  <2> QED
    BY <2>1, QuietVerifies, LedgersGrow DEF ReaderInv
<1>2. IInv'
    BY <1>1, NextIInv
<1>3. CASE ReadClaims
  <2>1. UNCHANGED <<claims, integrity, orphaned>>
    BY <1>3 DEF ReadClaims, vars
  <2>2. ReaderTypeOK'
    BY <1>1, <1>3 DEF ReadClaims, ReaderInv, ReaderTypeOK, InFlight
  <2>3. SeenInv'
    BY <1>1, <1>3, <2>1 DEF ReadClaims, SeenInv, Verifies
  <2> QED
    BY <1>2, <1>3, <2>2, <2>3 DEF ReadClaims, ReaderInv, NeverAccuses, FalseAlarmOnlyInARace
<1>4. CASE ReadIntegrity
  <2>1. UNCHANGED <<claims, integrity, orphaned, disturbed>> /\ seen' = NotReading
        /\ seen # NotReading
    BY <1>4 DEF ReadIntegrity, vars
  <2>2. SeenInv'
    BY <2>1 DEF SeenInv
  <2>3. seen \in 0 .. Len(claims)
    BY <2>1 DEF ReaderInv, SeenInv
  <2>4. CASE /\ report' = VerifyStatus(SubSeq(claims, 1, seen), integrity)
             /\ blamed' = (Accusing(SubSeq(claims, 1, seen), integrity) # {})
    <3>1. ReaderTypeOK'
        BY <2>1, <2>4 DEF ReaderInv, ReaderTypeOK, VerifyStatus
    <3>2. NeverAccuses'
        BY <1>1, <2>1, <2>3, <2>4, NothingAccused DEF NeverAccuses
    <3>3. FalseAlarmOnlyInARace'
      <4> SUFFICES ASSUME ~disturbed, report' = "BROKEN" PROVE orphaned
        BY <2>1 DEF FalseAlarmOnlyInARace
      <4>1. SubSeq(claims, 1, seen) = claims
        BY <1>1, <2>1, AllLines DEF ReaderInv, SeenInv, IInv
      <4> QED
        BY <2>1, <2>4, <4>1 DEF ReaderInv, SeenInv
    <3> QED
        BY <1>2, <2>2, <3>1, <3>2, <3>3 DEF ReaderInv
  <2>5. CASE report' = "OK" /\ blamed' = FALSE
    <3>1. ReaderTypeOK'
        BY <2>1, <2>5 DEF ReaderInv, ReaderTypeOK
    <3> QED
        BY <1>2, <2>2, <2>5, <3>1 DEF ReaderInv, NeverAccuses, FalseAlarmOnlyInARace
  <2> QED
    BY <1>4, <2>4, <2>5 DEF ReadIntegrity
<1>5. CASE AppendStep
  <2>1. /\ UNCHANGED <<seen, report, blamed>>
        /\ disturbed' = (disturbed \/ (seen # NotReading
                            /\ <<claims, integrity>>' # <<claims, integrity>>))
    BY <1>5 DEF AppendStep
  <2>2. Len(claims) <= Len(claims') /\ Len(claims') \in Nat /\ (orphaned => orphaned')
    BY <1>1, LedgersGrow
  <2>3. ReaderTypeOK'
    BY <2>1 DEF ReaderInv, ReaderTypeOK
  <2>4. SeenInv'
    <3>1. seen' # NotReading => seen' \in 0 .. Len(claims')
        BY <1>1, <2>1, <2>2 DEF ReaderInv, SeenInv
    <3>2. seen' # NotReading /\ ~disturbed' =>
             seen # NotReading /\ ~disturbed /\ UNCHANGED <<claims, integrity>>
        BY <2>1
    <3> QED
        BY <2>1, <2>2, <3>1, <3>2 DEF ReaderInv, SeenInv
  <2>5. NeverAccuses' /\ FalseAlarmOnlyInARace'
    BY <2>1, <2>2 DEF ReaderInv, NeverAccuses, FalseAlarmOnlyInARace
  <2> QED
    BY <1>2, <2>3, <2>4, <2>5 DEF ReaderInv
<1>6. CASE UNCHANGED allVars
  <2>1. UNCHANGED <<claims, integrity, orphaned, seen, report, blamed, disturbed>>
    BY <1>6 DEF allVars, vars, readerVars
  <2> QED
    BY <1>2, <2>1 DEF ReaderInv, ReaderTypeOK, SeenInv, NeverAccuses, FalseAlarmOnlyInARace
<1> QED
    BY <1>3, <1>4, <1>5, <1>6 DEF ReaderNext

\* The reader's invariant, with that of the appenders, holds at every moment.
THEOREM ReaderInvariance == ReaderSpec => []ReaderInv
    BY ReaderInvInit, ReaderInvStep, PTL DEF ReaderSpec

-----------------------------------------------------------------------------
(* The results *)

\* verify_integrity without the lock accuses no record that is stored, unless an
\* append has died between its line and its entry.
THEOREM NobodyIsAccused == ReaderSpec => []NeverAccuses
<1>1. ReaderInv => NeverAccuses
    BY DEF ReaderInv
<1> QED
    BY <1>1, ReaderInvariance, PTL

\* It says BROKEN of a sound ledger only if an append ran while it was reading.
THEOREM AlarmsAreRaces == ReaderSpec => []FalseAlarmOnlyInARace
<1>1. ReaderInv => FalseAlarmOnlyInARace
    BY DEF ReaderInv
<1> QED
    BY <1>1, ReaderInvariance, PTL

\* How many numbers there are from one to another.
LEMMA IntervalSize ==
    ASSUME NEW a \in Nat, NEW b \in Nat, a <= b + 1
    PROVE  IsFiniteSet(a .. b) /\ Cardinality(a .. b) = b - a + 1
<1>1. a \in Int /\ b \in Int
    OBVIOUS
<1>2. IsFiniteSet(a .. b) /\ Cardinality(a .. b) = IF a > b THEN 0 ELSE b - a + 1
    BY <1>1, FS_Interval
<1> QED
    BY <1>2

\* More lines than entries from the first signed line on: one of them has none.
LEMMA TooFewEntries ==
    ASSUME IInv, integrity # <<>>,
           Len(claims) - integrity[1].line >= Len(integrity)
    PROVE  UnsignedGaps(claims, integrity) # {}
<1> DEFINE first   == integrity[1].line
           last    == Len(claims)
           entries == Len(integrity)
<1>1. first \in Nat /\ last \in Nat /\ entries \in Nat /\ last - first >= entries
  <2>1. Len(integrity) \in 1 .. Len(integrity)
    BY EntryFields DEF IInv
  <2> QED
    BY <2>1, EntryFields DEF IInv
<1>2. SUFFICES ASSUME UnsignedGaps(claims, integrity) = {} PROVE FALSE
    OBVIOUS
<1>3. \A line \in first .. last : \E i \in 1 .. entries : integrity[i].line = line
    BY <1>2 DEF UnsignedGaps
<1> HIDE DEF first, last, entries
<1>4. /\ IsFiniteSet(first .. last) /\ Cardinality(first .. last) = last - first + 1
      /\ IsFiniteSet(1 .. entries) /\ Cardinality(1 .. entries) = entries
  <2>1. IsFiniteSet(first .. last) /\ Cardinality(first .. last) = last - first + 1
    <3>1. first <= last + 1
        BY <1>1
    <3> QED
        BY <1>1, <3>1, IntervalSize
  <2>2. IsFiniteSet(1 .. entries) /\ Cardinality(1 .. entries) = entries - 1 + 1
    <3>1. 1 <= entries + 1 /\ 1 \in Nat
        BY <1>1
    <3> QED
        BY <1>1, <3>1, IntervalSize
  <2> QED
    BY <1>1, <2>1, <2>2
<1>5. Cardinality(1 .. entries) < Cardinality(first .. last)
    BY <1>1, <1>4
<1> DEFINE f == [line \in first .. last |-> CHOOSE i \in 1 .. entries : integrity[i].line = line]
<1>6. \A line \in first .. last : f[line] \in 1 .. entries /\ integrity[f[line]].line = line
    BY <1>3
<1>7. f \in [first .. last -> 1 .. entries]
    BY <1>6
<1> HIDE DEF f
<1>8. \E x, y \in first .. last : x # y /\ f[x] = f[y]
    BY <1>4, <1>5, <1>7, FS_PigeonHole
<1> QED
    BY <1>6, <1>8

\* A claim line left without an entry is reported by every undisturbed reading.
THEOREM UnsignedIsReported == ReaderSpec => UnsignedLineIsReported
<1> DEFINE Reported == ReadIntegrity /\ ~disturbed /\ integrity # <<>>
                         /\ Len(claims) - integrity[1].line >= Len(integrity)
                       => report' = "BROKEN"
<1>1. ReaderInv => Reported
  <2> SUFFICES ASSUME ReaderInv, ReadIntegrity, ~disturbed, integrity # <<>>,
                      Len(claims) - integrity[1].line >= Len(integrity)
               PROVE  report' = "BROKEN"
    OBVIOUS
  <2>1. IInv /\ seen = Len(claims)
    BY DEF ReaderInv, SeenInv, ReadIntegrity
  <2>2. SubSeq(claims, 1, seen) = claims
    BY <2>1, AllLines DEF IInv
  <2>3. VerifyStatus(claims, integrity) = "BROKEN"
    BY <2>1, TooFewEntries DEF VerifyStatus
  <2>4. seen # 0
    BY <2>1, EntryFields DEF IInv, LineNumbersIncrease
  <2> QED
    BY <2>2, <2>3, <2>4 DEF ReadIntegrity
<1> QED
    BY <1>1, ReaderInvariance, PTL DEF UnsignedLineIsReported
=============================================================================
