---------------------------- MODULE LedgerAppend ----------------------------
(***************************************************************************)
(* MemoryStore.append_claim run by any number of processes on one memory   *)
(* directory: claims.jsonl, integrity.jsonl, append_state.json (a cache)   *)
(* and the rows of index.sqlite, all written under .append.lock.           *)
(*                                                                         *)
(* One step of the model is one thing another process, or a crash, can     *)
(* separate from the next: taking the lock, loading the append state,      *)
(* writing the claim line, writing its integrity entry, replacing the      *)
(* cache, updating the index, freeing the lock.                            *)
(***************************************************************************)
EXTENDS IntegrityChain

CONSTANTS
    Proc,       \* the processes that append
    Free,       \* nobody holds .append.lock
    NoRecord,   \* a record hash that is None
    NoCache,    \* append_state.json is missing, does not parse or lacks a field
    BadCache,   \* append_state.json is JSON, but not an object of numbers and strings
    MaxLegacy,  \* bound: claim lines older than the integrity chain
    MaxClaims,  \* bound: no append begins once claims.jsonl has this many lines
    MaxUpsets   \* bound: crashes and damages to the cache, taken together

AppendState == [line : Nat, chain : Chain, rec : Record \cup {NoRecord}]

ASSUME ConstantsAssumption ==
    /\ Free \notin Proc
    /\ NoRecord \notin Record
    /\ NoCache \notin AppendState /\ BadCache \notin AppendState
    /\ NoCache # BadCache
    /\ MaxLegacy \in Nat /\ MaxClaims \in Nat /\ MaxUpsets \in Nat

VARIABLES
    claims,     \* claims.jsonl: one record per line
    integrity,  \* integrity.jsonl: one entry per line
    cache,      \* append_state.json
    index,      \* index.sqlite: the row of each claim
    lock,       \* who holds .append.lock
    pc,         \* how far each process is in append_claim
    arg,        \* the claim each process is appending
    state,      \* the AppendState each process works from
    upsets,     \* how many upsets there have been
    orphaned    \* history: some append died between its line and its entry

files == <<claims, integrity, cache, index>>
vars  == <<claims, integrity, cache, index, lock, pc, arg, state, upsets, orphaned>>

Holding == {"locked", "loaded", "claimed", "signed", "saved", "indexed"}

EmptyState == [line |-> 0, chain |-> NoChain, rec |-> NoRecord]

TypeOK ==
    /\ claims \in Seq(Record)
    /\ integrity \in Seq(Entry)
    /\ cache \in AppendState \cup {NoCache, BadCache}
    /\ index \in [ClaimId -> Record \cup {NoRecord}]
    /\ lock \in Proc \cup {Free}
    /\ pc \in [Proc -> {"idle", "waiting"} \cup Holding]
    /\ arg \in [Proc -> Record \cup {NoRecord}]
    /\ state \in [Proc -> AppendState]
    /\ upsets \in Nat
    /\ orphaned \in BOOLEAN

-----------------------------------------------------------------------------
(* append_state.load_or_rebuild *)

\* Mutant of Rebuilt: lines are counted by their entries, legacy lines forgotten.
RebuiltFromIntegrity ==
    [line  |-> Len(integrity),
     chain |-> LastChain(integrity),
     rec   |-> IF claims = <<>> THEN NoRecord ELSE claims[Len(claims)]]

\* The state after a full scan of the two ledgers.
Rebuilt ==
    [line  |-> Len(claims),
     chain |-> LastChain(integrity),
     rec   |-> IF claims = <<>> THEN NoRecord ELSE claims[Len(claims)]]

\* The cache agrees with the last line of integrity.jsonl; claims.jsonl is
\* not looked at.
MatchesTail(s) ==
    IF integrity = <<>> THEN s.chain = NoChain
    ELSE LET tail == integrity[Len(integrity)]
         IN  /\ tail.line = s.line
             /\ tail.chain = s.chain
             /\ s.rec = NoRecord \/ tail.rec = s.rec

LoadOrRebuild ==
    IF cache # NoCache /\ MatchesTail(cache) THEN cache ELSE Rebuilt

-----------------------------------------------------------------------------
Init ==
    /\ claims \in UNION {[1 .. n -> Record] : n \in 0 .. MaxLegacy}
    /\ integrity = <<>>
    /\ cache = NoCache
    /\ index = [c \in ClaimId |-> NoRecord]
    /\ lock = Free
    /\ pc = [p \in Proc |-> "idle"]
    /\ arg = [p \in Proc |-> NoRecord]
    /\ state = [p \in Proc |-> EmptyState]
    /\ upsets = 0
    /\ orphaned = FALSE

\* append_claim is called: the line and its hash are computed before the lock.
Call(p) ==
    /\ pc[p] = "idle"
    /\ Len(claims) < MaxClaims
    /\ \E r \in Record : arg' = [arg EXCEPT ![p] = r]
    /\ pc' = [pc EXCEPT ![p] = "waiting"]
    /\ UNCHANGED <<files, lock, state, upsets, orphaned>>

\* Mutant of Acquire: the lock is taken without waiting for it.
AcquireAnyway(p) ==
    /\ pc[p] = "waiting"
    /\ lock' = p
    /\ pc' = [pc EXCEPT ![p] = "locked"]
    /\ UNCHANGED <<files, arg, state, upsets, orphaned>>

Acquire(p) ==
    /\ pc[p] = "waiting"
    /\ lock = Free
    /\ lock' = p
    /\ pc' = [pc EXCEPT ![p] = "locked"]
    /\ UNCHANGED <<files, arg, state, upsets, orphaned>>

Load(p) ==
    /\ pc[p] = "locked"
    /\ cache # BadCache
    /\ state' = [state EXCEPT ![p] = LoadOrRebuild]
    /\ pc' = [pc EXCEPT ![p] = "loaded"]
    /\ UNCHANGED <<files, lock, arg, upsets, orphaned>>

\* load_or_rebuild catches what a missing or unreadable field raises, and no
\* TypeError: the append fails before it has written anything.
LoadRaises(p) ==
    /\ pc[p] = "locked"
    /\ cache = BadCache
    /\ lock' = Free
    /\ pc' = [pc EXCEPT ![p] = "idle"]
    /\ arg' = [arg EXCEPT ![p] = NoRecord]
    /\ UNCHANGED <<files, state, upsets, orphaned>>

WriteClaim(p) ==
    /\ pc[p] = "loaded"
    /\ claims' = Append(claims, arg[p])
    /\ pc' = [pc EXCEPT ![p] = "claimed"]
    /\ UNCHANGED <<integrity, cache, index, lock, arg, state, upsets, orphaned>>

\* Mutant of WriteIntegrity: the number of the line before is signed.
WriteIntegrityOffByOne(p) ==
    LET entry == IntegrityEntry(state[p].line, arg[p], state[p].chain)
    IN  /\ pc[p] = "claimed"
        /\ integrity' = Append(integrity, entry)
        /\ state' = [state EXCEPT ![p] = [line  |-> entry.line + 1,
                                          chain |-> entry.chain,
                                          rec   |-> entry.rec]]
        /\ pc' = [pc EXCEPT ![p] = "signed"]
        /\ UNCHANGED <<claims, cache, index, lock, arg, upsets, orphaned>>

\* append_integrity_entry, and the AppendState built from what it returns.
WriteIntegrity(p) ==
    LET entry == IntegrityEntry(state[p].line + 1, arg[p], state[p].chain)
    IN  /\ pc[p] = "claimed"
        /\ integrity' = Append(integrity, entry)
        /\ state' = [state EXCEPT ![p] = [line  |-> entry.line,
                                          chain |-> entry.chain,
                                          rec   |-> entry.rec]]
        /\ pc' = [pc EXCEPT ![p] = "signed"]
        /\ UNCHANGED <<claims, cache, index, lock, arg, upsets, orphaned>>

\* Mutant of SaveState: the lock is freed here, before the index is updated.
SaveStateAndUnlock(p) ==
    /\ pc[p] = "signed"
    /\ cache' = state[p]
    /\ lock' = Free
    /\ pc' = [pc EXCEPT ![p] = "saved"]
    /\ UNCHANGED <<claims, integrity, index, arg, state, upsets, orphaned>>

\* The replacement is atomic (os.replace); a crash before it is a crash here.
SaveState(p) ==
    /\ pc[p] = "signed"
    /\ cache' = state[p]
    /\ pc' = [pc EXCEPT ![p] = "saved"]
    /\ UNCHANGED <<claims, integrity, index, lock, arg, state, upsets, orphaned>>

\* Best effort: any exception of the index is swallowed.
UpdateIndex(p) ==
    /\ pc[p] = "saved"
    /\ index' \in {index, [index EXCEPT ![arg[p].id] = arg[p]]}
    /\ pc' = [pc EXCEPT ![p] = "indexed"]
    /\ UNCHANGED <<claims, integrity, cache, lock, arg, state, upsets, orphaned>>

Release(p) ==
    /\ pc[p] = "indexed"
    /\ lock' = Free
    /\ pc' = [pc EXCEPT ![p] = "idle"]
    /\ arg' = [arg EXCEPT ![p] = NoRecord]
    /\ state' = [state EXCEPT ![p] = EmptyState]
    /\ UNCHANGED <<files, upsets, orphaned>>

\* Mutant of Crash: the lock outlives its holder.
CrashKeepingLock(p) ==
    /\ pc[p] # "idle"
    /\ upsets < MaxUpsets
    /\ upsets' = upsets + 1
    /\ orphaned' = (orphaned \/ pc[p] = "claimed")
    /\ pc' = [pc EXCEPT ![p] = "idle"]
    /\ arg' = [arg EXCEPT ![p] = NoRecord]
    /\ state' = [state EXCEPT ![p] = EmptyState]
    /\ UNCHANGED <<files, lock>>

\* The process dies, or a write raises out of the with-block: either way the
\* lock is freed, what is on disk stays, and the process may call again.
Crash(p) ==
    /\ pc[p] # "idle"
    /\ upsets < MaxUpsets
    /\ upsets' = upsets + 1
    /\ orphaned' = (orphaned \/ pc[p] = "claimed")
    /\ lock' = IF pc[p] \in Holding THEN Free ELSE lock
    /\ pc' = [pc EXCEPT ![p] = "idle"]
    /\ arg' = [arg EXCEPT ![p] = NoRecord]
    /\ state' = [state EXCEPT ![p] = EmptyState]
    /\ UNCHANGED files

\* append_state.json is deleted, damaged, or put back as it was after an
\* earlier append (a restored copy), at any moment.
UpsetCache ==
    /\ upsets < MaxUpsets
    /\ upsets' = upsets + 1
    /\ cache' \in {NoCache, BadCache} \cup
          {[line |-> integrity[i].line, chain |-> integrity[i].chain,
            rec |-> integrity[i].rec] : i \in 1 .. Len(integrity)}
    /\ UNCHANGED <<claims, integrity, index, lock, pc, arg, state, orphaned>>

Step(p) ==
    \/ Acquire(p) \/ Load(p) \/ LoadRaises(p) \/ WriteClaim(p) \/ WriteIntegrity(p)
    \/ SaveState(p) \/ UpdateIndex(p) \/ Release(p)

Next ==
    \/ \E p \in Proc : Call(p) \/ Step(p) \/ Crash(p)
    \/ UpsetCache

Spec == Init /\ [][Next]_vars

\* A process that has called append_claim keeps running while it can; nothing
\* makes a process call, crash, or damage the cache.
FairSpec == Spec /\ \A p \in Proc : WF_vars(Step(p))

-----------------------------------------------------------------------------
(* Safety *)

\* Some append stands between its claim line and its integrity entry.
InFlight == \E p \in Proc : pc[p] = "claimed"

\* Whoever crashes, and whatever becomes of the cache, the entries of
\* integrity.jsonl form one chain: each commits to the whole file before it
\* (append_claim passes prev_chain_hash on from the cache instead of reading
\* integrity.jsonl).
ChainLinked ==
    \A i \in 1 .. Len(integrity) :
        /\ ~PrevMismatch(integrity, i)
        /\ ~ChainMismatch(integrity, i)

\* No line number is signed twice, none goes backwards, and none is signed
\* before its line is written: "two processes both pre-compute the same
\* line_number" (storage.py) cannot happen.
LineNumbersIncrease ==
    /\ \A i, j \in 1 .. Len(integrity) : i < j => integrity[i].line < integrity[j].line
    /\ \A i \in 1 .. Len(integrity) : integrity[i].line \in 1 .. Len(claims)

\* As long as no append has died between its claim line and its integrity
\* entry, the ledger verifies whenever no append stands there: every other
\* crash, and every loss or rollback of the cache, is healed by the next load.
Verifies ==
    ~orphaned /\ ~InFlight => VerifyStatus(claims, integrity) # "BROKEN"

\* The same for the middle of an append: the line just written is the only
\* fault a verifier could name, as an unsigned gap, and nothing is accused.
OnlyTheLastLineIsOpen ==
    ~orphaned /\ integrity # <<>> =>
        /\ Broken(claims, integrity) = {}
        /\ UnsignedGaps(claims, integrity) \subseteq {Len(claims)}

\* In a ledger that verifies, nothing can change in claims.jsonl alone, from
\* the first signed line on, that verify_integrity would not report: neither
\* another record on a line, nor a line more, nor a line less.
ChangeIsReported ==
    LET Reported(lines) == VerifyStatus(lines, integrity) = "BROKEN"
    IN  ~orphaned /\ ~InFlight /\ integrity # <<>> =>
          /\ \A n \in integrity[1].line .. Len(claims) :
                /\ \A r \in Record \ {claims[n]} : Reported([claims EXCEPT ![n] = r])
                /\ \A r \in Record : Reported(SubSeq(claims, 1, n) \o <<r>>
                                          \o SubSeq(claims, n + 1, Len(claims)))
                /\ Reported(SubSeq(claims, 1, n - 1) \o SubSeq(claims, n + 1, Len(claims)))

\* What the append works from is what a scan of the two ledgers would give
\* (append_state.py: "If the cache is missing, corrupt, stale, or mismatched
\* it is rebuilt from canonical files").
LoadIsCanonical == \A p \in Proc : pc[p] = "loaded" => state[p] = Rebuilt

\* A row of the index changes only to the latest record of its claim: an
\* append that finished earlier never overwrites the row of a later one
\* (storage.py: "Index update inside lock so index is consistent").
IndexTakesLatest ==
    [][\A c \in ClaimId : index'[c] # index[c] =>
          \E n \in 1 .. Len(claims) :
             /\ claims[n] = index'[c]
             /\ claims[n].id = c
             /\ \A m \in n + 1 .. Len(claims) : claims[m].id # c]_vars

\* The two ledgers are only ever extended, by one line at a time, and an entry
\* is added only for the line written last.
AppendOnly ==
    [][/\ claims' # claims => \E r \in Record : claims' = Append(claims, r)
       /\ integrity' # integrity =>
             LET entry == integrity'[Len(integrity')]
             IN  /\ integrity' = Append(integrity, entry)
                 /\ entry.rec = claims[Len(claims)]]_vars

-----------------------------------------------------------------------------
(* Liveness *)

\* The lock never outlives its holder: every append that has it ends, in a return or
\* in an error, or its process dies; and every append that waits for it gets it.  The
\* lock gives no turns, so callers that fail on the cache and try again without end may
\* pass a waiting one over for as long as the cache makes every append fail.
AppendEnds ==
    \A p \in Proc :
        /\ pc[p] \in Holding ~> pc[p] = "idle"
        /\ pc[p] = "waiting" ~> pc[p] = "idle" \/ cache = BadCache

-----------------------------------------------------------------------------
(* The invariant behind the safety properties, inductive as it stands. *)

LastLine == integrity[Len(integrity)].line

\* .append.lock is held by whoever is between taking and freeing it.
LockInv == \A p \in Proc : pc[p] \in Holding <=> lock = p

\* A cache was written after an entry, so it never stands for an empty chain.
CacheInv == cache \notin {NoCache, BadCache} => cache.chain # NoChain

\* The holder continues the chain where it ends, on a line not yet signed, and
\* from its own write on the last line is its own.
Held(p) ==
    /\ pc[p] # "idle" => arg[p] \in Record
    /\ pc[p] \in {"loaded", "claimed"} =>
          /\ state[p].chain = LastChain(integrity)
          /\ integrity # <<>> => LastLine <= state[p].line
    /\ pc[p] = "loaded" => state[p].line <= Len(claims)
    /\ pc[p] = "claimed" => state[p].line < Len(claims)
    /\ pc[p] \in {"claimed", "signed", "saved"} =>
          Len(claims) > 0 /\ claims[Len(claims)] = arg[p]
    /\ pc[p] = "signed" => state[p].chain # NoChain

HolderInv == \A p \in Proc : Held(p)

\* Without an orphan the entries cover the lines from the first signed one to
\* the last (or last but one, in the middle of an append), in order, each with
\* the record that stands there; and the holder knows how many lines there are.
CoverInv ==
    ~orphaned =>
        /\ \A i \in 1 .. Len(integrity) :
              /\ integrity[i].line = integrity[1].line + (i - 1)
              /\ claims[integrity[i].line] = integrity[i].rec
        /\ ~InFlight /\ integrity # <<>> => LastLine = Len(claims)
        /\ \A p \in Proc :
              /\ pc[p] = "loaded" => state[p].line = Len(claims)
              /\ pc[p] = "claimed" =>
                    /\ state[p].line + 1 = Len(claims)
                    /\ integrity # <<>> => LastLine = state[p].line

IInv ==
    /\ TypeOK
    /\ LockInv
    /\ CacheInv
    /\ HolderInv
    /\ ChainLinked
    /\ LineNumbersIncrease
    /\ CoverInv

-----------------------------------------------------------------------------
(* What the append path promises, as a log of signed records. *)

SignedLines ==
    [i \in 1 .. Len(integrity) |->
        [rec |-> claims[integrity[i].line], signed |-> integrity[i].rec]]

Log == INSTANCE SignedLog WITH log <- SignedLines, damaged <- orphaned
ImplementsSignedLog == Log!Spec
=============================================================================
