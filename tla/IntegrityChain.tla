--------------------------- MODULE IntegrityChain ---------------------------
(***************************************************************************)
(* The hash chain of integrity.jsonl and the report verify_integrity makes *)
(* of a pair (claims.jsonl, integrity.jsonl).  No state: only the data the *)
(* append path writes and the judgement the verify path passes on it.      *)
(*                                                                         *)
(* A record hash is the record itself and a chain hash is the sequence of  *)
(* (line number, record) pairs it commits to: SHA-256 is taken to be free  *)
(* of collisions, and nothing else about it matters here.  The missing     *)
(* hash (None, hashed as "") commits to nothing.                           *)
(***************************************************************************)
EXTENDS Naturals, Sequences

CONSTANTS
    ClaimId,    \* the claims of the ledger
    Body        \* what a revision of a claim says, its claim_id left out

Record == [id : ClaimId, body : Body]

Link  == [line : Nat, rec : Record]
Chain == Seq(Link)

NoChain == <<>>     \* prev_chain_hash of the first entry: None

ChainHash(line, rec, prev) == Append(prev, [line |-> line, rec |-> rec])

Entry == [line : Nat, rec : Record, prev : Chain, chain : Chain]

IntegrityEntry(line, rec, prev) ==
    [line |-> line, rec |-> rec, prev |-> prev, chain |-> ChainHash(line, rec, prev)]

\* The chain hash of the last entry of integrity.jsonl, None if it has none.
LastChain(entries) ==
    IF entries = <<>> THEN NoChain ELSE entries[Len(entries)].chain

-----------------------------------------------------------------------------
(* verify_integrity: four ways an entry can be wrong, looked for in this    *)
(* order (the first one found ends the check of that entry), and the claim  *)
(* lines that ought to have an entry and have none.                         *)

ExpectedPrev(entries, i) == IF i = 1 THEN NoChain ELSE entries[i - 1].chain

PrevMismatch(entries, i) == entries[i].prev # ExpectedPrev(entries, i)

NotFound(claims, entries, i) == entries[i].line \notin 1 .. Len(claims)

\* Mutant of RecordMismatch: a line that is not there counts as a wrong record.
RecordMismatchOrMissing(claims, entries, i) ==
    NotFound(claims, entries, i) \/ claims[entries[i].line] # entries[i].rec

RecordMismatch(claims, entries, i) ==
    /\ ~NotFound(claims, entries, i)
    /\ claims[entries[i].line] # entries[i].rec

ChainMismatch(entries, i) ==
    entries[i].chain # ChainHash(entries[i].line, entries[i].rec, entries[i].prev)

\* The entries that accuse the stored data itself (BROKEN_CHAIN, or BROKEN_HASH
\* of a line that is there), as opposed to one whose line is not there at all.
Accusing(claims, entries) ==
    {i \in 1 .. Len(entries) :
        \/ PrevMismatch(entries, i)
        \/ RecordMismatch(claims, entries, i)
        \/ /\ ~NotFound(claims, entries, i)
           /\ ChainMismatch(entries, i)}

Broken(claims, entries) ==
    Accusing(claims, entries)
        \cup {i \in 1 .. Len(entries) : NotFound(claims, entries, i)}

\* Mutant of UnsignedGaps: the last line is not looked at.
UnsignedGapsButLast(claims, entries) ==
    {line \in entries[1].line .. Len(claims) - 1 :
        \A i \in 1 .. Len(entries) : entries[i].line # line}

\* Mutant of UnsignedGaps: legacy lines count as gaps.
UnsignedGapsFromStart(claims, entries) ==
    {line \in 1 .. Len(claims) : \A i \in 1 .. Len(entries) : entries[i].line # line}

UnsignedGaps(claims, entries) ==
    {line \in entries[1].line .. Len(claims) :
        \A i \in 1 .. Len(entries) : entries[i].line # line}

\* Mutant of VerifyStatus: gaps are reported, but do not make the ledger BROKEN.
VerifyStatusByEntries(claims, entries) ==
    IF entries = <<>> THEN IF claims = <<>> THEN "OK" ELSE "LEGACY_UNSIGNED"
    ELSE IF Broken(claims, entries) # {} THEN "BROKEN"
    ELSE IF entries[1].line > 1 THEN "LEGACY_UNSIGNED" ELSE "OK"

VerifyStatus(claims, entries) ==
    IF entries = <<>> THEN IF claims = <<>> THEN "OK" ELSE "LEGACY_UNSIGNED"
    ELSE IF Broken(claims, entries) # {} \/ UnsignedGaps(claims, entries) # {}
    THEN "BROKEN"
    ELSE IF entries[1].line > 1 THEN "LEGACY_UNSIGNED" ELSE "OK"
=============================================================================
