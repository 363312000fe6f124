---------------------------- MODULE LedgerReader ----------------------------
(***************************************************************************)
(* verify_integrity next to the appends of LedgerAppend.  It takes no      *)
(* lock: it reads claims.jsonl, then integrity.jsonl, and any number of    *)
(* steps of an append may come between the two.                            *)
(*                                                                         *)
(* claims.jsonl is append-only, so what the first read saw is the first    *)
(* `seen` lines of it for as long as the reader lives.                     *)
(***************************************************************************)
EXTENDS LedgerAppend

CONSTANT NotReading

ASSUME ReaderAssumption == NotReading \notin Nat

VARIABLES
    seen,       \* how many lines the first read saw, NotReading when idle
    report,     \* the status of the last report
    blamed,     \* whether that report accuses a stored record or entry
    disturbed   \* history: an append was under way or ran during the reading

readerVars == <<seen, report, blamed, disturbed>>
allVars == <<vars, readerVars>>

ReaderTypeOK ==
    /\ seen \in Nat \cup {NotReading}
    /\ report \in {"none", "OK", "LEGACY_UNSIGNED", "BROKEN"}
    /\ blamed \in BOOLEAN
    /\ disturbed \in BOOLEAN

ReaderInit ==
    /\ Init
    /\ seen = NotReading
    /\ report = "none"
    /\ blamed = FALSE
    /\ disturbed = FALSE

ReadClaims ==
    /\ seen = NotReading
    /\ seen' = Len(claims)
    /\ disturbed' = InFlight
    /\ report' = "none"
    /\ blamed' = FALSE
    /\ UNCHANGED vars

\* When the first read saw no line, either claims.jsonl was there and empty
\* (init touches it) or it was missing, which ends the report at once.
ReadIntegrity ==
    /\ seen # NotReading
    /\ LET lines == SubSeq(claims, 1, seen)
       IN  \/ /\ report' = VerifyStatus(lines, integrity)
              /\ blamed' = (Accusing(lines, integrity) # {})
           \/ /\ seen = 0
              /\ report' = "OK"
              /\ blamed' = FALSE
    /\ seen' = NotReading
    /\ UNCHANGED <<vars, disturbed>>

\* A step of the appenders; one that adds to a ledger disturbs a reading.
AppendStep ==
    /\ Next
    /\ disturbed' = (disturbed \/ (seen # NotReading
                        /\ <<claims, integrity>>' # <<claims, integrity>>))
    /\ UNCHANGED <<seen, report, blamed>>

ReaderNext == ReadClaims \/ ReadIntegrity \/ AppendStep

ReaderSpec == ReaderInit /\ [][ReaderNext]_allVars

-----------------------------------------------------------------------------
\* A reading that races with appends never accuses a record that is stored:
\* it may miss lines and entries, but what it sees of both files fits together.
NeverAccuses == blamed => orphaned

\* A report of BROKEN without damage is a false alarm of this very race: some
\* append wrote to a ledger while the files were being read.
FalseAlarmOnlyInARace == report = "BROKEN" => orphaned \/ disturbed

\* An undisturbed reading of a ledger that has a claim line left unsigned after
\* its first signed line says so, as often as it is asked.
UnsignedLineIsReported ==
    [][ReadIntegrity /\ ~disturbed /\ integrity # <<>>
          /\ Len(claims) - integrity[1].line >= Len(integrity)
        => report' = "BROKEN"]_allVars
=============================================================================
