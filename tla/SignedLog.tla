------------------------------ MODULE SignedLog ------------------------------
(***************************************************************************)
(* What a reader of the ledger may count on, without the processes, the    *)
(* lock, the cache and the files that bring it about: a log whose lines    *)
(* are added one at a time, each with a signature of its own record.       *)
(*                                                                         *)
(* The one thing that can go wrong is named: an append that dies between   *)
(* its line and its signature damages the log, and from then on a          *)
(* signature may have been made for another record than the line it names. *)
(***************************************************************************)
EXTENDS Sequences

CONSTANT Record

VARIABLES
    log,        \* the signed lines: the record on the line, the record signed
    damaged     \* an append has died half way

vars == <<log, damaged>>

Init == log = <<>> /\ damaged = FALSE

AppendSigned ==
    /\ \E r \in Record : log' = Append(log, [rec |-> r, signed |-> r])
    /\ UNCHANGED damaged

AppendMissigned ==
    /\ damaged
    /\ \E r, s \in Record : log' = Append(log, [rec |-> r, signed |-> s])
    /\ UNCHANGED damaged

Damage == damaged' = TRUE /\ UNCHANGED log

Next == AppendSigned \/ AppendMissigned \/ Damage

Spec == Init /\ [][Next]_vars
=============================================================================
