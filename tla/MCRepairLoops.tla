---------------------------- MODULE MCRepairLoops ----------------------------
\* Small instances of RepairLoops: see the README for the bounds.
EXTENDS RepairLoops

CONSTANTS l1, g1, pkg, src, docs

MCPath   == {pkg, src, docs}
MCInside == {<<src, pkg>>}

Base == [loop |-> l1, phase |-> "baseline", origin |-> "organic_real", scope |-> {pkg},
         verification |-> "package", group |-> g1, clean |-> TRUE]

\* Each phase of the loop; parts of it without attribution, in another scope, or
\* failed for another reason; and claims of no loop, labelled and legacy.
MCLabels ==
    {[Base EXCEPT !.phase = phase] : phase \in Phase}
    \cup {[Base EXCEPT !.phase = phase, !.scope = {src}, !.clean = FALSE] :
             phase \in {"baseline", "same_scope_after_fix"}}
    \cup {[Base EXCEPT !.phase = "same_scope_after_fix", !.scope = {docs}],
          [Base EXCEPT !.origin = "invocation_artifact"]}
    \cup {[Base EXCEPT !.loop = NoLoop, !.phase = "none", !.scope = {},
                       !.origin = origin, !.verification = verification] :
             <<origin, verification>> \in {<<"none", "none">>, <<"organic_real", "unknown">>}}
=============================================================================
