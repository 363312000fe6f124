---------------------------- MODULE MCMcpServer ----------------------------
\* A small instance of McpServer: see the README for the bounds.
EXTENDS McpServer, TLC

MCMessages ==
    [kind : {"broken", "fatal", "notification", "initialize"}]
    \cup {m \in Calls : \/ m.arg \in {"sealed", "dry", "report"}
                        \/ m.tool = "settle" /\ m.claim = 1}
=============================================================================
