------------------------------ MODULE McpServer ------------------------------
(***************************************************************************)
(* The MCP server (mcp_server.py, chimera-memory mcp serve): a client      *)
(* starts it as a process, writes requests to its stdin, one a line and as *)
(* many as it likes before reading an answer, and reads answers from its   *)
(* stdout.  The server takes one message at a time, and runs a tool call   *)
(* to its end before it takes the next.  It may be killed at any step, and *)
(* started again with other permissions; the command line locks and        *)
(* settles claims in the same repository meanwhile.                        *)
(*                                                                         *)
(* A settlement runs the sealed checks as child processes, and they        *)
(* inherit the stdin of the server (adapters/pytest_ci.py).  A check that  *)
(* reads its stdin takes requests that the server has not read yet.        *)
(***************************************************************************)
EXTENDS Naturals, Sequences, FiniteSets, FiniteSetsExt

CONSTANTS
    Messages,    \* the messages clients send
    MaxMessages, \* bound: messages sent, over all lives
    MaxLives,    \* bound: times the server is started
    MaxCli       \* bound: claims locked and settled on the command line

\* The claims there can be, in the order in which they are locked.
Claim == 1 .. (MaxMessages + MaxCli)

\* A message: not JSON; JSON that is no object, or whose params are none, on which
\* the server fails with AttributeError; a notification; a request.  A call names
\* a tool and the argument that matters.
Tool == {"validate", "lock_auto", "show", "list", "settle", "xray_generate"}

Calls ==
    [kind : {"call"}, tool : {"validate", "list", "other"}, arg : {"none"}, claim : {0}]
    \cup [kind : {"call"}, tool : {"lock_auto"},
          arg : {"sealed", "dry", "invalid", "raises"}, claim : {0}]
    \cup [kind : {"call"}, tool : {"xray_generate"},
          arg : {"report", "json", "raises"}, claim : {0}]
    \cup [kind : {"call"}, tool : {"show", "settle"}, arg : {"none"}, claim : Claim]

Message ==
    Calls \cup [kind : {"broken", "fatal", "notification", "initialize", "tools/list",
                        "ping", "unknown"}]

ASSUME McpServerAssumption ==
    /\ MaxMessages \in Nat /\ MaxLives \in Nat
    /\ MaxCli \in Nat
    /\ Messages \subseteq Message

VARIABLES
    life,         \* how often the server has been started
    up,           \* whether it runs
    flags,        \* per life: what --allow-write and --allow-execute allow
    sent,         \* per life: the messages sent
    swallowed,    \* per life: those a check has read
    taken,        \* per life: the last one the server has read
    initialized,  \* whether this life has seen initialize
    pc,           \* what the server does
    reply,        \* the answer it has ready
    answers,      \* the answers, of all lives
    cut,          \* history: the messages whose handling a death cut off
    memory,       \* whether the memory directory exists
    locks,        \* claim_locks.jsonl: which call, or the command line, wrote what
    report        \* the call that last wrote a report, or None

stdin == <<life, flags, sent, swallowed>>
store == <<memory, locks, report>>
vars  == <<life, up, flags, sent, swallowed, taken, initialized, pc, reply, answers,
           cut, memory, locks, report>>

Life   == 1 .. MaxLives
Call   == Life \X (1 .. MaxMessages)
None   == <<0, 0>>
Status == {"LOCKED", "SETTLED"}    \* which of the settled ones does not matter here
Replies == [kind : {"result", "toolerror", "rpcerror", "none"}, claim : {0} \cup Claim]

Claims == {locks[n].claim : n \in 1 .. Len(locks)}
At(call) == sent[call[1]][call[2]]

TypeOK ==
    /\ life \in 0 .. MaxLives /\ up \in BOOLEAN
    /\ flags \in [Life -> SUBSET {"write", "execute"}]
    /\ \A l \in Life : /\ Len(sent[l]) <= MaxMessages
                       /\ \A i \in 1 .. Len(sent[l]) : sent[l][i] \in Messages
                       /\ swallowed[l] \subseteq 1 .. Len(sent[l])
                       /\ taken[l] \in 0 .. Len(sent[l]) \ swallowed[l]
    /\ initialized \in BOOLEAN
    /\ pc \in {"read", "initialize", "lock", "checks", "report", "answer"}
    /\ pc # "read" => up
    /\ reply \in Replies
    /\ cut \subseteq Call
    /\ memory \in BOOLEAN
    /\ \A n \in 1 .. Len(locks) : locks[n] \in [claim : Claim, status : Status,
                                                by : Call \cup {None}]
    /\ report \in Call \cup {None}

-----------------------------------------------------------------------------
(* What the server makes of a message *)

Reply(kind, c) == [kind |-> kind, claim |-> c]

\* _TOOLS and _allowed
Permission(tool) ==
    CASE tool \in {"lock_auto", "xray_generate"} -> "write"
      [] tool = "settle" -> "execute"
      [] OTHER -> "read"

\* Mutant of Allowed: the classes are taken for ranks, as _PERM_RANK has them.
AllowedByRank(tool) ==
    \/ Permission(tool) \in flags[life] \cup {"read"}
    \/ Permission(tool) = "write" /\ "execute" \in flags[life]

Allowed(tool) == tool \in Tool /\ Permission(tool) \in flags[life] \cup {"read"}

CanRun(m) == m.kind = "call" /\ initialized /\ Allowed(m.tool)

\* call_tool: the step at which a call begins that changes something.  A dry run, a
\* claim that does not validate and a claim that is not there end before.
FirstStep(m) ==
    IF ~CanRun(m) THEN "answer"
    ELSE CASE m.tool = "lock_auto" /\ m.arg = "sealed" ->
                                              IF memory THEN "lock" ELSE "initialize"
           [] m.tool = "settle" /\ m.claim \in Claims -> "checks"
           [] m.tool = "xray_generate" /\ m.arg = "report" -> "report"
           [] OTHER -> "answer"

\* serve_mcp and call_tool: what they answer when that is all they do.
Answered(m) ==
    LET served == \/ m.kind \in {"initialize", "ping"}
                  \/ m.kind = "tools/list" /\ initialized
        called == m.kind = "call" /\ initialized
        fails  == \/ ~CanRun(m)
                  \/ m.arg = "raises"
                  \/ m.tool \in {"show", "settle"} /\ m.claim \notin Claims
    IN  Reply(IF served \/ (called /\ ~fails) THEN "result"
              ELSE IF called THEN "toolerror" ELSE "rpcerror", 0)

Unread == IF up THEN (taken[life] + 1 .. Len(sent[life])) \ swallowed[life] ELSE {}
Here   == <<life, taken[life]>>

-----------------------------------------------------------------------------
(* The steps *)

Init ==
    /\ life = 0 /\ up = FALSE
    /\ flags = [l \in Life |-> {}] /\ sent = [l \in Life |-> <<>>]
    /\ swallowed = [l \in Life |-> {}] /\ taken = [l \in Life |-> 0]
    /\ initialized = FALSE /\ pc = "read" /\ reply = Reply("none", 0)
    /\ answers = <<>> /\ cut = {}
    /\ memory = FALSE /\ locks = <<>> /\ report = None

\* mcp serve, with the permissions given on its command line
Start(f) ==
    /\ ~up /\ life < MaxLives
    /\ life' = life + 1 /\ up' = TRUE /\ flags' = [flags EXCEPT ![life + 1] = f]
    /\ initialized' = FALSE
    /\ UNCHANGED <<sent, swallowed, taken, pc, reply, answers, cut, store>>

Send(m) ==
    /\ up /\ MapThenSumSet(LAMBDA l : Len(sent[l]), Life) < MaxMessages
    /\ sent' = [sent EXCEPT ![life] = Append(@, m)]
    /\ UNCHANGED <<life, up, flags, swallowed, taken, initialized, pc, reply, answers, cut,
                   store>>

\* What the server has not read by then is lost with the pipe.
GoDown(read) ==
    /\ up' = FALSE /\ pc' = "read" /\ reply' = Reply("none", 0) /\ initialized' = FALSE
    /\ sent' = [sent EXCEPT ![life] = SubSeq(@, 1, read)]
    /\ swallowed' = [swallowed EXCEPT ![life] = @ \cap (1 .. read)]
    /\ UNCHANGED <<life, flags>>

\* The loop of serve_mcp: notifications get no answer, a message it fails on ends it.
Handle(m, i) ==
    CASE m.kind = "fatal" -> GoDown(i)
      [] m.kind = "notification" -> UNCHANGED <<stdin, up, initialized, pc, reply>>
      [] OTHER -> /\ pc' = FirstStep(m) /\ reply' = Answered(m)
                  /\ initialized' = (initialized \/ m.kind = "initialize")
                  /\ UNCHANGED <<stdin, up>>

\* Mutant of Take: a message is handled before the answer to the last one is out.
TakeEarly(i) ==
    /\ up /\ pc \in {"read", "answer"} /\ i \in Unread /\ \A j \in Unread : i <= j
    /\ taken' = [taken EXCEPT ![life] = i]
    /\ Handle(sent[life][i], i)
    /\ UNCHANGED <<answers, cut, store>>

Take(i) ==
    /\ up /\ pc = "read" /\ i \in Unread /\ \A j \in Unread : i <= j
    /\ taken' = [taken EXCEPT ![life] = i]
    /\ Handle(sent[life][i], i)
    /\ UNCHANGED <<answers, cut, store>>

\* call_tool answers an exception of a tool as the error of the call.
Raises == pc' = "answer" /\ reply' = Reply("toolerror", 0)

\* _tool_lock_auto creates the memory directory if there is none, and may fail before
\* it is there or with the files in it ...
LockInitialize ==
    /\ pc = "initialize"
    /\ \/ memory' = TRUE /\ pc' = "lock" /\ UNCHANGED reply
       \/ memory' \in {memory, TRUE} /\ Raises
    /\ UNCHANGED <<stdin, up, taken, initialized, answers, cut, locks, report>>

NewClaim == Cardinality(Claims) + 1
Record(c, s, call) == [claim |-> c, status |-> s, by |-> call]

\* ... and lock_claim appends the record, unless it cannot.
LockAppend ==
    /\ pc = "lock" /\ pc' = "answer"
    /\ \/ /\ locks' = Append(locks, Record(NewClaim, "LOCKED", Here))
          /\ reply' = Reply("result", NewClaim)
       \/ Raises /\ UNCHANGED locks
    /\ UNCHANGED <<stdin, up, taken, initialized, answers, cut, memory, report>>

\* A check reads from its stdin: what the server has not fetched into its own buffer
\* up to where the check stops reading.
CheckReads ==
    /\ pc = "checks"
    /\ \E a, b \in Unread :
        /\ a <= b
        /\ swallowed' = [swallowed EXCEPT ![life] = @ \cup (a .. b)]
    /\ UNCHANGED <<life, up, flags, sent, taken, initialized, pc, reply, answers, cut, store>>

\* Mutant of SettleAppend: the answer is made up before the record is written, and
\* stays when the append fails.
SettleFirst ==
    /\ pc = "checks"
    /\ reply' = Reply("result", At(Here).claim) /\ pc' = "answer"
    /\ \/ locks' = Append(locks, Record(At(Here).claim, "SETTLED", Here))
       \/ UNCHANGED locks
    /\ UNCHANGED <<stdin, up, taken, initialized, answers, cut, memory, report>>

\* Mutant of SettleAppend: a claim that has been settled meanwhile gets no answer.
SettleOnce ==
    /\ pc = "checks"
    /\ \A k \in 1 .. Len(locks) : locks[k].claim = At(Here).claim => locks[k].status = "LOCKED"
    /\ locks' = Append(locks, Record(At(Here).claim, "SETTLED", Here))
    /\ reply' = Reply("result", At(Here).claim) /\ pc' = "answer"
    /\ UNCHANGED <<stdin, up, taken, initialized, answers, cut, memory, report>>

\* settle_claim appends the settled record when the checks have run, unless git, or
\* the append, fails it.
SettleAppend ==
    /\ pc = "checks" /\ pc' = "answer"
    /\ \/ /\ locks' = Append(locks, Record(At(Here).claim, "SETTLED", Here))
          /\ reply' = Reply("result", At(Here).claim)
       \/ Raises /\ UNCHANGED locks
    /\ UNCHANGED <<stdin, up, taken, initialized, answers, cut, memory, report>>

\* _tool_xray writes the report, if the path can be written.
WriteReport ==
    /\ pc = "report"
    /\ \/ report' = Here /\ reply' = Reply("result", 0)
       \/ Raises /\ UNCHANGED report
    /\ pc' = "answer"
    /\ UNCHANGED <<stdin, up, taken, initialized, answers, cut, memory, locks>>

\* _send
Answer ==
    /\ pc = "answer"
    /\ answers' = Append(answers, [to |-> Here, reply |-> reply])
    /\ pc' = "read" /\ reply' = Reply("none", 0)
    /\ UNCHANGED <<stdin, up, taken, initialized, cut, store>>

\* The server is killed, or stops because stdin is closed and read to its end.
Die ==
    /\ up /\ GoDown(taken[life])
    /\ cut' = IF pc = "read" THEN cut ELSE cut \cup {Here}
    /\ UNCHANGED <<taken, answers, store>>

CliMay == Cardinality({n \in 1 .. Len(locks) : locks[n].by = None}) < MaxCli

\* chimera-memory claim lock and claim settle, in another process
CliLock ==
    /\ CliMay
    /\ memory' = TRUE /\ locks' = Append(locks, Record(NewClaim, "LOCKED", None))
    /\ UNCHANGED <<stdin, up, taken, initialized, pc, reply, answers, cut, report>>

CliSettle ==
    /\ CliMay
    /\ \E c \in Claims : locks' = Append(locks, Record(c, "SETTLED", None))
    /\ UNCHANGED <<stdin, up, taken, initialized, pc, reply, answers, cut, memory,
                   report>>

Serve ==
    \/ \E i \in 1 .. MaxMessages : Take(i)
    \/ LockInitialize \/ LockAppend \/ SettleAppend \/ WriteReport \/ Answer

Next ==
    \/ \E f \in SUBSET {"write", "execute"} : Start(f)
    \/ \E m \in Messages : Send(m)
    \/ Serve \/ CheckReads \/ Die
    \/ CliLock \/ CliSettle

Spec == Init /\ [][Next]_vars

\* The server runs, and the checks it starts end, though the code has no timeout to
\* make them.
FairSpec == Spec /\ WF_vars(Serve)

-----------------------------------------------------------------------------
(* Properties *)

Due(call) == At(call).kind \notin {"notification", "fatal"}
Handling == IF pc = "read" THEN {} ELSE {Here}

\* However requests are pipelined, and wherever the server is killed, the answers of
\* a life come in the order of its requests, and none is missing: every message taken
\* that wants an answer has one, but the last, which is being handled or was cut off.
AnsweredInOrder ==
    /\ \A m, n \in 1 .. Len(answers) :
          m < n /\ answers[m].to[1] = answers[n].to[1] => answers[m].to[2] < answers[n].to[2]
    /\ {answers[n].to : n \in 1 .. Len(answers)}
          = {call \in Call : /\ call[2] \in (1 .. taken[call[1]]) \ swallowed[call[1]]
                            /\ Due(call) /\ call \notin cut \cup Handling}

WrittenBy(call) == {n \in 1 .. Len(locks) : locks[n].by = call}

\* What a client is told is what happened: a call answered with a claim has written
\* exactly one record, of that claim; one answered otherwise has written none; and a
\* record that no answer reports belongs to the call being handled or to the one a
\* death cut off, so a client that lost its server doubts one call at most.
AnswersTellTheEffects ==
    /\ \A n \in 1 .. Len(answers) :
        LET written == WrittenBy(answers[n].to)
            told    == answers[n].reply
        IN  IF told.claim = 0 THEN written = {}
            ELSE /\ Cardinality(written) = 1
                 /\ \A k \in written :
                        /\ locks[k].claim = told.claim
                        /\ locks[k].status = "LOCKED" <=> At(answers[n].to).tool = "lock_auto"
    /\ \A k \in 1 .. Len(locks) :
        \/ locks[k].by \in {None} \cup Handling \cup cut
        \/ \E n \in 1 .. Len(answers) : answers[n].to = locks[k].by
    /\ \A c, d \in cut : c[1] = d[1] => c = d

\* Every record and report of the server goes back to a call of a tool that the flags
\* of that life allow, sent after an initialize that no check has swallowed.
OnlyAllowedCallsWrite ==
    \A call \in {report} \cup {locks[k].by : k \in 1 .. Len(locks)} :
        call # None =>
            /\ At(call).kind = "call"
            /\ Permission(At(call).tool) \in flags[call[1]]
            /\ call[2] \notin swallowed[call[1]]
            /\ \E i \in (1 .. call[2]) \ swallowed[call[1]] :
                    At(<<call[1], i>>).kind = "initialize"

\* A message is handled, which for a request means answered in its turn, unless the
\* server stops or a check has swallowed it.  Nothing else can keep it waiting for
\* ever: no lock, no other request and no other process.
RequestsHandled ==
    \A i \in 1 .. MaxMessages :
        (up /\ i \in Unread)
            ~> (~up \/ i \in swallowed[life] \/ (i <= taken[life] /\ pc = "read"))
=============================================================================
