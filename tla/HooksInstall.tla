---------------------------- MODULE HooksInstall ----------------------------
(***************************************************************************)
(* chimera-memory hooks install, uninstall and status (hooks.py, cli.py):  *)
(* the two hook scripts under .claude/hooks and their registrations in     *)
(* .claude/settings.json.                                                  *)
(*                                                                         *)
(* settings.json belongs to the user, who edits it, with the hooks of      *)
(* others in it, between any two steps of a command.  A command reads it   *)
(* once, changes what it read, and writes it back in place: it first       *)
(* truncates the file.  A command may die at any step.  One command runs   *)
(* at a time.  A hook is its command line, and a group the set of its      *)
(* hooks; the texts of the scripts are not modelled, only whose they are.  *)
(***************************************************************************)
EXTENDS Naturals, Sequences, SequencesExt

CONSTANTS
    Other,      \* the command lines of other hooks
    Ours,       \* the command line of the script of an event
    MaxGroups,  \* bound: groups an event has when install --force begins
    MaxEdits    \* bound: edits by the user

ASSUME HooksInstallAssumption ==
    /\ Ours \notin Other
    /\ MaxGroups \in Nat /\ MaxEdits \in Nat

VARIABLES
    scripts,     \* the script of each event; an inert one is cut short or not executable
    settings,    \* settings.json: whether it parses, and the groups in its text
    cmd,         \* the command that runs, or "none"
    pc,          \* its next step
    held,        \* the hooks it will write to settings.json
    wanted,      \* history: the <<event, hook>> of others the user has put in
    atRisk,      \* history: those the commands do not promise to keep
    unfinished,  \* history: the scripts removed by an uninstall that has not rewritten settings
    done,        \* history: "running" or the last command to end, while nobody interferes
    edits        \* history: the edits so far

vars == <<scripts, settings, cmd, pc, held, wanted, atRisk, unfinished, done, edits>>
user == <<scripts, wanted, unfinished, edits>>

\* The order of _CLAUDE_SETTINGS_HOOKS and of the scripts.
Events == <<"UserPromptSubmit", "Stop">>
Event  == ToSet(Events)
Pair   == Event \X Other

Command  == {"install", "force", "uninstall"}
Group    == (SUBSET (Other \cup {Ours})) \ {{}}
Groups   == Seq(Group)
NoHooks  == [e \in Event |-> <<>>]
Torn     == [state |-> "invalid", hooks |-> NoHooks]

TypeOK ==
    /\ scripts \in [Event -> {"absent", "ours", "edited", "inert"}]
    /\ settings \in [state : {"missing", "invalid", "valid"}, hooks : [Event -> Groups]]
    /\ settings.state = "missing" => settings.hooks = NoHooks
    /\ cmd \in Command \cup {"none"}
    /\ pc \in {"idle", "read", "write", "writing"} \cup Event
    /\ pc = "idle" <=> cmd = "none"
    /\ held \in [Event -> Groups]
    /\ atRisk \subseteq wanted /\ wanted \subseteq Pair
    /\ unfinished \subseteq Event
    /\ done \in Command \cup {"none", "running"}
    /\ edits \in 0 .. MaxEdits

\* The members of seq that are in K, in their order: a list comprehension.
Within(seq, K) ==
    LET kept[i \in 0 .. Len(seq)] ==
            IF i = 0 THEN <<>>
            ELSE IF seq[i] \in K THEN Append(kept[i - 1], seq[i]) ELSE kept[i - 1]
    IN  kept[Len(seq)]

Registered(hooks, e) == \E g \in ToSet(hooks[e]) : Ours \in g
PairsOf(hooks) == {p \in Pair : \E g \in ToSet(hooks[p[1]]) : p[2] \in g}

\* show_hooks_status: what settings.json does not say, because it is missing or
\* does not parse, does not count.
StatusInstalled ==
    /\ \A e \in Event : scripts[e] # "absent"
    /\ settings.state = "valid" => \A e \in Event : Registered(settings.hooks, e)

\* Mutant of Patched: an event is replaced, as if it held no group yet.
PatchedAfresh(hooks, force) ==
    [e \in Event |-> IF Registered(hooks, e) /\ ~force THEN hooks[e] ELSE <<{Ours}>>]

\* Mutant of Patched: an event that has hooks counts as patched.
PatchedIfEmpty(hooks, force) ==
    [e \in Event |-> IF hooks[e] # <<>> /\ ~force THEN hooks[e] ELSE hooks[e] \o <<{Ours}>>]

\* install_hooks: our group goes behind the groups of an event that lacks it, or
\* of every event under --force.
Patched(hooks, force) ==
    [e \in Event |-> IF Registered(hooks, e) /\ ~force THEN hooks[e]
                                                       ELSE hooks[e] \o <<{Ours}>>]

\* Mutant of Unpatched: only groups that are ours alone go.
UnpatchedSparing(hooks) ==
    [e \in Event |-> Within(hooks[e], Group \ {{Ours}})]

\* uninstall_hooks: every group goes that holds our command.
Unpatched(hooks) ==
    [e \in Event |-> Within(hooks[e], SUBSET Other)]

Init ==
    /\ scripts = [e \in Event |-> "absent"]
    /\ settings = [state |-> "missing", hooks |-> NoHooks]
    /\ cmd = "none" /\ pc = "idle" /\ held = NoHooks
    /\ wanted = {} /\ atRisk = {} /\ unfinished = {}
    /\ done = "none" /\ edits = 0

-----------------------------------------------------------------------------
(* The commands *)

\* A dry run changes nothing, here and below.
Start(c) ==
    /\ cmd = "none"
    /\ c = "force" => \A e \in Event : Len(settings.hooks[e]) < MaxGroups
    /\ cmd' = c /\ pc' = Events[1] /\ done' = "running"
    /\ UNCHANGED <<scripts, settings, held, wanted, atRisk, unfinished, edits>>

Stop(outcome) ==
    /\ cmd' = "none" /\ pc' = "idle" /\ held' = NoHooks
    /\ done' = IF done = "running" THEN outcome ELSE "none"

AfterScript(e) == pc' = IF e = Last(Events) THEN "read" ELSE Last(Events)

\* The loop over the scripts: a script that exists is kept, unless forced.
Keeps(e) == scripts[e] # "absent" /\ cmd # "force"

InstallScript(e) ==
    /\ cmd \in {"install", "force"} /\ pc = e
    /\ scripts' = IF Keeps(e) THEN scripts ELSE [scripts EXCEPT ![e] = "ours"]
    /\ AfterScript(e)
    /\ UNCHANGED <<settings, cmd, held, wanted, atRisk, unfinished, done, edits>>

RemoveScript(e) ==
    /\ cmd = "uninstall" /\ pc = e
    /\ scripts' = [scripts EXCEPT ![e] = "absent"]
    /\ unfinished' = IF scripts[e] = "absent" THEN unfinished ELSE unfinished \cup {e}
    /\ AfterScript(e)
    /\ UNCHANGED <<settings, cmd, held, wanted, atRisk, done, edits>>

\* A file that does not parse is taken for an empty one, with a warning.
ReadForInstall ==
    /\ cmd \in {"install", "force"} /\ pc = "read"
    /\ LET hooks == IF settings.state = "valid" THEN settings.hooks ELSE NoHooks
           new   == Patched(hooks, cmd = "force")
       IN  IF new = hooks THEN Stop(cmd)
           ELSE /\ held' = new /\ pc' = "write"
                /\ UNCHANGED <<cmd, done>>
    /\ UNCHANGED <<settings, atRisk, user>>

\* A file that does not parse is left alone: uninstall returns early.
ReadForUninstall ==
    /\ cmd = "uninstall" /\ pc = "read"
    /\ IF settings.state = "valid"
       THEN /\ held' = Unpatched(settings.hooks) /\ pc' = "write"
            /\ UNCHANGED <<cmd, done>>
       ELSE Stop(cmd)
    /\ UNCHANGED <<settings, atRisk, user>>

\* write_text opens the file for writing, which empties it, and writes it.
Truncate ==
    /\ pc = "write"
    /\ settings' = Torn /\ pc' = "writing"
    /\ UNCHANGED <<cmd, held, atRisk, done, user>>

Write ==
    /\ pc = "writing"
    /\ settings' = [state |-> "valid", hooks |-> held]
    /\ unfinished' = IF cmd = "uninstall" THEN {} ELSE unfinished
    /\ Stop(cmd)
    /\ UNCHANGED <<scripts, wanted, atRisk, edits>>

\* The command dies.  A script it was writing is cut short or not executable; a
\* settings.json it had emptied stays empty.
Die ==
    /\ cmd # "none"
    /\ \/ UNCHANGED scripts
       \/ \E e \in Event : /\ pc = e /\ cmd # "uninstall" /\ ~Keeps(e)
                           /\ scripts' = [scripts EXCEPT ![e] = "inert"]
    /\ atRisk' = IF pc = "writing" THEN wanted ELSE atRisk
    /\ Stop("none")
    /\ UNCHANGED <<settings, wanted, unfinished, edits>>

-----------------------------------------------------------------------------
(* The user, at any time but in the middle of a write *)

Edits ==
    /\ pc # "writing" /\ edits < MaxEdits
    /\ edits' = edits + 1 /\ done' = "none"
    /\ UNCHANGED <<cmd, pc, held, unfinished>>

\* An addition after the command has read the file will be overwritten.
AddHook(p) ==
    /\ Edits
    /\ settings.state # "invalid" /\ p \notin PairsOf(settings.hooks)
    /\ settings' = [state |-> "valid",
                    hooks |-> [settings.hooks EXCEPT ![p[1]] = Append(@, {p[2]})]]
    /\ wanted' = wanted \cup {p}
    /\ atRisk' = IF pc = "write" THEN atRisk \cup {p} ELSE atRisk \ {p}
    /\ UNCHANGED scripts

\* A hook put into our own group goes with it.
JoinGroup(p) ==
    /\ Edits
    /\ settings.state = "valid" /\ p \notin PairsOf(settings.hooks)
    /\ \E i \in DOMAIN settings.hooks[p[1]] :
        /\ Ours \in settings.hooks[p[1]][i]
        /\ settings' = [settings EXCEPT !.hooks[p[1]][i] = @ \cup {p[2]}]
    /\ wanted' = wanted \cup {p} /\ atRisk' = atRisk \cup {p}
    /\ UNCHANGED scripts

DropHook(p) ==
    /\ Edits
    /\ settings.state = "valid" /\ p \in PairsOf(settings.hooks)
    /\ LET left == [i \in DOMAIN settings.hooks[p[1]] |-> settings.hooks[p[1]][i] \ {p[2]}]
       IN  settings' = [settings EXCEPT !.hooks[p[1]] = Within(left, Group)]
    /\ wanted' = wanted \ {p} /\ atRisk' = atRisk \ {p}
    /\ UNCHANGED scripts

\* A slip that makes the text invalid JSON, and its repair.
Break ==
    /\ Edits
    /\ settings.state = "valid" /\ settings' = [settings EXCEPT !.state = "invalid"]
    /\ atRisk' = wanted
    /\ UNCHANGED <<scripts, wanted>>

Mend ==
    /\ Edits
    /\ settings.state = "invalid" /\ settings' = [settings EXCEPT !.state = "valid"]
    /\ UNCHANGED <<scripts, wanted, atRisk>>

EditScript(e) ==
    /\ Edits
    /\ scripts[e] # "absent" /\ scripts' = [scripts EXCEPT ![e] = "edited"]
    /\ UNCHANGED <<settings, wanted, atRisk>>

Next ==
    \/ \E c \in Command : Start(c)
    \/ \E e \in Event : InstallScript(e) \/ RemoveScript(e) \/ EditScript(e)
    \/ ReadForInstall \/ ReadForUninstall
    \/ Truncate \/ Write \/ Die
    \/ \E p \in Pair : AddHook(p) \/ JoinGroup(p) \/ DropHook(p)
    \/ Break \/ Mend

Spec == Init /\ [][Next]_vars

-----------------------------------------------------------------------------
(* Properties *)

\* Whatever is installed, reinstalled and removed, and wherever a command dies, a
\* hook of someone else stays in settings.json, or in the hands of the command
\* that is rewriting it.  The exceptions are those of the code: it was added
\* behind the back of the command, or put into our group, or the text did not
\* parse, or the command died with the file empty.
OthersHooksStay ==
    wanted \ atRisk \subseteq PairsOf(IF pc = "writing" THEN held ELSE settings.hooks)

\* A command that ran to its end undisturbed has done what it says, whatever an
\* earlier one that died, or the user, had left behind: after install there are both
\* scripts and both registrations, and status says so; after install --force the
\* scripts are the shipped ones; after uninstall there are no scripts, and no
\* registrations unless settings.json does not parse.
DoneIsDone ==
    /\ done \in {"install", "force"} =>
        /\ StatusInstalled /\ settings.state = "valid"
        /\ done = "force" => \A e \in Event : scripts[e] = "ours"
    /\ done = "uninstall" =>
        /\ \A e \in Event : scripts[e] = "absent"
        /\ settings.state # "invalid" => \A e \in Event : ~Registered(settings.hooks, e)

\* An event registered in a settings.json that parses has a script to run, because
\* install writes the scripts first; only an uninstall, which removes them first,
\* leaves a registration behind, when it dies or finds a file that does not parse.
RegisteredHasScript ==
    settings.state = "valid" =>
        \A e \in Event : Registered(settings.hooks, e) /\ scripts[e] = "absent"
                            => e \in unfinished
=============================================================================
