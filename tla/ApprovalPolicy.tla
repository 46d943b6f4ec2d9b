--------------------------- MODULE ApprovalPolicy ---------------------------
(***************************************************************************)
(* Approval of tool calls in the application layer (crates/noloong-agent:  *)
(* approval/*.rs, session.rs, the approval/resolve handler of              *)
(* interaction/control.rs): the built-in hook classifies each call of a    *)
(* batch, a session remembers what it was allowed, and clients answer what *)
(* is pending, each in its own time.                                       *)
(*                                                                         *)
(* A call is a tool and its argument: a script for host.exec.start, a job  *)
(* and a text for host.exec.write, a job for terminate.  A script is a sequence of commands; *)
(* a command is "read" (on the list of read-only ones), "destroy", "other" *)
(* (anything else, an environment prefix included), or "sh" followed in    *)
(* the record by the script it wraps.                                      *)
(***************************************************************************)
EXTENDS Integers, Sequences, FiniteSets, SequencesExt

CONSTANTS Policies,    \* subset of {"allow_all", "require", "auto_reviewer", "auto_human", "auto_deny"}
          Scripts,     \* scripts of host.exec.start, see Script
          Jobs,        \* job ids for host.exec.write and terminate
          Texts,       \* what host.exec.write may send to a job
          PlainTools,  \* other tools a model may call
          Clients,     \* users answering through the control plane
          MaxBatch,    \* calls in one assistant message
          MaxTurns,    \* tool batches of a session
          MaxRestarts

VARIABLES
    policy,
    cache,      \* ApprovalCache.keys
    run,        \* "idle", "paused", "running"
    turn,       \* number of the batch; approval ids are made of it and the call's index
    batch,      \* the calls of the turn
    verdict,    \* per call "allow", "deny" or "pending"
    client,     \* per client: an approval/resolve between recording and resuming
    restarts,
    \* for the properties
    granted,    \* calls somebody allowed in this session
    answered,   \* approvals of the turn that somebody answered
    ran         \* calls that ran although they needed approval and nothing covered them

vars == <<policy, cache, run, turn, batch, verdict, client, restarts, granted, answered, ran>>

----------------------------------------------------------------------------
(* command_safety.rs *)

Command(kind, inner) == [kind |-> kind, inner |-> inner]

\* A mistake, for the mutants: the last command decides.
LastDecides(classes) == IF classes = <<>> THEN "unknown" ELSE classes[Len(classes)]

\* classify_script, on the classes of its commands: a dangerous one decides, an unknown one
\* outweighs the safe ones, an empty script is unknown.
OfAll(classes) ==
    IF \E i \in DOMAIN classes : classes[i] = "dangerous" THEN "dangerous"
    ELSE IF classes = <<>> \/ \E i \in DOMAIN classes : classes[i] = "unknown" THEN "unknown"
    ELSE "safe"

\* is_safe_words and is_dangerous_words
OfWords(kind) == CASE kind = "read"    -> "safe"
                   [] kind = "destroy" -> "dangerous"
                   [] OTHER            -> "unknown"

\* classify_words; the script inside a shell is classified like the one around it
OfCommand(c) == IF c.kind = "sh" THEN OfAll([i \in DOMAIN c.inner |-> OfWords(c.inner[i])])
                ELSE OfWords(c.kind)

\* classify_host_command.  A script is [shell, parses, commands]: shells whose syntax is not
\* known, and scripts with substitutions, redirections or globs, are not looked into.
CommandSafety(s) ==
    IF s.shell = "powershell" \/ ~s.parses THEN "unknown"
    ELSE OfAll([i \in DOMAIN s.commands |-> OfCommand(s.commands[i])])

----------------------------------------------------------------------------
(* classification.rs and hook.rs *)

NoKey == <<>>

\* A mistake, for the mutants: the key does not name what was asked for.
KeyOfTool(call) == IF call.tool \in {"start", "write", "terminate"} THEN <<call.tool>> ELSE NoKey

\* approval_cache_key_for_tool_call: only commands and control of jobs have a key, and control
\* of a job has one key per job, whatever is written to it
Key(call) == CASE call.tool = "start"                  -> <<call.tool, call.arg>>
               [] call.tool \in {"write", "terminate"} -> <<call.tool, call.arg.job>>
               [] OTHER                                -> NoKey

\* classify_built_in_tool; file edits, manifest proposals and unknown tools are asked about
OfTool(tool) ==
    IF tool \in {"read", "wait", "list", "subagent", "goal"} THEN "allow" ELSE "ask"

\* classify_host_exec_start
OfStart(s) ==
    IF s.blank THEN "deny"
    ELSE IF CommandSafety(s) = "safe" THEN "allow" ELSE "ask"

\* BuiltInApprovalHook::classify
Classify(call) ==
    IF Key(call) # NoKey /\ Key(call) \in cache THEN "allow"
    ELSE IF call.tool = "start" THEN OfStart(call.arg) ELSE OfTool(call.tool)

\* terminal_decision: nobody need be asked
Terminal(class) == class \in {"allow", "deny"}

\* result_from_classification and ..._with_auto_review: what may become of a call
Verdicts(call) ==
    IF policy = "allow_all" THEN {"allow"}
    ELSE IF Terminal(Classify(call)) THEN {Classify(call)}
    ELSE CASE policy = "auto_reviewer" -> {"allow", "deny"}
           [] policy = "auto_deny"     -> {"deny"}
           [] OTHER                    -> {"pending"}

----------------------------------------------------------------------------
(* Turns *)

Calls == [tool : {"start"}, arg : Scripts]
         \cup [tool : {"write"}, arg : [job : Jobs, text : Texts]]
         \cup [tool : {"terminate"}, arg : [job : Jobs]]
         \cup [tool : PlainTools, arg : {"-"}]
Batches == UNION {[1..n -> Calls] : n \in 1..MaxBatch}

NotAnswering == [stage |-> "idle", turn |-> 0, index |-> 0, outcome |-> "deny"]

Pending == {i \in DOMAIN batch : verdict[i] = "pending"}
Approvals == {<<turn, i>> : i \in Pending}

Init ==
    /\ policy \in Policies
    /\ cache = {} /\ run = "idle" /\ turn = 0 /\ batch = <<>> /\ verdict = <<>>
    /\ client = [c \in Clients |-> NotAnswering]
    /\ restarts = 0 /\ granted = {} /\ answered = {} /\ ran = {}

\* What the reader of a transcript would call read-only: commands at every depth, not through
\* the classifier's own steps.
ReadOnly(call) ==
    \/ call.tool \in {"read", "wait", "list", "subagent", "goal"}
    \/ /\ call.tool = "start" /\ call.arg.parses /\ call.arg.shell # "powershell"
       /\ \A i \in DOMAIN call.arg.commands :
             LET c == call.arg.commands[i] IN
             \/ c.kind = "read"
             \/ /\ c.kind = "sh"
                /\ \A j \in DOMAIN c.inner : c.inner[j] = "read"

\* A command that somebody allowed word for word; or a text to a job, or its end, when somebody
\* allowed one to the same job.
GrantedBefore(call) ==
    \/ call.tool = "start" /\ call \in granted
    \/ /\ call.tool \in {"write", "terminate"}
       /\ \E g \in granted : g.tool = call.tool /\ g.arg.job = call.arg.job

\* The calls among "allowed" that nobody let through: not read-only, not allowed themselves
\* (passed), and no grant that may be remembered covers them.
Uncovered(b, allowed, passed) ==
    {b[i] : i \in {k \in allowed : k \notin passed /\ ~ReadOnly(b[k]) /\ ~GrantedBefore(b[k])}}

\* tool.execute: every call of the batch goes through the hook before any runs; with none
\* pending the allowed ones run.
Ask(b) ==
    /\ run = "idle" /\ turn < MaxTurns
    /\ turn' = turn + 1 /\ batch' = b
    /\ \E v \in [DOMAIN b -> {"allow", "deny", "pending"}] :
         /\ \A i \in DOMAIN b : v[i] \in Verdicts(b[i])
         /\ verdict' = v
         /\ LET waits == \E i \in DOMAIN b : v[i] = "pending"
                reviewed == IF policy = "auto_reviewer" THEN {i \in DOMAIN b : Classify(b[i]) = "ask"}
                            ELSE {}
            IN /\ run' = IF waits THEN "paused" ELSE "running"
               /\ ran' = IF waits \/ policy = "allow_all" THEN ran
                         ELSE ran \cup Uncovered(b, {i \in DOMAIN b : v[i] = "allow"}, reviewed)
    /\ UNCHANGED <<policy, cache, client, restarts, granted, answered>>

\* review_tool_call fails: the hook's error fails the phase and the run, no call runs.
ReviewFails(b) ==
    /\ run = "idle" /\ turn < MaxTurns /\ policy = "auto_reviewer"
    /\ \E i \in DOMAIN b : Classify(b[i]) = "ask"
    /\ turn' = turn + 1 /\ batch' = <<>> /\ verdict' = <<>>
    /\ UNCHANGED <<policy, cache, run, client, restarts, granted, answered, ran>>

\* The run goes on to its next turn or ends.
TurnEnds == /\ run = "running"
            /\ run' = "idle" /\ batch' = <<>> /\ verdict' = <<>> /\ answered' = {}
            /\ UNCHANGED <<policy, cache, turn, client, restarts, granted, ran>>

----------------------------------------------------------------------------
(* Answers *)

\* A mistake, for the mutants: a denial is remembered like an approval.
RemembersAny(call, outcome) == {Key(call)} \ {NoKey}

\* record_tool_approval_resolution: what the answer adds to the cache
Remembers(call, outcome) == IF outcome = "allow" THEN {Key(call)} \ {NoKey} ELSE {}

\* approval/resolve up to the resume: the approval must be pending, the answer is remembered.
Resolve(c, i, outcome) ==
    /\ client[c].stage = "idle" /\ run = "paused" /\ i \in Pending
    /\ cache' = cache \cup Remembers(batch[i], outcome)
    /\ client' = [client EXCEPT ![c] =
                     [stage |-> "recorded", turn |-> turn, index |-> i, outcome |-> outcome]]
    /\ granted' = IF outcome = "allow" THEN granted \cup {batch[i]} ELSE granted
    /\ answered' = answered \cup {<<turn, i>>}
    /\ UNCHANGED <<policy, run, turn, batch, verdict, restarts, ran>>

\* A mistake, for the mutants: the resolution is taken for whatever is pending.
ResolvesAny(c) == Cardinality(Approvals) = 1

\* resolve_tool_approval_decisions with one resolution: it must be for a pending approval, and
\* none may be left without one (the built-in hook's requests do not expire).
Resolves(c) == Approvals = {<<client[c].turn, client[c].index>>}

\* resume_tool_approval: refused unless the agent is paused, idle, and the one resolution is
\* all that is missing; then the allowed calls of the whole batch run.
Resume(c) ==
    /\ client[c].stage = "recorded"
    /\ client' = [client EXCEPT ![c] = NotAnswering]
    /\ IF run = "paused" /\ Resolves(c)
       THEN LET v == [i \in DOMAIN batch |-> IF i \in Pending THEN client[c].outcome ELSE verdict[i]]
            IN /\ verdict' = v
               /\ run' = "running"
               /\ ran' = ran \cup Uncovered(batch, {i \in DOMAIN batch : v[i] = "allow"},
                             {client[c].index} \cap {i \in Pending : <<turn, i>> \in answered})
       ELSE UNCHANGED <<verdict, run, ran>>
    /\ UNCHANGED <<policy, cache, turn, batch, restarts, granted, answered>>

\* agent/abort of a paused run.  (approval/resume_timeouts resumes with no resolution at all and
\* is always refused here: nothing expires.)
Abort == /\ run = "paused"
         /\ run' = "idle" /\ batch' = <<>> /\ verdict' = <<>> /\ answered' = {}
         /\ UNCHANGED <<policy, cache, turn, client, restarts, granted, ran>>

\* The process restarts between two runs, or while one is paused: the batch and its verdicts are
\* read from the log again, the session's memory of approvals and the requests under way are gone.
Restart == /\ run \in {"idle", "paused"} /\ restarts < MaxRestarts
           /\ restarts' = restarts + 1
           /\ cache' = {}
           /\ client' = [c \in Clients |-> NotAnswering]
           /\ UNCHANGED <<policy, run, turn, batch, verdict, granted, answered, ran>>

Stop == run = "idle" /\ turn = MaxTurns /\ UNCHANGED vars

Next == \/ \E b \in Batches : Ask(b) \/ ReviewFails(b)
        \/ TurnEnds \/ Abort \/ Restart \/ Stop
        \/ \E c \in Clients : \/ \E i \in 1..MaxBatch, o \in {"allow", "deny"} : Resolve(c, i, o)
                              \/ Resume(c)

Spec == Init /\ [][Next]_vars

----------------------------------------------------------------------------
TypeOK ==
    /\ run \in {"idle", "paused", "running"}
    /\ turn \in 0..MaxTurns /\ DOMAIN verdict = DOMAIN batch
    /\ \A i \in DOMAIN verdict : verdict[i] \in {"allow", "deny", "pending"}

\* Unless the policy is allow_all, a call that runs is read-only through and through, or it was
\* allowed by a person or the reviewer, or it is a command that somebody allowed word for word
\* earlier in the session, or it writes to (or ends) a job for which somebody allowed a write (an
\* end) earlier, whatever the text was; a late answer to one approval never lets another call run
\* (the hook, the session's cache and approval/resolve together).
RunsAreCovered == ran = {}

\* When every pending approval has been answered the run goes on (docs/TELEGRAM.md: "list
\* pending approval cards and resolve them with localized inline buttons").  Not so with two:
\* approval/resolve resumes with one resolution, which is refused while the other is missing.
AnsweredGoesOn ==
    ~(/\ run = "paused" /\ Approvals \subseteq answered
      /\ \A c \in Clients : client[c].stage = "idle")
=============================================================================
