----------------------------- MODULE Manifest -----------------------------
(***************************************************************************)
(* The manifest of a session (manifest.rs, session.rs, tools/manifest.rs): *)
(* the model proposes patches, a client approves them and asks for the     *)
(* approved ones to be applied, and the next runtime is built from what    *)
(* the manifest then says: built-in tools, the tools of the plugins (MCP   *)
(* servers, stdio extensions, skills) and one tool to edit files.          *)
(*                                                                         *)
(* The text of a prompt addition, the policies a patch sets and the        *)
(* plugins' settings are reduced to what patches and builds tell apart.    *)
(* What a server offers is chosen by the server each time it is asked.     *)
(***************************************************************************)
EXTENDS Naturals, Sequences, FiniteSets, SequencesExt

CONSTANTS
  Additions,     \* ids of system prompt additions
  McpPlugins, ExtPlugins, SkillPlugins,  \* plugin ids, by kind of component
  Calls,         \* calls of manifest/apply_approved that may overlap
  HasInputLimit, \* whether the model's input limit is known
  MaxProposals   \* bound: proposals recorded, over all lives of the process

Plugins == McpPlugins \cup ExtPlugins \cup SkillPlugins
FileTools == {"write_file", "apply_patch"}
BuiltIns == {"exec"}
ToolNames == BuiltIns \cup FileTools \cup {"extra"}
FilePolicies == {"auto", "apply_patch", "write_file", "disabled"}
OnFailure == {"disable_for_run", "fail_run"}

VARIABLES
  live,     \* the manifest of the loaded session
  stored,   \* the manifest of the last snapshot
  pending,  \* proposals waiting for approval: id -> patch
  approved, \* approved proposals, oldest first
  recorded, \* the proposal counter
  made,     \* proposals recorded over all lives
  calls,    \* apply_approved: call -> [pc, take, done]
  runtime,  \* the runtime: [state, tools, warned]; its tools are forgotten
            \* once the first proposal is made
  applied,  \* ids applied to the live manifest, in order
  saved,    \* how many of them the stored manifest contains
  reported, \* ids a reply named as applied
  failed,   \* an apply_approved or its save ended in an error
  refused   \* ids whose own patch was refused

vars == <<live, stored, pending, approved, recorded, made, calls, runtime,
          applied, saved, reported, failed, refused>>

NoFun == [x \in {} |-> "none"]
NoCall == [pc |-> "idle", take |-> <<>>, done |-> <<>>]
NoRuntime == [state |-> "none", tools |-> NoFun, warned |-> {}]

-----------------------------------------------------------------------------
(* Patches.                                                                *)

Patches ==
  [op : {"upsert", "remove", "register", "unregister", "switch"}, id : Additions \cup Plugins]
    \cup [op : {"clear", "custom", "built_in", "reserved"}]
    \cup [op : {"reorder"}, ids : {s \in UNION {[1..n -> Additions] : n \in 1..Cardinality(Additions)} :
                                     IsInjective(s)}]
    \cup [op : {"enable", "disable"}, tool : BuiltIns]
    \cup [op : {"file_policy"}, policy : FilePolicies]

OnAddition(p) == p.op \in {"upsert", "remove"}
OnPlugin(p) == p.op \in {"register", "unregister", "switch"}
WellFormed(p) ==
  /\ OnAddition(p) => p.id \in Additions
  /\ OnPlugin(p) => p.id \in Plugins

(* ManifestPatch::validate: made when a patch is proposed and again when   *)
(* it is applied. It looks at the patch alone, never at the manifest.      *)
Validate(p) == p.op # "reserved"

(* Whether apply_patch accepts the patch for the manifest as it is now.    *)
Accepts(man, p) ==
  CASE p.op = "remove" -> p.id \in Range(man.additions)
    [] p.op = "reorder" -> Range(p.ids) = Range(man.additions)
    [] p.op = "register" -> p.id \notin DOMAIN man.plugins
    [] p.op \in {"unregister", "switch"} -> p.id \in DOMAIN man.plugins
    [] OTHER -> Validate(p)

Without(fun, key) == [x \in DOMAIN fun \ {key} |-> fun[x]]

(* apply_patch: a change of the base prompt keeps the additions.           *)
ApplyPatch(man, p, policy) ==
  CASE p.op = "upsert" ->
         IF p.id \in Range(man.additions) THEN man
         ELSE [man EXCEPT !.additions = Append(@, p.id)]
    [] p.op = "remove" -> [man EXCEPT !.additions = Remove(@, p.id)]
    [] p.op = "reorder" -> [man EXCEPT !.additions = p.ids]
    [] p.op = "clear" -> [man EXCEPT !.additions = <<>>]
    [] p.op \in {"custom", "built_in"} -> [man EXCEPT !.base = p.op]
    [] p.op = "enable" -> [man EXCEPT !.tools = @ \cup {p.tool}]
    [] p.op = "disable" -> [man EXCEPT !.tools = @ \ {p.tool}]
    [] p.op = "file_policy" -> [man EXCEPT !.file = p.policy]
    [] p.op = "register" ->
         [man EXCEPT !.plugins = [x \in DOMAIN @ \cup {p.id} |->
            IF x = p.id THEN [enabled |-> TRUE, policy |-> policy] ELSE @[x]]]
    [] p.op = "switch" -> [man EXCEPT !.plugins[p.id].enabled = ~@]
    [] p.op = "unregister" -> [man EXCEPT !.plugins = Without(@, p.id)]

(* The manifests a profile starts a session with.                          *)
Profiles ==
  [base : {"built_in"}, additions : {<<>>}, tools : {BuiltIns}, file : {"auto"},
   plugins : {NoFun} \cup {[x \in {p} |-> [enabled |-> TRUE, policy |-> f]] :
                             p \in Plugins, f \in OnFailure}]

Init ==
  /\ live \in Profiles /\ stored = live
  /\ pending = NoFun /\ approved = <<>> /\ recorded = 0 /\ made = 0
  /\ calls = [c \in Calls |-> NoCall]
  /\ runtime = NoRuntime
  /\ applied = <<>> /\ saved = 0 /\ reported = {} /\ failed = FALSE /\ refused = {}

-----------------------------------------------------------------------------
(* Proposals.                                                              *)

(* ManifestPatchProposalTool::execute_tool and                             *)
(* record_pending_proposal_with_summary.                                   *)
Propose(p) ==
  /\ runtime.state \in {"built", "used"}
  /\ made < MaxProposals /\ Validate(p)
  /\ recorded' = recorded + 1 /\ made' = made + 1
  /\ runtime' = [NoRuntime EXCEPT !.state = "used"]
  /\ pending' = [i \in DOMAIN pending \cup {recorded'} |->
                   IF i = recorded' THEN p ELSE pending[i]]
  /\ UNCHANGED <<live, stored, approved, calls, applied, saved, reported, failed, refused>>

ApproveProposal(i) ==
  /\ i \in DOMAIN pending
  /\ pending' = Without(pending, i)
  /\ approved' = Append(approved, [id |-> i, patch |-> pending[i]])
  /\ UNCHANGED <<live, stored, recorded, made, calls, runtime, applied, saved, reported, failed, refused>>

DrainsCopy(c) ==
  /\ calls[c].pc = "idle" /\ approved # <<>>
  /\ calls' = [calls EXCEPT ![c] = [pc |-> "apply", take |-> approved, done |-> <<>>]]
  /\ UNCHANGED <<live, stored, pending, approved, recorded, made, runtime, applied, saved, reported, failed, refused>>

DrainApproved(c) ==
  /\ calls[c].pc = "idle" /\ approved # <<>>
  /\ calls' = [calls EXCEPT ![c] = [pc |-> "apply", take |-> approved, done |-> <<>>]]
  /\ approved' = <<>>
  /\ UNCHANGED <<live, stored, pending, recorded, made, runtime, applied, saved, reported, failed, refused>>

(* The patches one by one, under the lock of the manifest: the first that  *)
(* is refused ends the call, and neither it nor those after it are put     *)
(* back. After is the manifest at the end and how many were accepted.       *)
After(man, take, policy) ==
  LET after[k \in 0..Len(take)] ==
        IF k = 0 THEN [man |-> man, count |-> 0]
        ELSE IF after[k - 1].count = k - 1 /\ Accepts(after[k - 1].man, take[k].patch)
        THEN [man |-> ApplyPatch(after[k - 1].man, take[k].patch, policy), count |-> k]
        ELSE after[k - 1]
  IN after[Len(take)]

Applied(man, take, policy) ==
  LET end == After(man, take, policy) IN
    [man |-> end.man, ok |-> end.count = Len(take),
     done |-> [k \in 1..end.count |-> take[k].id],
     refused |-> IF end.count = Len(take) THEN {} ELSE {take[end.count + 1].id}]

ApplyApproved(c) ==
  /\ calls[c].pc = "apply"
  /\ \E policy \in OnFailure :
       LET result == Applied(live, calls[c].take, policy) IN
         /\ live' = result.man
         /\ applied' = applied \o result.done
         /\ calls' = [calls EXCEPT ![c] = IF result.ok
              THEN [pc |-> "save", take |-> <<>>, done |-> result.done]
              ELSE NoCall]
         /\ failed' = (failed \/ ~result.ok)
         /\ refused' = refused \cup result.refused
  /\ UNCHANGED <<stored, pending, approved, recorded, made, runtime, saved, reported>>

(* save_snapshot of the control plane's call, then its reply.              *)
SaveApplied(c) ==
  /\ calls[c].pc = "save"
  /\ stored' = live /\ saved' = Len(applied)
  /\ reported' = reported \cup Range(calls[c].done)
  /\ calls' = [calls EXCEPT ![c] = NoCall]
  /\ UNCHANGED <<live, pending, approved, recorded, made, runtime, applied, failed, refused>>

SaveIgnored(c) ==
  /\ calls[c].pc = "save"
  /\ reported' = reported \cup Range(calls[c].done)
  /\ calls' = [calls EXCEPT ![c] = NoCall] /\ failed' = TRUE
  /\ UNCHANGED <<live, stored, pending, approved, recorded, made, runtime, applied, saved, refused>>

SaveFails(c) ==
  /\ calls[c].pc = "save"
  /\ calls' = [calls EXCEPT ![c] = NoCall] /\ failed' = TRUE
  /\ UNCHANGED <<live, stored, pending, approved, recorded, made, runtime, applied, saved, reported, refused>>

-----------------------------------------------------------------------------
(* Building a runtime (external: what a plugin's server offers).           *)

Offers == {<<n>> : n \in ToolNames} \cup {<<"extra", n>> : n \in ToolNames}

WithTool(tools, name, owner) ==
  [n \in DOMAIN tools \cup {name} |-> IF n = name THEN owner ELSE tools[n]]

LoadOver(tools, p, offer) ==
  [tools |-> FoldLeft(LAMBDA acc, n : WithTool(acc, n, p), tools, offer), complains |-> FALSE]

(* select_tools refuses a server that exposes one name twice; a name that  *)
(* is taken is skipped with a complaint, the others are added.             *)
LoadMcp(tools, p, offer) ==
  IF ~IsInjective(offer) THEN [tools |-> tools, complains |-> TRUE]
  ELSE [tools |-> FoldLeft(LAMBDA acc, n : IF n \in DOMAIN acc THEN acc ELSE WithTool(acc, n, p),
                           tools, offer),
        complains |-> Range(offer) \cap DOMAIN tools # {}]

(* validate_extension_capabilities: nothing of an extension is added if    *)
(* one of its capabilities is there already or named twice.                *)
LoadExtension(tools, p, offer) ==
  IF IsInjective(offer) /\ Range(offer) \cap DOMAIN tools = {}
  THEN [tools |-> FoldLeft(LAMBDA acc, n : WithTool(acc, n, p), tools, offer), complains |-> FALSE]
  ELSE [tools |-> tools, complains |-> TRUE]

Load(tools, p, offer) ==
  CASE p \in McpPlugins -> LoadMcp(tools, p, offer)
    [] p \in ExtPlugins -> LoadExtension(tools, p, offer)
    [] OTHER -> [tools |-> tools, complains |-> FALSE]

(* selected_file_edit_tool: by the name of the default model.              *)
SelectedFileTool(policy, gpt) ==
  CASE policy = "auto" -> IF gpt THEN {"apply_patch"} ELSE {"write_file"}
    [] policy = "disabled" -> {}
    [] OTHER -> {policy}

(* build: whatever is called like a file edit tool gives way.              *)
WithFileTool(tools, policy, gpt) ==
  LET selected == SelectedFileTool(policy, gpt) IN
    [n \in (DOMAIN tools \ FileTools) \cup selected |->
       IF n \in selected THEN "built_in" ELSE tools[n]]

(* record_plugin_load_error: a warning, or the end of the build.           *)
Complains(acc, p, policy) ==
  IF policy = "fail_run" THEN [acc EXCEPT !.ok = FALSE]
  ELSE [acc EXCEPT !.warned = @ \cup {p}]

LoadPlugin(acc, p, policy, offer) ==
  IF ~acc.ok THEN acc
  ELSE IF offer = <<>> THEN Complains(acc, p, policy)
  ELSE LET result == Load(acc.tools, p, offer)
           next == [acc EXCEPT !.tools = result.tools,
                               !.skills = @ \/ p \in SkillPlugins]
       IN IF result.complains THEN Complains(next, p, policy) ELSE next

(* runtime_builder, with_manifest_plugins and build. An offer of <<>> is a *)
(* server that cannot be started or asked; order is that of the plugins'   *)
(* ids. It happens when a session is created or loaded, and again at the   *)
(* next attempt when it fails.                                             *)
Enabled == {p \in DOMAIN live.plugins : live.plugins[p].enabled}

Build(order, offers, gpt) ==
  LET start == [tools |-> [n \in live.tools |-> "built_in"], warned |-> {},
                ok |-> TRUE, skills |-> FALSE]
      end == FoldLeft(LAMBDA acc, p : LoadPlugin(acc, p, live.plugins[p].policy, offers[p]),
                      start, order)
  IN IF end.ok /\ (end.skills => HasInputLimit)
     THEN [state |-> "built", tools |-> WithFileTool(end.tools, live.file, gpt),
           warned |-> end.warned]
     ELSE [NoRuntime EXCEPT !.state = "error"]

BuildRuntime ==
  /\ runtime.state \in {"none", "error"}
  /\ \E gpt \in BOOLEAN, order \in SetToSeqs(Enabled), offers \in [Enabled -> Offers \cup {<<>>}] :
       runtime' = Build(order, offers, gpt)
  /\ UNCHANGED <<live, stored, pending, approved, recorded, made, calls, applied, saved, reported, failed, refused>>

(* The process stops; the session is loaded again from its snapshot. The   *)
(* proposals were in memory only.                                          *)
Restart ==
  /\ runtime.state # "none"
  /\ live' = stored
  /\ pending' = NoFun /\ approved' = <<>> /\ recorded' = 0
  /\ calls' = [c \in Calls |-> NoCall] /\ runtime' = NoRuntime
  /\ applied' = <<>> /\ saved' = 0 /\ reported' = {} /\ failed' = FALSE /\ refused' = {}
  /\ UNCHANGED <<stored, made>>

Next ==
  \/ \E p \in {q \in Patches : WellFormed(q)} : Propose(p)
  \/ \E i \in 1..MaxProposals : ApproveProposal(i)
  \/ \E c \in Calls : DrainApproved(c)
  \/ \E c \in Calls : ApplyApproved(c)
  \/ \E c \in Calls : SaveApplied(c)
  \/ \E c \in Calls : SaveFails(c)
  \/ BuildRuntime
  \/ Restart

Spec == Init /\ [][Next]_vars
-----------------------------------------------------------------------------
(* Every variable has its type.                                            *)
TypeOK ==
  /\ {live.base, stored.base} \subseteq {"custom", "built_in"}
  /\ Range(live.additions) \subseteq Additions /\ IsInjective(live.additions)
  /\ live.tools \subseteq BuiltIns /\ live.file \in FilePolicies
  /\ DOMAIN live.plugins \subseteq Plugins
  /\ recorded \in 0..MaxProposals /\ DOMAIN pending \subseteq 1..recorded
  /\ runtime.state \in {"none", "built", "used", "error"} /\ DOMAIN runtime.tools \subseteq ToolNames
  /\ saved \in 0..Len(applied) /\ failed \in BOOLEAN

(* apply_approved_manifest_patches and approve_proposal: as long as no     *)
(* call ended in an error, every proposal recorded in this life of the     *)
(* process is waiting, approved, taken by one call or applied, and in only *)
(* one of these places: however the calls overlap, none is applied twice   *)
(* and none gets lost.                                                     *)
Places(i) ==
  Cardinality({i} \cap DOMAIN pending)
    + Cardinality({k \in DOMAIN approved : approved[k].id = i})
    + Cardinality({c \in Calls : \E k \in DOMAIN calls[c].take : calls[c].take[k].id = i})
    + Cardinality({k \in DOMAIN applied : applied[k] = i})

ProposalInOnePlace == ~failed => \A i \in 1..recorded : Places(i) = 1

(* The same without the condition, as INTERACTION.md has it: "drains       *)
(* approved proposals and applies supported manifest patches", except for  *)
(* a proposal whose own patch is refused. An approved proposal is lost     *)
(* when one before it is refused.                                          *)
ApprovedIsKept == \A i \in 1..recorded : i \in refused \/ Places(i) >= 1

(* manifest/apply_approved: what a reply names as applied is in the stored *)
(* manifest, whichever calls overlap and whichever save fails.             *)
ReportedIsStored == reported \subseteq Range(SubSeq(applied, 1, saved))

(* with_manifest_plugins and build: no plugin takes the place of an        *)
(* enabled built-in tool, a file edit tool is the built-in one the policy  *)
(* asks for whatever a plugin registered, and every other tool belongs to  *)
(* a plugin that is enabled.                                               *)
ToolsAsDeclared ==
  [][(runtime' # runtime /\ runtime'.state = "built") =>
       /\ \A n \in live.tools : runtime'.tools[n] = "built_in"
       /\ \E gpt \in BOOLEAN :
            DOMAIN runtime'.tools \cap FileTools = SelectedFileTool(live.file, gpt)
       /\ \A n \in DOMAIN runtime'.tools \cap FileTools : runtime'.tools[n] = "built_in"
       /\ \A n \in DOMAIN runtime'.tools \ (live.tools \cup FileTools) :
            runtime'.tools[n] \in Enabled]_vars
=============================================================================
