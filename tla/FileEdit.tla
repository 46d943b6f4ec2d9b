------------------------------ MODULE FileEdit ------------------------------
(***************************************************************************)
(* The file edit tools of a session (tools/file_edit.rs): write_file and   *)
(* apply_patch calls that run side by side on one FileEditManager.  An     *)
(* edit resolves the paths it names, takes the lock of each of them, reads *)
(* the files, stages what it will write, and only then writes, one file    *)
(* after the other.                                                        *)
(*                                                                         *)
(* A path is a number (the order of paths); a name is one spelling of a    *)
(* path.  A file is None (absent), Dir (a directory), or its text: the set *)
(* of the marks in it.  "context" is the text every hunk and every         *)
(* oldString looks for; an edit leaves its own mark.                       *)
(***************************************************************************)
EXTENDS Integers, Sequences, SequencesExt, FiniteSets

CONSTANTS Editors,      \* tool calls running side by side
          LongEditors,  \* those whose patches have up to two operations
          PathOf,       \* [spellings of paths -> paths]
          Aliases,      \* the names that spell a path a second time
          MaxFaults     \* writes and deletions the file system refuses

VARIABLES
    files,    \* [Paths -> file]: the disk
    edit,     \* [Editors -> the call's input]
    pc,       \* [Editors -> "new", "locking", "locked", "commit", "done"]
    arcs,     \* [Editors -> [paths -> locks]]: those the edit has or waits for
    held,     \* [Editors -> the paths whose locks it holds]
    lockMap,  \* [Paths -> lock]: FileEditManager::locks, weak references
    fresh,    \* the number of the next call; a lock is the call that made it and its path
    staged,   \* [Editors -> [paths -> staged file]]
    outcome,  \* [Editors -> "none", "ok", "error", "panic"]
    seen,     \* ghost: the disk as the edit validated it
    wrote,    \* ghost: the paths the edit has changed
    faults

vars == <<files, edit, pc, arcs, held, lockMap, fresh, staged, outcome, seen, wrote, faults>>

None == {"none"}
Dir  == {"directory"}
Gone == {"deleted"}
NoName == "no name"

\* FileEditManager::resolve: the path a name stands for.
Names == DOMAIN PathOf
Resolve(n) == PathOf[n]
Paths == {Resolve(n) : n \in Names}

\* PatchOperation.  An update may also move the file.
Ops(ns) == [kind : {"add", "delete"}, path : ns, to : {NoName}]
           \cup [kind : {"update"}, path : ns, to : ns \cup {NoName}]
           \cup [kind : {"move"}, path : ns, to : ns]

\* The operations that two-operation patches are made of: every kind, between different paths.
Pairable == {o \in Ops(Names) : IF o.to = NoName THEN TRUE
                                ELSE o.kind = "move" /\ Resolve(o.path) # Resolve(o.to)}

\* WriteFileInput::operation (one file, whole or by replacement) and a parsed patch.  Two
\* names of one path differ only where one patch uses both, and then the first it uses may
\* be either: an alias comes second.
Inputs(e) ==
    LET ns == Names \ Aliases
    IN {<<[kind |-> k, path |-> n, to |-> NoName]>> : k \in {"write", "replace"}, n \in ns}
       \cup {<<o>> : o \in {o \in Ops(IF e \in LongEditors THEN Names ELSE ns) : o.path \in ns}}
       \cup (IF e \in LongEditors THEN (Pairable \cap Ops(ns)) \X Pairable ELSE {})

NamesOf(ops) == {ops[i].path : i \in DOMAIN ops} \cup ({ops[i].to : i \in DOMAIN ops} \ {NoName})

\* resolve_patch_paths keeps one name for each path: the one the patch uses last.
Mentions(ops) == FoldLeft(LAMBDA acc, o : acc \o <<o.path>> \o (IF o.to = NoName THEN <<>> ELSE <<o.to>>),
                          <<>>, ops)
Requested(ops) ==
    LET ms == Mentions(ops) IN
    {ms[i] : i \in {j \in DOMAIN ms : \A k \in DOMAIN ms : k > j => Resolve(ms[k]) # Resolve(ms[j])}}

----------------------------------------------------------------------------
(* Validation.  A result is [st |-> staged, err |-> "none", "error", "panic"]. *)

View(fs, st, p) == IF p \in DOMAIN st THEN (IF st[p] = Gone THEN None ELSE st[p]) ELSE fs[p]
IsText(f) == f \notin {None, Dir}
Put(st, p, f) == [q \in DOMAIN st \cup {p} |-> IF q = p THEN f ELSE st[q]]
Refused(r) == [r EXCEPT !.err = "error"]
Unstaged == [st |-> <<>>, err |-> "none"]

\* ensure_path_absent, then a staged write.
StageAdd(fs, r, p, text) ==
    IF View(fs, r.st, p) = None THEN [r EXCEPT !.st = Put(@, p, text)] ELSE Refused(r)

\* ensure_path_exists, then a staged deletion.
StageDelete(fs, r, p) ==
    IF IsText(View(fs, r.st, p)) THEN [r EXCEPT !.st = Put(@, p, Gone)] ELSE Refused(r)

\* read_staged_text and apply_hunk: the context must be found.
StageUpdate(fs, r, p, e) ==
    LET text == View(fs, r.st, p) IN
    IF IsText(text) /\ "context" \in text
    THEN [r EXCEPT !.st = Put(@, p, text \cup {e})] ELSE Refused(r)

\* read_staged_bytes, ensure_path_absent, a staged deletion and a staged write.
StageMove(fs, r, p, q) ==
    LET text == View(fs, r.st, p) IN
    IF IsText(text) /\ View(fs, r.st, q) = None
    THEN [r EXCEPT !.st = Put(Put(@, p, Gone), q, text)] ELSE Refused(r)

StageOp(fs, r, o, e) ==
    LET p == Resolve(o.path) IN
    CASE o.kind = "add"    -> StageAdd(fs, r, p, {"context", e})
      [] o.kind = "delete" -> StageDelete(fs, r, p)
      [] o.kind = "move"   -> StageMove(fs, r, p, Resolve(o.to))
      [] o.kind = "update" ->
           LET u == StageUpdate(fs, r, p, e) IN
           IF o.to = NoName \/ u.err # "none" THEN u ELSE StageMove(fs, u, p, Resolve(o.to))

\* One operation of validate_patch.  A name that resolve_patch_paths did not keep is not
\* found, and the lookup panics.
Validated(fs, ops, e, r, i) ==
    IF r.err # "none" THEN r
    ELSE IF NamesOf(<<ops[i]>>) \subseteq Requested(ops) THEN StageOp(fs, r, ops[i], e)
    ELSE [r EXCEPT !.err = "panic"]

\* validate_patch: the operations in order, up to the first that is refused.
ValidatePatch(fs, ops, e) ==
    LET after[i \in 0..Len(ops)] == IF i = 0 THEN Unstaged
                                    ELSE Validated(fs, ops, e, after[i - 1], i)
    IN after[Len(ops)]

\* write_text after the lock: ensure_not_directory; a whole write needs nothing else, a
\* replacement needs its text to be there.
ValidateWrite(fs, w, e) ==
    LET p == Resolve(w.path)
    IN IF fs[p] = Dir THEN Refused(Unstaged)
       ELSE IF w.kind = "write" THEN [Unstaged EXCEPT !.st = Put(@, p, {e})]
       ELSE StageUpdate(fs, Unstaged, p, e)

Validate(fs, ops, e) ==
    IF ops[1].kind \in {"write", "replace"} THEN ValidateWrite(fs, ops[1], e)
    ELSE ValidatePatch(fs, ops, e)

----------------------------------------------------------------------------
Init ==
    /\ files \in [Paths -> {None, Dir, {"context"}}]
    /\ LET inputs == [e \in Editors |-> Inputs(e)]
       IN edit \in {f \in [Editors -> UNION {inputs[e] : e \in Editors}] :
                      \A e \in Editors : f[e] \in inputs[e]}
    /\ pc = [e \in Editors |-> "new"]
    /\ arcs = [e \in Editors |-> <<>>]
    /\ held = [e \in Editors |-> {}]
    /\ lockMap = [p \in Paths |-> <<0, p>>]
    /\ fresh = 1
    /\ staged = [e \in Editors |-> <<>>]
    /\ outcome = [e \in Editors |-> "none"]
    /\ seen = [e \in Editors |-> files]
    /\ wrote = [e \in Editors |-> {}]
    /\ faults = 0

\* A lock lives as long as some edit refers to it (Weak::upgrade, the retain of lock_paths).
Alive(l) == \E e \in Editors : \E p \in DOMAIN arcs[e] : arcs[e][p] = l

\* A mistake, for the mutants: a lock made for each call.
LockAnew(p) == <<fresh, p>>

\* The lock of a path: the one in the map while it lives, a new one otherwise.
LockOf(p) == IF Alive(lockMap[p]) THEN lockMap[p] ELSE <<fresh, p>>

Targets(ops) == {Resolve(n) : n \in NamesOf(ops)}

\* The first half of lock_paths, under the map's own mutex.
FindLocks(e) ==
    /\ pc[e] = "new"
    /\ LET ps == Targets(edit[e]) IN
         /\ arcs' = [arcs EXCEPT ![e] = [p \in ps |-> LockOf(p)]]
         /\ lockMap' = [p \in Paths |-> IF p \in ps THEN LockOf(p)
                                        ELSE IF Alive(lockMap[p]) THEN lockMap[p]
                                        ELSE <<0, p>>]
    /\ fresh' = fresh + 1
    /\ pc' = [pc EXCEPT ![e] = "locking"]
    /\ UNCHANGED <<files, edit, held, staged, outcome, seen, wrote, faults>>

Free(l) == \A e \in Editors : \A p \in held[e] : arcs[e][p] # l

\* sorted_unique_paths: the least path that is left.
First(p, ps) == p \in ps /\ \A q \in ps : p <= q
Missing(e) == DOMAIN arcs[e] \ held[e]

\* The second half: lock_owned().await, one after the other.
TakeLock(e) ==
    /\ pc[e] = "locking"
    /\ \E p \in Missing(e) :
         /\ First(p, Missing(e)) /\ Free(arcs[e][p])
         /\ held' = [held EXCEPT ![e] = @ \cup {p}]
         /\ pc' = [pc EXCEPT ![e] = IF Missing(e) = {p} THEN "locked" ELSE "locking"]
    /\ UNCHANGED <<files, edit, arcs, lockMap, fresh, staged, outcome, seen, wrote, faults>>

\* The guards are dropped when the call returns, or unwinds.
End(e, how) ==
    /\ pc' = [pc EXCEPT ![e] = "done"]
    /\ outcome' = [outcome EXCEPT ![e] = how]
    /\ arcs' = [arcs EXCEPT ![e] = <<>>]
    /\ held' = [held EXCEPT ![e] = {}]

Stage(e) ==
    /\ pc[e] = "locked"
    /\ LET r == Validate(files, edit[e], e) IN
         \/ /\ r.err # "none"
            /\ End(e, r.err)
            /\ UNCHANGED <<staged, seen>>
         \/ /\ r.err = "none"
            /\ staged' = [staged EXCEPT ![e] = r.st]
            /\ seen' = [seen EXCEPT ![e] = files]
            /\ pc' = [pc EXCEPT ![e] = "commit"]
            /\ UNCHANGED <<outcome, arcs, held>>
    /\ UNCHANGED <<files, edit, lockMap, fresh, wrote, faults>>

Left(e) == DOMAIN staged[e] \ wrote[e]

\* One turn of commit_staged_files, in path order.  remove_file of a file that is not
\* there fails: an addition that the same patch deletes or moves away was never on the disk.
CommitFile(e) ==
    /\ pc[e] = "commit"
    /\ \E p \in Left(e) :
         /\ First(p, Left(e))
         /\ \/ /\ ~(staged[e][p] = Gone /\ files[p] = None)
               /\ files' = [files EXCEPT ![p] = IF staged[e][p] = Gone THEN None ELSE staged[e][p]]
               /\ wrote' = [wrote EXCEPT ![e] = @ \cup {p}]
               /\ UNCHANGED <<pc, outcome, arcs, held, faults>>
            \/ /\ staged[e][p] = Gone /\ files[p] = None
               /\ End(e, "error")
               /\ UNCHANGED <<files, wrote, faults>>
            \/ /\ faults < MaxFaults
               /\ faults' = faults + 1
               /\ End(e, "error")
               /\ UNCHANGED <<files, wrote>>
    /\ UNCHANGED <<edit, lockMap, fresh, staged, seen>>

Answer(e) ==
    /\ pc[e] = "commit"
    /\ Left(e) = {}
    /\ End(e, "ok")
    /\ UNCHANGED <<files, edit, lockMap, fresh, staged, seen, wrote, faults>>

Step(e) == FindLocks(e) \/ TakeLock(e) \/ Stage(e) \/ CommitFile(e) \/ Answer(e)

AllDone == /\ \A e \in Editors : pc[e] = "done"
           /\ UNCHANGED vars

Next == (\E e \in Editors : Step(e)) \/ AllDone

Spec == Init /\ [][Next]_vars

----------------------------------------------------------------------------
File == SUBSET ({"context", "none", "directory", "deleted"} \cup Editors)
TypeOK ==
    /\ files \in [Paths -> File]
    /\ pc \in [Editors -> {"new", "locking", "locked", "commit", "done"}]
    /\ \A e \in Editors : held[e] \subseteq DOMAIN arcs[e] /\ wrote[e] \subseteq Paths
    /\ outcome \in [Editors -> {"none", "ok", "error", "panic"}]
    /\ faults \in 0..MaxFaults

\* A file that an edit is about to write still is what the edit read: two edits of one
\* path, however it is spelled, never work from the same text, so none loses the other's
\* change (the locks of lock_paths, kept from before the first read to after the last write).
NoLostUpdate ==
    \A e \in Editors : pc[e] = "commit" =>
        \A p \in Left(e) : files[p] = seen[e][p]

\* An edit that answers with an error though the file system refused nothing has changed
\* no file ("all operations are validated first, and nothing is written when validation
\* fails", docs/ARCHITECTURE.md): not so when a patch moves or deletes a file it added.
FailureWritesNothing ==
    \A e \in Editors : outcome[e] \in {"error", "panic"} /\ faults = 0 => wrote[e] = {}

\* While an edit has not answered, some edit can go on: crossing patches never wait for each
\* other's locks, which lock_paths takes in the order of the paths.
NobodyStuck ==
    (\E e \in Editors : pc[e] # "done") =>
        \E e \in Editors : /\ pc[e] # "done"
                           /\ pc[e] = "locking" => \E p \in Missing(e) :
                                First(p, Missing(e)) /\ Free(arcs[e][p])
=============================================================================
