---------------------------- MODULE SessionStore ----------------------------
(***************************************************************************)
(* How a session record is kept by the two durable backends of the session *)
(* registry (interaction/store/object.rs and sql.rs): the record itself,   *)
(* an index entry beside it (object store only) and one metadata marker    *)
(* per indexable key and value.  Every call of the backend is one step; it *)
(* may fail, and the process may crash between two of them.                *)
(*                                                                         *)
(* The files of different sessions are disjoint, so one session is enough. *)
(* Its metadata is the set of its indexable (key, value) pairs: `Labels`.  *)
(* A filter is the set of labels that `metadata_equals` asks for; filters  *)
(* of at most one label are used, so that finding candidates is one read.  *)
(***************************************************************************)
EXTENDS Naturals, Sequences, FiniteSets, SequencesExt

CONSTANTS
  Labels,      \* indexable metadata pairs
  Tasks,       \* concurrent callers of the store
  MaxSaves,    \* bound: versions (updated_at_ms) that are written
  MaxFaults    \* bound: backend errors and crashes

VARIABLES
  backend,  \* "object" or "sql", fixed
  record,   \* the stored record, or NoRecord
  index,    \* session-index entry (object store), or NoRecord
  markers,  \* labels with a metadata marker (a file, a row)
  task,     \* what each caller is doing
  faults,   \* errors and crashes so far
  taken     \* for the property: the entry was last removed in one of the ways StoredIsListed
            \* excepts, see Excepted

vars == <<backend, record, index, markers, task, faults, taken>>
files == <<record, index, markers>>

NoRecord == [meta |-> {}, ver |-> 0]
Record(meta, ver) == [meta |-> meta, ver |-> ver]
Stored == record # NoRecord

IdleTask == [op |-> "idle", todo |-> <<>>, rec |-> NoRecord, prev |-> NoRecord,
             filter |-> {}, met |-> FALSE]

Init ==
  /\ backend \in {"object", "sql"}
  /\ record = NoRecord /\ index = NoRecord /\ markers = {}
  /\ task = [t \in Tasks |-> IdleTask]
  /\ faults = 0 /\ taken = FALSE

-----------------------------------------------------------------------------
(* Calls of the backend.  The segment of a call says what its failure      *)
(* leads to.                                                               *)

Call(do, arg, seg) == [do |-> do, arg |-> arg, seg |-> seg]

ForEach(do, labels, seg) ==
  LET order == SetToSeq(labels)
  IN [i \in DOMAIN order |-> Call(do, order[i], seg)]

(* save_session_indexes: the index entry, then the markers.                *)
SaveIndexes(rec, seg1, seg2) ==
  <<Call("writeIndex", rec, seg1)>> \o ForEach("mark", rec.meta, seg2)

(* What save_session_indexes takes back when a marker cannot be written.   *)
DropIndexes(rec, seg1, seg2) ==
  <<Call("dropIndex", rec, seg1)>> \o ForEach("unmark", rec.meta, seg2)

(* The handler of a failed save: the indexes of the previous record are    *)
(* written again and the labels only the new one has are taken away.       *)
Restore(rec, prev) ==
  SaveIndexes(prev, "restoreIndex", "restoreMarks")
    \o ForEach("unmark", rec.meta \ prev.meta, "restoreDiff")

(* save_session_metadata_index of the SQL store: all rows go, then one     *)
(* comes per pair.                                                         *)
ReplaceRows(rec) ==
  <<Call("unmarkAll", rec, "rows")>> \o ForEach("mark", rec.meta, "rows")

InsertRecordFirst(rec) ==
  <<Call("writeRecord", rec, "record")>> \o SaveIndexes(rec, "index", "marks")
InsertObject(rec) ==
  SaveIndexes(rec, "index", "marks") \o <<Call("writeRecord", rec, "record")>>

InsertSql(rec) == <<Call("writeRecord", rec, "rows")>> \o ReplaceRows(rec)

SaveObjectNoMarks(rec, prev) ==
  <<Call("writeIndex", rec, "index"), Call("writeRecord", rec, "record")>>
    \o ForEach("unmark", prev.meta \ rec.meta, "stale")
SaveObject(rec, prev) ==
  InsertObject(rec) \o ForEach("unmark", prev.meta \ rec.meta, "stale")

SaveSql(rec) == InsertSql(rec)

RemoveObject(prev) ==
  <<Call("dropRecord", prev, "remove"), Call("dropIndex", prev, "remove")>>
    \o ForEach("unmark", prev.meta, "remove")

RemoveSql(prev) ==
  <<Call("dropRecord", prev, "remove"), Call("unmarkAll", prev, "remove")>>

(* The rest of a best-effort group is skipped when one of its calls fails. *)
WithoutSegments(todo, segs) == SelectSeq(todo, LAMBDA c : c.seg \notin segs)

(***************************************************************************)
(* What is still to do after a call has failed.  A failure of the index or *)
(* of the record itself is returned to the caller, after the handlers have *)
(* run; the handlers' own failures are ignored.                            *)
(***************************************************************************)
AfterError(tk) ==
  LET failed == Head(tk.todo)
      undo == DropIndexes(tk.rec, "undoIndex", "undoMarks")
      outer == IF tk.op = "save" THEN Restore(tk.rec, tk.prev) ELSE <<>>
  IN CASE failed.seg = "index" -> outer
       [] failed.seg = "marks" -> undo \o outer
       [] failed.seg = "record" -> IF tk.op = "save" THEN outer ELSE undo
       [] failed.seg = "restoreIndex" ->
            WithoutSegments(tk.todo, {"restoreIndex", "restoreMarks"})
       [] failed.seg = "restoreMarks" ->
            DropIndexes(tk.prev, "restoreUndo", "restoreUndoMarks")
              \o WithoutSegments(tk.todo, {"restoreMarks"})
       [] failed.seg \in {"undoIndex", "undoMarks", "restoreUndo", "restoreUndoMarks",
                          "restoreDiff", "ignored"} ->
            WithoutSegments(tk.todo, {failed.seg})
       [] OTHER -> <<>>

-----------------------------------------------------------------------------
(* The life of an operation.                                               *)

Idle(t) == task[t].op = "idle"
Busy == {t \in Tasks : ~Idle(t)}
Mutators == {"insert", "save", "remove"}

(* Calls of any kind overlap.  Only two inserts do not: the registry keeps *)
(* a session's id reserved while it creates it.                            *)
Begin(t, op, rec, todo, filter) ==
  /\ Idle(t)
  /\ op = "insert" => \A u \in Busy : task[u].op # "insert"
  /\ task' = [u \in Tasks |->
       IF u = t THEN [op |-> op, todo |-> todo, rec |-> rec, prev |-> record, filter |-> filter,
                      met |-> Busy # {}]
       ELSE IF Idle(u) THEN IdleTask ELSE [task[u] EXCEPT !.met = TRUE]]
  /\ UNCHANGED <<backend, files, faults, taken>>

Latest == IF Stored THEN record.ver ELSE 0

(* insert: refuses an id that is stored.                                   *)
Insert(t, meta) ==
  /\ ~Stored
  /\ LET rec == Record(meta, 1)
     IN Begin(t, "insert", rec,
              IF backend = "object" THEN InsertObject(rec) ELSE InsertSql(rec), {})

(* save: reads the previous record, refuses an id that is not stored.  Two *)
(* saves within a millisecond have the same updated_at_ms.                 *)
Save(t, meta, ver) ==
  /\ Stored /\ ver \in {Latest, Latest + 1} /\ ver <= MaxSaves
  /\ LET rec == Record(meta, ver)
     IN Begin(t, "save", rec,
              IF backend = "object" THEN SaveObject(rec, record) ELSE SaveSql(rec), {})

RemoveSession(t) ==
  /\ Stored
  /\ Begin(t, "remove", record,
           IF backend = "object" THEN RemoveObject(record) ELSE RemoveSql(record), {})

Applied(c) ==
  /\ record' = CASE c.do = "writeRecord" -> c.arg
                 [] c.do = "dropRecord" -> NoRecord
                 [] OTHER -> record
  /\ index' = CASE c.do = "writeIndex" -> c.arg
                [] c.do = "dropIndex" -> NoRecord
                [] OTHER -> index
  /\ markers' = CASE c.do = "mark" -> markers \cup {c.arg}
                  [] c.do = "unmark" -> markers \ {c.arg}
                  [] c.do = "unmarkAll" -> {}
                  [] OTHER -> markers

Writes(c) == c.do \notin {"candidates", "readIndex", "readRecord"}

Continue(t, todo) ==
  task' = [task EXCEPT ![t] = IF todo = <<>> THEN IdleTask ELSE [@ EXCEPT !.todo = todo]]

(* For the property: who takes an entry that a record may still need.      *)
Excepted(t) ==
  \/ task[t].met /\ task[t].op \in {"list", "remove", "insert"}
  \/ task[t].op = "list" /\ Head(task[t].todo).seg = "undoIndex"

Perform(t) ==
  /\ ~Idle(t) /\ Writes(Head(task[t].todo))
  /\ backend = "sql" /\ Head(task[t].todo).do = "mark"
       => Head(task[t].todo).arg \notin markers
  /\ Applied(Head(task[t].todo))
  /\ Continue(t, Tail(task[t].todo))
  /\ taken' = CASE Head(task[t].todo).do = "writeIndex" -> FALSE
                [] Head(task[t].todo).do = "dropIndex" /\ Excepted(t) -> TRUE
                [] OTHER -> taken
  /\ UNCHANGED <<backend, faults>>

(* The SQL store creates its rows: one that is there already, from a save  *)
(* that overlaps, is an error that ends this save.                         *)
DuplicateRow(t) ==
  /\ backend = "sql" /\ ~Idle(t)
  /\ Head(task[t].todo).do = "mark" /\ Head(task[t].todo).arg \in markers
  /\ Continue(t, <<>>)
  /\ UNCHANGED <<backend, files, faults, taken>>

MayFault == faults < MaxFaults

CallFails(t) ==
  /\ ~Idle(t) /\ Writes(Head(task[t].todo)) /\ MayFault
  /\ Continue(t, IF backend = "object" THEN AfterError(task[t]) ELSE <<>>)
  /\ faults' = faults + 1
  /\ UNCHANGED <<backend, files, taken>>

(* The process dies; what is on disk stays.                                *)
Crash ==
  /\ Busy # {} /\ MayFault
  /\ task' = [t \in Tasks |-> IdleTask]
  /\ faults' = faults + 1
  /\ UNCHANGED <<backend, files, taken>>

-----------------------------------------------------------------------------
(* list: reads the markers or the index entries, the index entry, and the  *)
(* record, and repairs what does not agree (object store).                 *)

Read(do) == Call(do, NoRecord, "read")
AtRead(t, do) == ~Idle(t) /\ Head(task[t].todo).do = do

ListSessions(t, filter) ==
  Begin(t, "list", NoRecord, <<Read("candidates")>>, filter)

Look(t, todo) ==
  /\ task' = [task EXCEPT ![t] = IF todo = <<>> THEN IdleTask
                                 ELSE [@ EXCEPT !.todo = todo]]
  /\ UNCHANGED <<backend, files, faults, taken>>

(* metadata_session_candidates, load_all_session_indexes.  The SQL store   *)
(* reads the rows of the candidates and changes nothing.                   *)
FindCandidates(t) ==
  /\ AtRead(t, "candidates")
  /\ Look(t, IF backend = "object"
                /\ (IF task[t].filter = {} THEN index # NoRecord
                    ELSE task[t].filter \subseteq markers)
             THEN <<Read("readIndex")>> ELSE <<>>)

(* load_candidate_session_indexes and the prefilter: a marker without an   *)
(* index entry, or one that the entry does not confirm, is removed.        *)
LoadIndex(t) ==
  /\ AtRead(t, "readIndex")
  /\ LET filter == task[t].filter
         orphan == IF filter = {} THEN <<>>
                   ELSE <<Call("dropIndex", NoRecord, "ignored")>>
                          \o ForEach("unmark", filter, "repair")
     IN \/ index = NoRecord /\ Look(t, orphan)
        \/ /\ index # NoRecord /\ ~(filter \subseteq index.meta)
           /\ Look(t, ForEach("unmark", filter \ index.meta, "repair"))
        \/ /\ index # NoRecord /\ filter \subseteq index.meta
           /\ task' = [task EXCEPT ![t].todo = <<Read("readRecord")>>, ![t].prev = index]
           /\ UNCHANGED <<backend, files, faults, taken>>

(* load_records_for_indexes: an entry without a record is removed, one     *)
(* that differs from its record is written again.                          *)
RepairsNothing(rec, entry) == <<>>
Repairs(rec, entry) ==
  IF rec = NoRecord
  THEN <<Call("dropIndex", NoRecord, "repair")>> \o ForEach("unmark", entry.meta, "repair")
  ELSE IF rec = entry THEN <<>>
  ELSE SaveIndexes(rec, "index", "marks")
         \o ForEach("unmark", entry.meta \ rec.meta, "repair")

LoadRecord(t) ==
  /\ AtRead(t, "readRecord")
  /\ LET todo == Repairs(record, task[t].prev)
     IN task' = [task EXCEPT ![t] = IF todo = <<>> THEN IdleTask
                                    ELSE [@ EXCEPT !.todo = todo, !.rec = record]]
  /\ UNCHANGED <<backend, files, faults, taken>>

Filters == {{}} \cup {{l} : l \in Labels}

Next ==
  \/ \E t \in Tasks :
       \/ \E meta \in SUBSET Labels : Insert(t, meta)
       \/ \E meta \in SUBSET Labels, ver \in 1..MaxSaves : Save(t, meta, ver)
       \/ RemoveSession(t)
       \/ \E filter \in Filters : ListSessions(t, filter)
       \/ Perform(t) \/ DuplicateRow(t) \/ CallFails(t)
       \/ FindCandidates(t) \/ LoadIndex(t) \/ LoadRecord(t)
  \/ Crash

Spec == Init /\ [][Next]_vars

-----------------------------------------------------------------------------
(* Properties.                                                             *)

(* What a list with this filter returns when nothing else runs.            *)
Returns(filter) ==
  /\ Stored /\ filter \subseteq record.meta
  /\ filter \subseteq markers
  /\ backend = "object" => index # NoRecord /\ filter \subseteq index.meta

(* The state is well typed, and only the object store keeps an index.      *)
TypeOK ==
  /\ record \in [meta : SUBSET Labels, ver : 0..MaxSaves] /\ markers \subseteq Labels
  /\ index \in [meta : SUBSET Labels, ver : 0..MaxSaves]
  /\ backend = "sql" => index = NoRecord
  /\ faults \in 0..MaxFaults

(* A stored session is never missing from an unfiltered list once the      *)
(* store is at rest, however inserts, saves, removals and lists overlapped *)
(* and one of their calls failed or the process died: the index entry is   *)
(* written before the record, and the handlers of a failure put it back.   *)
(* Except when what took the entry last was a list's repair, a removal or  *)
(* a failed insert that overlapped another call (a list that saw the entry *)
(* and not yet the record removes what an insert has just written,         *)
(* object.rs:626), or a list's repair that failed itself.                  *)
StoredIsListed == Busy = {} /\ Stored /\ ~taken => Returns({})
=============================================================================
