--------------------------- MODULE VisibilityStore --------------------------
(***************************************************************************)
(* The table of process executions that clients list                       *)
(* (persistence/visibility, extensions/postgres), as operators on a set of *)
(* rows [id, start, status]; the id, a uuid, is the key.  Reads go by the  *)
(* time of the start, the latest first, then by the id, in pages.  The     *)
(* filters on status, id and type only select the rows a page is made of.  *)
(***************************************************************************)
EXTENDS Naturals, FiniteSets

(* Faulty variant: only an open execution has its key taken. *)
HasOpenRow(rows, id) == \E r \in rows : r.id = id /\ r.status = "Running"

(* The primary key. *)
HasRow(rows, id) == \E r \in rows : r.id = id

InsertProcessExecutionStartForVisibility(rows, id, start) ==
    rows \cup {[id |-> id, start |-> start, status |-> "Running"]}

(* No row is updated if there is none yet. *)
UpdateProcessExecutionStatusForVisibility(rows, id, status) ==
    {IF r.id = id THEN [r EXCEPT !.status = status] ELSE r : r \in rows}

(* ORDER BY start_time DESC, process_execution_id *)
Before(r, s) == r.start > s.start \/ (r.start = s.start /\ r.id < s.id)

(* A token names the last row of a page; the first page has the least one. *)
FirstToken == [id |-> 0, start |-> 0]

(* Faulty variant: rows are told apart by their id only. *)
BeyondById(r, token) == r.id > token.id

Beyond(r, token) == r.id > token.id \/ r.start < token.start

Page(rows, token, size) ==
    LET found == {r \in rows : Beyond(r, token)}
    IN  {r \in found : Cardinality({s \in found : Before(s, r)}) < size}

TokenOf(page) ==
    LET last == CHOOSE r \in page : \A s \in page \ {r} : Before(s, r)
    IN  [id |-> last.id, start |-> last.start]
=============================================================================
