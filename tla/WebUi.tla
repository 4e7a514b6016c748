-------------------------------- MODULE WebUi ---------------------------------
(*****************************************************************************)
(* The connections of crates/rdg-server/src/handlers/webui.rs over the table *)
(* connections of crates/rdg-core/src/db/sqlite.rs.  Every handler checks    *)
(* the session cookie and runs one query, which may fail.                    *)
(*                                                                           *)
(* What a row holds besides its id (name, host, port, description, icon) is  *)
(* one value, written as a whole.  born is history: the number of the        *)
(* creation that made the row.                                               *)
(*****************************************************************************)
EXTENDS Naturals

CONSTANTS Value   \* contents of a connection, without 0

VARIABLES table,    \* the rows
          lastId,   \* the largest id ever given, which AUTOINCREMENT keeps
          births    \* history: creations so far

webVars == <<table, lastId, births>>

Row == [id : Nat, val : Value, born : Nat]
Kind == {"list", "create", "update", "delete", "rdp"}
Request == [kind : Kind, id : Nat, val : Value \cup {0}, born : Nat]
Status == {"None", "OK", "NotFound", "Unauthorized", "ServerError", "Failed"}
Response == [status : Status, rows : SUBSET Row]

\* The gateway starts on a database without connections or with one.
WebInit ==
    \/ table = {} /\ lastId = 0 /\ births = 0
    \/ /\ \E v \in Value : table = {[id |-> 1, val |-> v, born |-> 1]}
       /\ lastId = 1 /\ births = 1

\* Mutant: the id of a new row is one more than the largest in the table.
NextId_Rowid == IF table = {} THEN 1 ELSE 1 + (CHOOSE r \in table : \A s \in table : s.id <= r.id).id

\* The id of a new row.
NextId == lastId + 1

NewRow(v) == [id |-> NextId, val |-> v, born |-> births + 1]

create_connection(v) ==
    /\ table' = table \cup {NewRow(v)}
    /\ lastId' = NextId
    /\ births' = births + 1

\* An id that is not there is no error.
update_connection(i, v) ==
    /\ table' = {IF r.id = i THEN [r EXCEPT !.val = v] ELSE r : r \in table}
    /\ UNCHANGED <<lastId, births>>

delete_connection(i) ==
    /\ table' = {r \in table : r.id # i}
    /\ UNCHANGED <<lastId, births>>

\* The query of a request, when check_session has found a valid cookie and the
\* query works.
Execute(q) ==
    \/ q.kind \in {"list", "rdp"} /\ UNCHANGED webVars
    \/ q.kind = "create" /\ create_connection(q.val)
    \/ q.kind = "update" /\ update_connection(q.id, q.val)
    \/ q.kind = "delete" /\ delete_connection(q.id)

\* Its response: the list, the new row, or for download_rdp a file with the row
\* or 404.
Answer(q) ==
    LET found == {r \in table : r.id = q.id} IN
    [status |-> IF q.kind = "rdp" /\ found = {} THEN "NotFound" ELSE "OK",
     rows |-> CASE q.kind = "list" -> table
                [] q.kind = "create" -> {NewRow(q.val)}
                [] q.kind = "rdp" -> found
                [] OTHER -> {}]

\* 401 without a valid cookie, 500 when the query fails.
Refusal == {[status |-> s, rows |-> {}] : s \in {"Unauthorized", "ServerError"}}

===============================================================================
