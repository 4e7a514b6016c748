---------------------------- MODULE Portal_proofs -----------------------------
(*****************************************************************************)
(* Proofs about Portal, for any number of calls that overlap, any contents   *)
(* and any number of changes by others.                                      *)
(*                                                                           *)
(* IdsStable needs the same of every connection the tab may still come to    *)
(* show: those in responses that are under way.  It also needs that none of  *)
(* them has an id that the table has yet to give.                            *)
(*****************************************************************************)
EXTENDS Portal, TLAPS

\* With table t and l the largest id ever given, x names a connection that was once created: the one
\* the table has under its id, if any.
OldIn(t, l, x) == x.id \in 0..l /\ \A r \in t : x.id = r.id => x.born = r.born

TableInv ==
    /\ table \subseteq Row /\ lastId \in Nat /\ births \in Nat
    /\ \A r \in table : r.id \in 1..lastId /\ OldIn(table, lastId, r)

\* Call k, against table t and its largest id l.
CallOK(t, l, k) ==
    /\ k \in Call
    /\ k.req.kind \in {"create", "update"} => k.req.val # 0
    /\ OldIn(t, l, k.req) /\ \A s \in k.resp.rows : OldIn(t, l, s)

CallInv == DOMAIN call = 1..MaxCalls /\ \A n \in 1..MaxCalls : CallOK(table, lastId, call[n])

PageInv ==
    /\ grid \subseteq Row /\ editing \subseteq Row /\ fields \in Value \cup {0} /\ formOpen \in BOOLEAN
    /\ \A s \in grid \cup editing : OldIn(table, lastId, s)
    /\ formOpen => origin = {r.id : r \in editing}

IInv == TableInv /\ CallInv /\ PageInv

\* A change of the table keeps every name of a connection: an id given anew was never given before.
LEMMA TableChange ==
    ASSUME TableInv,
           \/ \E v \in Value : create_connection(v)
           \/ \E i \in Nat, v \in Value : update_connection(i, v)
           \/ \E i \in Nat : delete_connection(i)
    PROVE  /\ TableInv'
           /\ \A x : OldIn(table, lastId, x) => OldIn(table', lastId', x)
<1>1. ASSUME NEW v \in Value, create_connection(v)
      PROVE  /\ TableInv'
             /\ \A x : OldIn(table, lastId, x) => OldIn(table', lastId', x)
    <2>1. /\ table' = table \cup {[id |-> lastId + 1, val |-> v, born |-> births + 1]}
          /\ lastId' = lastId + 1 /\ births' = births + 1
        BY <1>1 DEF create_connection, NewRow, NextId
    <2>2. table' \subseteq Row /\ lastId' \in Nat /\ births' \in Nat
        BY <2>1 DEF TableInv, Row
    <2>3. ASSUME NEW x, OldIn(table, lastId, x) PROVE OldIn(table', lastId', x)
        BY <2>1, <2>3 DEF OldIn, TableInv
    <2>4. ASSUME NEW r \in table' PROVE r.id \in 1..lastId' /\ OldIn(table', lastId', r)
        <3>1. CASE r \in table
            BY <2>1, <2>3, <3>1 DEF TableInv
        <3>2. CASE r = [id |-> lastId + 1, val |-> v, born |-> births + 1]
            BY <2>1, <3>2 DEF OldIn, TableInv
        <3> QED BY <2>1, <3>1, <3>2
    <2> QED BY <2>2, <2>3, <2>4 DEF TableInv
<1>2. ASSUME UNCHANGED <<lastId, births>>, table' \subseteq Row,
             \A r \in table' : \E s \in table : s.id = r.id /\ s.born = r.born
      PROVE  /\ TableInv'
             /\ \A x : OldIn(table, lastId, x) => OldIn(table', lastId', x)
    <2>1. ASSUME NEW x, OldIn(table, lastId, x) PROVE OldIn(table', lastId', x)
        BY <1>2, <2>1 DEF OldIn
    <2>2. ASSUME NEW r \in table' PROVE r.id \in 1..lastId' /\ OldIn(table', lastId', r)
        <3>1. PICK s \in table : s.id = r.id /\ s.born = r.born
            BY <1>2
        <3>2. s.id \in 1..lastId /\ OldIn(table', lastId', s)
            BY <2>1 DEF TableInv
        <3> QED BY <1>2, <3>1, <3>2 DEF OldIn
    <2> QED BY <1>2, <2>1, <2>2 DEF TableInv
<1>3. ASSUME NEW i \in Nat, NEW v \in Value, update_connection(i, v)
      PROVE  /\ UNCHANGED <<lastId, births>> /\ table' \subseteq Row
             /\ \A r \in table' : \E s \in table : s.id = r.id /\ s.born = r.born
    <2>1. UNCHANGED <<lastId, births>> /\ table' = {IF r.id = i THEN [r EXCEPT !.val = v] ELSE r : r \in table}
        BY <1>3 DEF update_connection
    <2>2. ASSUME NEW s \in table
          PROVE  LET r == IF s.id = i THEN [s EXCEPT !.val = v] ELSE s
                 IN  r \in Row /\ s.id = r.id /\ s.born = r.born
        BY DEF TableInv, Row
    <2> QED BY <2>1, <2>2
<1>4. ASSUME NEW i \in Nat, delete_connection(i)
      PROVE  /\ UNCHANGED <<lastId, births>> /\ table' \subseteq Row
             /\ \A r \in table' : \E s \in table : s.id = r.id /\ s.born = r.born
    BY <1>4 DEF delete_connection, TableInv
<1> QED BY <1>1, <1>2, <1>3, <1>4

\* The query of a request, and its response: connections of the table it leaves.
LEMMA ExecuteKeeps ==
    ASSUME TableInv, NEW q \in Request, q.kind \in {"create", "update"} => q.val # 0, Execute(q)
    PROVE  /\ TableInv'
           /\ \A x : OldIn(table, lastId, x) => OldIn(table', lastId', x)
           /\ Answer(q) \in Response /\ \A s \in Answer(q).rows : OldIn(table', lastId', s)
<1>0. q.kind \in Kind /\ q.id \in Nat /\ q.val \in Value \cup {0}
    BY DEF Request
<1>1. TableInv' /\ \A x : OldIn(table, lastId, x) => OldIn(table', lastId', x)
    <2>1. CASE UNCHANGED webVars
        BY <2>1 DEF webVars, TableInv
    <2>2. CASE q.kind = "create" /\ create_connection(q.val)
        BY <1>0, <2>2, TableChange
    <2>3. CASE q.kind = "update" /\ update_connection(q.id, q.val)
        BY <1>0, <2>3, TableChange
    <2>4. CASE q.kind = "delete" /\ delete_connection(q.id)
        BY <1>0, <2>4, TableChange
    <2> QED BY <2>1, <2>2, <2>3, <2>4 DEF Execute
<1>2. Answer(q).rows \subseteq table \/ (q.kind = "create" /\ Answer(q).rows = {NewRow(q.val)})
    BY <1>0 DEF Answer, Kind
<1>3. q.kind = "create" => NewRow(q.val) \in table' /\ NewRow(q.val) \in Row
    BY <1>0 DEF Execute, create_connection, NewRow, NextId, TableInv, Row
<1>4. Answer(q).rows \subseteq Row /\ Answer(q).status \in {"NotFound", "OK"}
    BY <1>2, <1>3 DEF Answer, TableInv
<1>5. Answer(q) \in Response
    BY <1>4 DEF Answer, Response, Status
<1>6. \A s \in Answer(q).rows : OldIn(table', lastId', s)
    BY <1>1, <1>2, <1>3 DEF TableInv
<1> QED BY <1>1, <1>5, <1>6

\* The calls a page starts, and a free place.
LEMMA CallKinds ==
    ASSUME TableInv
    PROVE  /\ CallOK(table, lastId, Free) /\ CallOK(table, lastId, Started(ListRequest))
           /\ CallOK(table, lastId, [Started(ListRequest) EXCEPT !.of = "Left"])
           /\ \A q \in Request : OldIn(table, lastId, q) /\ (q.kind \in {"create", "update"} => q.val # 0) =>
                CallOK(table, lastId, Started(q))
<1>1. NoResponse \in Response /\ NoResponse.rows = {}
    BY DEF NoResponse, Response, Status
<1>2. NoRequest \in Request /\ NoRequest.kind = "list" /\ OldIn(table, lastId, NoRequest)
    BY DEF NoRequest, Request, Kind, TableInv, OldIn
<1>3. CallOK(table, lastId, Free)
    BY <1>1, <1>2 DEF CallOK, Free, Call
<1>4. ASSUME NEW q \in Request, OldIn(table, lastId, q), q.kind \in {"create", "update"} => q.val # 0
      PROVE  CallOK(table, lastId, Started(q)) /\ CallOK(table, lastId, [Started(q) EXCEPT !.of = "Left"])
    BY <1>1, <1>4 DEF CallOK, Started, Call
<1> QED BY <1>2, <1>3, <1>4 DEF ListRequest

\* A step of the tab: the table stays, and each call goes on, ends or is new.
LEMMA TabCalls ==
    ASSUME CallInv, UNCHANGED webVars, DOMAIN call' = 1..MaxCalls,
           \A n \in 1..MaxCalls : call'[n] = call[n] \/ CallOK(table, lastId, call'[n])
    PROVE  CallInv'
BY DEF CallInv, webVars

LEMMA StartKeeps ==
    ASSUME CallInv, UNCHANGED webVars, NEW q, CallOK(table, lastId, Started(q)), Start(q)
    PROVE  CallInv'
<1> DEFINE m == CHOOSE n \in Idle : \A k \in Idle : n <= k
<1>1. call' = [call EXCEPT ![m] = Started(q)]
    BY DEF Start
<1> HIDE DEF m
<1>2. DOMAIN call' = 1..MaxCalls /\ \A n \in 1..MaxCalls : call'[n] \in {call[n], Started(q)}
    BY <1>1 DEF CallInv
<1> QED BY <1>2, TabCalls

\* Whatever the form is set to, its fields are of what it edits.
LEMMA FormKeeps ==
    ASSUME PageInv, NEW open \in BOOLEAN, NEW e \in SUBSET Row, SetForm(open, e),
           \A s \in e : OldIn(table, lastId, s), UNCHANGED <<grid, table, lastId>>
    PROVE  PageInv'
<1>1. formOpen' = open /\ editing' = e /\ Load(open, e)
    BY DEF SetForm
<1>2. CASE open # formOpen \/ e # editing
    <2>1. fields' = (IF e = {} THEN 0 ELSE (CHOOSE r \in e : TRUE).val) /\ origin' = {r.id : r \in e}
        BY <1>1, <1>2 DEF Load
    <2>2. fields' \in Value \cup {0}
        <3>1. CASE e = {}
            BY <2>1, <3>1
        <3>2. CASE e # {}
            <4>1. (CHOOSE r \in e : TRUE) \in Row
                BY <3>2
            <4> QED BY <2>1, <3>2, <4>1 DEF Row
        <3> QED BY <3>1, <3>2
    <2> QED BY <1>1, <2>1, <2>2 DEF PageInv
<1>3. CASE ~(open # formOpen \/ e # editing)
    <2>1. UNCHANGED <<fields, origin>>
        BY <1>1, <1>3 DEF Load
    <2> QED BY <1>1, <1>3, <2>1 DEF PageInv
<1> QED BY <1>2, <1>3

\* Initially the tab shows nothing and the table has one row or none.
LEMMA PortalInit == Init => IInv
<1> SUFFICES ASSUME Init PROVE IInv
    OBVIOUS
<1>1. TableInv
    <2>1. CASE table = {} /\ lastId = 0 /\ births = 0
        BY <2>1 DEF TableInv
    <2>2. ASSUME NEW v \in Value, table = {[id |-> 1, val |-> v, born |-> 1]}, lastId = 1, births = 1
          PROVE  TableInv
        <3>1. [id |-> 1, val |-> v, born |-> 1] \in Row
            BY DEF Row
        <3> QED BY <2>2, <3>1 DEF TableInv, OldIn
    <2> QED BY <2>1, <2>2 DEF Init, WebInit
<1>2. CallInv
    BY <1>1, CallKinds DEF Init, CallInv
<1>3. PageInv
    BY DEF Init, PageInv
<1> QED BY <1>1, <1>2, <1>3 DEF IInv

-----------------------------------------------------------------------------
(* The steps.                                                                *)

\* What the page knows stays right while the table changes and the page does not.
LEMMA PageKept ==
    ASSUME PageInv, UNCHANGED <<grid, formOpen, editing, fields, origin>>,
           \A x : OldIn(table, lastId, x) => OldIn(table', lastId', x)
    PROVE  PageInv'
BY DEF PageInv

LEMMA CallKept ==
    ASSUME NEW k, CallOK(table, lastId, k),
           \A x : OldIn(table, lastId, x) => OldIn(table', lastId', x)
    PROVE  CallOK(table', lastId', k)
BY DEF CallOK

\* A step of the tab leaves the table.
LEMMA TabTable ==
    ASSUME TableInv, UNCHANGED webVars
    PROVE  TableInv' /\ \A x : OldIn(table, lastId, x) => OldIn(table', lastId', x)
BY DEF TableInv, webVars

LEMMA SubmitKeeps ==
    ASSUME IInv, handleSubmit
    PROVE  IInv'
<1>0. TableInv /\ CallInv /\ PageInv /\ UNCHANGED webVars
    BY DEF IInv, handleSubmit
<1>1. CallInv'
    <2>1. CASE Start([kind |-> "create", id |-> 0, val |-> fields, born |-> 0])
        <3> DEFINE q == [kind |-> "create", id |-> 0, val |-> fields, born |-> 0]
        <3>1. q \in Request /\ q.val # 0 /\ OldIn(table, lastId, q)
            BY <1>0 DEF Request, Kind, OldIn, TableInv, PageInv, handleSubmit
        <3>2. CallOK(table, lastId, Started(q))
            BY <1>0, <3>1, CallKinds
        <3> QED BY <1>0, <2>1, <3>2, StartKeeps
    <2>2. ASSUME NEW r \in editing,
                 Start([kind |-> "update", id |-> r.id, val |-> fields, born |-> r.born])
          PROVE  CallInv'
        <3> DEFINE q == [kind |-> "update", id |-> r.id, val |-> fields, born |-> r.born]
        <3>1. r \in Row /\ OldIn(table, lastId, r)
            BY <1>0 DEF PageInv
        <3>2. q \in Request /\ q.val # 0 /\ OldIn(table, lastId, q)
            BY <1>0, <3>1 DEF Request, Kind, Row, OldIn, PageInv, handleSubmit
        <3>3. CallOK(table, lastId, Started(q))
            BY <1>0, <3>2, CallKinds
        <3> QED BY <1>0, <2>2, <3>3, StartKeeps
    <2> QED BY <2>1, <2>2 DEF handleSubmit
<1>2. PageInv'
    <2>1. SetForm(FALSE, {}) /\ UNCHANGED <<grid, table, lastId>>
        BY DEF handleSubmit, webVars
    <2>2. FALSE \in BOOLEAN /\ {} \in SUBSET Row /\ \A s \in {} : OldIn(table, lastId, s)
        OBVIOUS
    <2> QED BY <1>0, <2>1, <2>2, FormKeeps
<1>3. TableInv'
    BY <1>0, TabTable
<1> QED BY <1>1, <1>2, <1>3 DEF IInv

LEMMA CardKeeps ==
    ASSUME IInv, NEW r \in grid, NEW kind \in {"delete", "rdp"}, CardCall(r, kind)
    PROVE  IInv'
<1>0. TableInv /\ CallInv /\ PageInv /\ UNCHANGED <<webVars, pageVars>>
    BY DEF IInv, CardCall
<1> DEFINE q == [kind |-> kind, id |-> r.id, val |-> 0, born |-> r.born]
<1>1. r \in Row /\ OldIn(table, lastId, r)
    BY <1>0 DEF PageInv
<1>2. q \in Request /\ OldIn(table, lastId, q) /\ q.kind \notin {"create", "update"}
    BY <1>1 DEF Request, Kind, Row, OldIn
<1>3. CallOK(table, lastId, Started(q))
    BY <1>0, <1>2, CallKinds
<1>4. CallInv'
    BY <1>0, <1>3, StartKeeps DEF CardCall
<1>5. TableInv' /\ PageInv'
    BY <1>0, TabTable, PageKept DEF pageVars
<1> QED BY <1>4, <1>5 DEF IInv

\* A call of a page that was left knows what it knew.
LEMMA OrphanedOK ==
    ASSUME NEW k, CallOK(table, lastId, k), NEW o \in {"Page", "Left", "Document"}
    PROVE  CallOK(table, lastId, [k EXCEPT !.of = o])
<1>1. k \in Call
    BY DEF CallOK
<1>2. /\ [k EXCEPT !.of = o] \in Call /\ [k EXCEPT !.of = o].req = k.req
      /\ [k EXCEPT !.of = o].resp = k.resp
    BY <1>1 DEF Call
<1> QED BY <1>2 DEF CallOK

LEMMA UserKeeps == ASSUME IInv, User PROVE IInv'
<1>0. TableInv /\ CallInv /\ PageInv
    BY DEF IInv
<1>1. CASE Add
    <2>1. PageInv'
        <3>1. /\ SetForm(TRUE, editing) /\ editing \in SUBSET Row /\ \A s \in editing : OldIn(table, lastId, s)
              /\ UNCHANGED <<grid, table, lastId>>
            BY <1>0, <1>1 DEF Add, PageInv, webVars
        <3> QED BY <1>0, <3>1, FormKeeps
    <2>2. TableInv' /\ CallInv'
        BY <1>0, <1>1, TabTable, TabCalls DEF Add, CallInv
    <2> QED BY <2>1, <2>2 DEF IInv
<1>2. CASE Cancel
    <2>1. PageInv'
        <3>1. SetForm(FALSE, {}) /\ UNCHANGED <<grid, table, lastId>>
            BY <1>2 DEF Cancel, webVars
        <3>2. FALSE \in BOOLEAN /\ {} \in SUBSET Row /\ \A s \in {} : OldIn(table, lastId, s)
            OBVIOUS
        <3> QED BY <1>0, <3>1, <3>2, FormKeeps
    <2>2. TableInv' /\ CallInv'
        BY <1>0, <1>2, TabTable, TabCalls DEF Cancel, CallInv
    <2> QED BY <2>1, <2>2 DEF IInv
<1>3. CASE Back
    <2>1. CallInv'
        BY <1>0, <1>3, CallKinds, StartKeeps DEF Back
    <2>2. TableInv' /\ PageInv'
        BY <1>0, <1>3, TabTable DEF Back, PageInv
    <2> QED BY <2>1, <2>2 DEF IInv
<1>4. ASSUME NEW v \in Value, Type(v) PROVE IInv'
    <2>1. TableInv' /\ CallInv'
        BY <1>0, <1>4, TabTable, TabCalls DEF Type, CallInv
    <2>2. PageInv'
        BY <1>0, <1>4, TabTable DEF Type, PageInv
    <2> QED BY <2>1, <2>2 DEF IInv
<1>5. ASSUME NEW r \in grid, handleEdit(r) PROVE IInv'
    <2>1. /\ SetForm(TRUE, {r}) /\ {r} \in SUBSET Row /\ \A s \in {r} : OldIn(table, lastId, s)
          /\ UNCHANGED <<grid, table, lastId>>
        BY <1>0, <1>5 DEF handleEdit, PageInv, webVars
    <2>2. PageInv'
        BY <1>0, <2>1, FormKeeps
    <2>3. TableInv' /\ CallInv'
        BY <1>0, <1>5, TabTable, TabCalls DEF handleEdit, CallInv
    <2> QED BY <2>2, <2>3 DEF IInv
<1>6. ASSUME NEW r \in grid, handleWebConnect(r) PROVE IInv'
    <2>1. call' = Orphaned /\ UNCHANGED webVars /\ UNCHANGED <<grid, formOpen, editing, fields, origin>>
        BY <1>6 DEF handleWebConnect
    <2>2. ASSUME NEW n \in 1..MaxCalls PROVE CallOK(table, lastId, call'[n])
        <3>1. CallOK(table, lastId, call[n]) /\ call[n].of \in {"Page", "Left", "Document"}
            BY <1>0 DEF CallInv, CallOK, Call
        <3>2. call'[n] = [call[n] EXCEPT !.of = IF call[n].of = "Page" THEN "Left" ELSE call[n].of]
            BY <2>1 DEF Orphaned
        <3> QED BY <3>1, <3>2, OrphanedOK
    <2>3. CallInv'
        BY <1>0, <2>1, <2>2, TabCalls DEF Orphaned
    <2>4. TableInv' /\ PageInv'
        BY <1>0, <2>1, TabTable, PageKept
    <2> QED BY <2>3, <2>4 DEF IInv
<1> QED BY <1>1, <1>2, <1>3, <1>4, <1>5, <1>6, SubmitKeeps, CardKeeps DEF User

\* The gateway handles call n, or the answer is the network's or another's.
LEMMA RespondKeeps ==
    ASSUME CallInv, NEW n \in 1..MaxCalls, NEW a \in Response, Respond(n, a),
           \A x : OldIn(table, lastId, x) => OldIn(table', lastId', x),
           \A s \in a.rows : OldIn(table', lastId', s)
    PROVE  CallInv'
<1>1. call' = [call EXCEPT ![n] = [[@ EXCEPT !.stage = "Response"] EXCEPT !.resp = a]]
    BY DEF Respond, CallInv, CallOK, Call
<1>2. ASSUME NEW k \in 1..MaxCalls PROVE CallOK(table', lastId', call'[k])
    <2>1. CallOK(table', lastId', call[k])
        BY CallKept DEF CallInv
    <2>2. CASE k # n
        BY <1>1, <2>1, <2>2 DEF CallInv
    <2>3. CASE k = n
        <3>1. call[n] \in Call
            BY DEF CallInv, CallOK
        <3>2. call'[n] \in Call /\ call'[n].req = call[n].req /\ call'[n].resp = a
            BY <1>1, <3>1 DEF Call, CallInv
        <3> QED BY <2>1, <2>3, <3>2 DEF CallOK
    <2> QED BY <2>2, <2>3
<1> QED BY <1>1, <1>2 DEF CallInv

LEMMA GatewayKeeps ==
    ASSUME IInv, NEW n \in 1..MaxCalls, Handle(n) \/ Lose(n)
    PROVE  IInv'
<1>0. TableInv /\ CallInv /\ PageInv /\ CallOK(table, lastId, call[n]) /\ UNCHANGED pageVars
    BY DEF IInv, CallInv, Handle, Lose
<1>1. CASE Execute(call[n].req) /\ Respond(n, Answer(call[n].req))
    <2>1. call[n].req \in Request /\ (call[n].req.kind \in {"create", "update"} => call[n].req.val # 0)
        BY <1>0 DEF CallOK, Call
    <2>2. /\ TableInv' /\ \A x : OldIn(table, lastId, x) => OldIn(table', lastId', x)
          /\ Answer(call[n].req) \in Response
          /\ \A s \in Answer(call[n].req).rows : OldIn(table', lastId', s)
        BY <1>0, <1>1, <2>1, ExecuteKeeps
    <2>3. CallInv'
        BY <1>0, <1>1, <2>2, RespondKeeps
    <2> QED BY <1>0, <2>2, <2>3, PageKept DEF IInv, pageVars
<1>2. ASSUME NEW a \in Response, a.rows = {}, Respond(n, a), UNCHANGED webVars PROVE IInv'
    <2>1. TableInv' /\ \A x : OldIn(table, lastId, x) => OldIn(table', lastId', x)
        BY <1>0, <1>2, TabTable
    <2>2. CallInv'
        BY <1>0, <1>2, <2>1, RespondKeeps
    <2> QED BY <1>0, <2>1, <2>2, PageKept DEF IInv, pageVars
<1>3. \A a \in Refusal \cup {[status |-> "Failed", rows |-> {}]} : a \in Response /\ a.rows = {}
    BY DEF Refusal, Response, Status
<1> QED BY <1>1, <1>2, <1>3 DEF Handle, Lose

LEMMA OthersKeep == ASSUME IInv, Others PROVE IInv'
<1>0. TableInv /\ CallInv /\ PageInv /\ UNCHANGED <<pageVars, call>>
    BY DEF IInv, Others
<1>1. \A r \in table : r.id \in Nat
    BY <1>0 DEF TableInv, Row
<1>2. TableInv' /\ \A x : OldIn(table, lastId, x) => OldIn(table', lastId', x)
    BY <1>0, <1>1, TableChange DEF Others
<1>3. CallInv'
    BY <1>0, <1>2, CallKept DEF CallInv
<1> QED BY <1>0, <1>2, <1>3, PageKept DEF IInv, pageVars

\* The page gets the response of call n.
LEMMA ArriveKeeps ==
    ASSUME IInv, NEW n \in 1..MaxCalls, Arrive(n)
    PROVE  IInv'
<1>0. TableInv /\ CallInv /\ PageInv /\ CallOK(table, lastId, call[n]) /\ UNCHANGED webVars
    BY DEF IInv, CallInv, Arrive
<1>1. TableInv' /\ \A x : OldIn(table, lastId, x) => OldIn(table', lastId', x)
    BY <1>0, TabTable
<1>2. ASSUME NEW k, CallOK(table, lastId, k), call' = [call EXCEPT ![n] = k] PROVE CallInv'
    <2>1. DOMAIN call' = 1..MaxCalls /\ \A i \in 1..MaxCalls : call'[i] \in {call[i], k}
        BY <1>0, <1>2 DEF CallInv
    <2> QED BY <1>0, <1>2, <2>1, TabCalls
<1>3. End(n) => CallInv'
    BY <1>0, <1>2, CallKinds DEF End
<1>4. CASE OrphanArrives(n)
    BY <1>0, <1>1, <1>2, <1>4, CallKinds, PageKept DEF OrphanArrives, pageVars, IInv
<1>5. CASE ListArrives(n)
    <2>1. grid' = call[n].resp.rows \/ grid' = grid
        BY <1>5 DEF ListArrives
    <2>2. call[n].resp.rows \subseteq Row /\ \A s \in call[n].resp.rows : OldIn(table, lastId, s)
        BY <1>0 DEF CallOK, Call, Response
    <2>3. PageInv'
        BY <1>0, <1>1, <1>5, <2>1, <2>2 DEF ListArrives, PageInv
    <2> QED BY <1>1, <1>3, <1>5, <2>3 DEF ListArrives, IInv
<1>6. CASE ChangeArrives(n)
    <2>1. CallInv'
        BY <1>0, <1>2, <1>3, <1>6, CallKinds DEF ChangeArrives
    <2>2. CASE SetForm(formOpen, {})
        <3>1. formOpen \in BOOLEAN /\ UNCHANGED <<grid, table, lastId>>
            BY <1>0, <1>6 DEF PageInv, ChangeArrives, webVars
        <3>2. PageInv'
            BY <1>0, <2>2, <3>1, FormKeeps
        <3> QED BY <1>1, <2>1, <3>2 DEF IInv
    <2>3. CASE UNCHANGED <<formOpen, editing, fields, origin>>
        BY <1>0, <1>1, <1>6, <2>1, <2>3, PageKept DEF ChangeArrives, IInv
    <2> QED BY <1>6, <2>2, <2>3 DEF ChangeArrives
<1>7. CASE FileArrives(n)
    <2>1. PageInv'
        BY <1>0, <1>1, <1>7, PageKept DEF FileArrives, pageVars
    <2>2. CASE End(n)
        BY <1>1, <1>3, <2>1, <2>2 DEF IInv
    <2>3. CASE call' = [k \in 1..MaxCalls |-> IF k = n THEN Free ELSE [call[k] EXCEPT !.of = "Document"]]
        <3>1. ASSUME NEW k \in 1..MaxCalls PROVE CallOK(table, lastId, call'[k])
            <4>1. CallOK(table, lastId, [call[k] EXCEPT !.of = "Document"])
                BY <1>0, OrphanedOK DEF CallInv
            <4> QED BY <1>0, <2>3, <4>1, CallKinds
        <3>2. CallInv'
            BY <1>0, <2>3, <3>1, TabCalls
        <3> QED BY <1>1, <2>1, <3>2 DEF IInv
    <2> QED BY <1>7, <2>2, <2>3 DEF FileArrives
<1> QED BY <1>4, <1>5, <1>6, <1>7 DEF Arrive

LEMMA PortalNext == IInv /\ [Next]_vars => IInv'
<1> SUFFICES ASSUME IInv, [Next]_vars PROVE IInv'
    OBVIOUS
<1>1. CASE UNCHANGED vars
    <2>1. UNCHANGED webVars /\ UNCHANGED <<grid, formOpen, editing, fields, origin>> /\ UNCHANGED call
        BY <1>1 DEF vars, pageVars
    <2>2. TableInv' /\ CallInv'
        BY <2>1, TabTable, TabCalls DEF IInv, CallInv
    <2> QED BY <2>1, <2>2, TabTable, PageKept DEF IInv
<1> QED BY <1>1, UserKeeps, OthersKeep, GatewayKeeps, ArriveKeeps DEF Next, Terminated

\* The table, every call and the page agree on which connection an id names.
THEOREM PortalInvariant == Spec => []IInv
<1> QED BY PortalInit, PortalNext, PTL DEF Spec

\* An id the tab read never names another connection, so that no update, delete
\* or download reaches one the user did not choose (IdsStable): ids are never
\* given twice (AUTOINCREMENT, db/sqlite.rs), however many calls overlap and whatever others
\* do meanwhile.
THEOREM IdsSafety == Spec => []IdsStable
<1>1. IInv => IdsStable
    <2> SUFFICES ASSUME IInv, NEW r \in table
                 PROVE  /\ \A s \in grid \cup editing : s.id = r.id => s.born = r.born
                        /\ \A n \in 1..MaxCalls :
                             call[n].stage = "Request" /\ call[n].req.id = r.id => call[n].req.born = r.born
        BY DEF IdsStable
    <2> QED BY DEF IInv, PageInv, CallInv, CallOK, OldIn
<1> QED BY <1>1, PortalInvariant, PTL

\* The fields of an open form are of the connection that saving it would update,
\* in every order of the user's clicks and the responses (FormIsOfEdited).
THEOREM FormSafety == Spec => []FormIsOfEdited
<1>1. IInv => FormIsOfEdited
    BY DEF IInv, PageInv, FormIsOfEdited
<1> QED BY <1>1, PortalInvariant, PTL

===============================================================================
