-------------------------------- MODULE Portal --------------------------------
(*****************************************************************************)
(* The web portal: one browser tab (webui/src: ConnectionGrid with its form  *)
(* and cards, api.ts, the way to SessionPage and back) with the handlers of  *)
(* WebUi, and others who change the same connections.                        *)
(*                                                                           *)
(* A call is an async handler of the page that waits for its response; calls *)
(* overlap and their responses come in any order or not at all.  A tab shows *)
(* one page at a time; a call of a page that was left changes no page state. *)
(* origin is history.                                                        *)
(*****************************************************************************)
EXTENDS WebUi

CONSTANTS MaxCalls,   \* bound: calls that wait at one time
          MaxClicks,  \* bound: what the user does
          MaxOthers   \* bound: changes by others

ASSUME PortalAssumption == 0 \notin Value /\ MaxCalls \in Nat \ {0}

VARIABLES
    page,      \* "grid", "session", or "error": the browser's own, in place of the document
    grid,      \* connections, the list the page shows
    loading,
    error,     \* whether a message is shown
    formOpen,
    editing,   \* {} or the connection being edited
    fields,    \* what the form's fields hold, 0 when blank
    origin,    \* ids of the connection the fields were loaded from
    call,      \* the calls
    clicks, others

pageVars == <<page, grid, loading, error, formOpen, editing, fields, origin>>
vars == <<webVars, pageVars, call, clicks, others>>

NoRequest == [kind |-> "list", id |-> 0, val |-> 0, born |-> 0]
NoResponse == [status |-> "None", rows |-> {}]
\* The stages of a call: not there, under way to the gateway, answered.
\* Whose it is: the page's, a page's that was left, or a document's that was left.
Free == [stage |-> "Free", of |-> "Document", req |-> NoRequest, resp |-> NoResponse]
Call == [stage : {"Free", "Request", "Response"}, of : {"Page", "Left", "Document"}, req : Request,
         resp : Response]

Idle == {n \in 1..MaxCalls : call[n].stage = "Free"}
Started(q) == [stage |-> "Request", of |-> "Page", req |-> q, resp |-> NoResponse]
ListRequest == NoRequest

\* A new call takes the first free place.
Start(q) ==
    /\ Idle # {}
    /\ call' = [call EXCEPT ![CHOOSE n \in Idle : \A k \in Idle : n <= k] = Started(q)]

Init ==
    /\ WebInit
    /\ page = "grid" /\ grid = {} /\ loading = TRUE /\ error = FALSE
    /\ formOpen = FALSE /\ editing = {} /\ fields = 0 /\ origin = {}
    /\ call = [n \in 1..MaxCalls |-> IF n = 1 THEN Started(ListRequest) ELSE Free]
    /\ clicks = 0 /\ others = 0

-----------------------------------------------------------------------------
(* The user.                                                                 *)

Click == clicks < MaxClicks /\ clicks' = clicks + 1

\* Mutant: the fields are loaded when the form opens or closes, and not when the
\* connection changes.
Load_OnOpen(open, e) ==
    IF open # formOpen
    THEN fields' = (IF e = {} THEN 0 ELSE (CHOOSE r \in e : TRUE).val) /\ origin' = {r.id : r \in e}
    ELSE UNCHANGED <<fields, origin>>

\* The form's effect: when it opens, closes or gets another connection, its
\* fields are loaded.
Load(open, e) ==
    IF open # formOpen \/ e # editing
    THEN fields' = (IF e = {} THEN 0 ELSE (CHOOSE r \in e : TRUE).val) /\ origin' = {r.id : r \in e}
    ELSE UNCHANGED <<fields, origin>>

\* setFormOpen and setEditing.
SetForm(open, e) == formOpen' = open /\ editing' = e /\ Load(open, e)

\* The cards are there when the list is, and no dialog is open over them.
CardsShown == page = "grid" /\ ~loading /\ ~formOpen

Add ==
    /\ Click /\ page = "grid" /\ ~formOpen
    /\ SetForm(TRUE, editing)
    /\ UNCHANGED <<webVars, page, grid, loading, error, call, others>>

handleEdit(r) ==
    /\ Click /\ CardsShown
    /\ SetForm(TRUE, {r})
    /\ UNCHANGED <<webVars, page, grid, loading, error, call, others>>

Type(v) ==
    /\ page = "grid" /\ formOpen /\ fields' = v /\ fields # v
    /\ UNCHANGED <<webVars, page, grid, loading, error, formOpen, editing, origin,
                   call, clicks, others>>

Cancel ==
    /\ page = "grid" /\ formOpen
    /\ SetForm(FALSE, {})
    /\ UNCHANGED <<webVars, page, grid, loading, error, call, clicks, others>>

\* handleSubmit of a valid form: handleUpdate or handleCreate sends its request,
\* then the form closes.
handleSubmit ==
    /\ page = "grid" /\ formOpen /\ fields # 0
    /\ \/ /\ editing = {}
          /\ Start([kind |-> "create", id |-> 0, val |-> fields, born |-> 0])
       \/ \E r \in editing :
            Start([kind |-> "update", id |-> r.id, val |-> fields, born |-> r.born])
    /\ SetForm(FALSE, {})
    /\ UNCHANGED <<webVars, page, grid, loading, error, clicks, others>>

\* handleDelete, after the user has confirmed, and handleDownload.
CardCall(r, kind) ==
    /\ Click /\ CardsShown
    /\ Start([kind |-> kind, id |-> r.id, val |-> 0, born |-> r.born])
    /\ UNCHANGED <<webVars, pageVars, others>>

\* The page is left: its calls go on, without a page to tell.
Orphaned == [n \in 1..MaxCalls |-> [call[n] EXCEPT !.of = IF @ = "Page" THEN "Left" ELSE @]]

\* handleWebConnect: SessionPage asks for a proxy session (GuacProxy) with the
\* card's host and port.
handleWebConnect(r) ==
    /\ Click /\ CardsShown /\ r \in grid
    /\ page' = "session" /\ call' = Orphaned
    /\ UNCHANGED <<webVars, grid, loading, error, formOpen, editing, fields, origin, others>>

\* Back, which disconnects the tunnel or loads the document again: the grid is
\* mounted anew.
Back ==
    /\ Click /\ page # "grid" /\ Idle # {}
    /\ page' = "grid" /\ grid' = {} /\ loading' = TRUE /\ error' = FALSE
    /\ formOpen' = FALSE /\ editing' = {} /\ fields' = 0 /\ origin' = {}
    /\ Start(ListRequest)
    /\ UNCHANGED <<webVars, others>>

User ==
    \/ Add \/ Cancel \/ handleSubmit \/ Back
    \/ \E v \in Value : Type(v)
    \/ \E r \in grid : handleEdit(r) \/ handleWebConnect(r)
    \/ \E r \in grid, kind \in {"delete", "rdp"} : CardCall(r, kind)

-----------------------------------------------------------------------------
(* The network and the gateway.                                              *)

Respond(n, a) == call' = [call EXCEPT ![n].stage = "Response", ![n].resp = a]

\* The gateway handles a request.
Handle(n) ==
    /\ call[n].stage = "Request"
    /\ \/ Execute(call[n].req) /\ Respond(n, Answer(call[n].req))
       \/ (\E a \in Refusal : Respond(n, a)) /\ UNCHANGED webVars
    /\ UNCHANGED <<pageVars, clicks, others>>

\* A request or a response is lost: fetch fails.
Lose(n) ==
    /\ call[n].stage # "Free" /\ call[n].resp.status # "Failed"
    /\ Respond(n, [status |-> "Failed", rows |-> {}])
    /\ UNCHANGED <<webVars, pageVars, clicks, others>>

\* Others change connections that are there.
Others ==
    /\ others < MaxOthers /\ others' = others + 1
    /\ \/ \E v \in Value : create_connection(v)
       \/ \E r \in table, v \in Value : update_connection(r.id, v)
       \/ \E r \in table : delete_connection(r.id)
    /\ UNCHANGED <<pageVars, call, clicks>>

-----------------------------------------------------------------------------
(* The page gets a response.                                                 *)

End(n) == call' = [call EXCEPT ![n] = Free]

\* Mutant: loading is only reset when the list comes.
ListArrives_NoFinally(n) ==
    /\ IF call[n].resp.status = "OK"
       THEN grid' = call[n].resp.rows /\ loading' = FALSE /\ UNCHANGED error
       ELSE error' = TRUE /\ UNCHANGED <<grid, loading>>
    /\ End(n)
    /\ UNCHANGED <<page, formOpen, editing, fields, origin>>

\* The rest of refresh, its finally included.
ListArrives(n) ==
    /\ IF call[n].resp.status = "OK"
       THEN grid' = call[n].resp.rows /\ UNCHANGED error
       ELSE error' = TRUE /\ UNCHANGED grid
    /\ loading' = FALSE
    /\ End(n)
    /\ UNCHANGED <<page, formOpen, editing, fields, origin>>

\* The rest of handleCreate, handleUpdate and handleDelete: after a success
\* handleUpdate gives up what is being edited by now, and refresh starts.
ChangeArrives(n) ==
    /\ IF call[n].resp.status = "OK"
       THEN /\ IF call[n].req.kind = "update"
               THEN SetForm(formOpen, {}) ELSE UNCHANGED <<formOpen, editing, fields, origin>>
            /\ loading' = TRUE /\ error' = FALSE
            /\ call' = [call EXCEPT ![n] = Started(ListRequest)]
       ELSE /\ error' = TRUE
            /\ End(n)
            /\ UNCHANGED <<loading, formOpen, editing, fields, origin>>
    /\ UNCHANGED <<page, grid>>

\* A call whose page was left: a handler still starts its refresh, if the document
\* is there.
OrphanArrives(n) ==
    /\ call' = [call EXCEPT ![n] =
          IF /\ call[n].of = "Left" /\ call[n].resp.status = "OK"
             /\ call[n].req.kind \in {"create", "update", "delete"}
          THEN [Started(ListRequest) EXCEPT !.of = "Left"] ELSE Free]
    /\ UNCHANGED pageVars

\* handleDownload goes to the file's address, whatever page the document shows by
\* now: a file is the browser's and the page stays; anything else replaces the
\* document.
FileArrives(n) ==
    \/ call[n].resp.status = "OK" /\ End(n) /\ UNCHANGED pageVars
    \/ /\ call[n].resp.status # "OK"
       /\ page' = "error"
       /\ call' = [k \in 1..MaxCalls |-> IF k = n THEN Free ELSE [call[k] EXCEPT !.of = "Document"]]
       /\ UNCHANGED <<grid, loading, error, formOpen, editing, fields, origin>>

Arrive(n) ==
    /\ call[n].stage = "Response"
    /\ LET kind == call[n].req.kind
           of == IF kind = "rdp" /\ call[n].of = "Left" THEN "Page" ELSE call[n].of IN
       \/ of # "Page" /\ OrphanArrives(n)
       \/ of = "Page" /\ kind = "list" /\ ListArrives(n)
       \/ of = "Page" /\ kind \in {"create", "update", "delete"} /\ ChangeArrives(n)
       \/ of = "Page" /\ kind = "rdp" /\ FileArrives(n)
    /\ UNCHANGED <<webVars, clicks, others>>

\* The user does nothing more.
Terminated == clicks = MaxClicks /\ UNCHANGED vars

Next ==
    \/ User \/ Others \/ Terminated
    \/ \E n \in 1..MaxCalls : Handle(n) \/ Lose(n) \/ Arrive(n)

Spec == Init /\ [][Next]_vars

\* The gateway handles requests or the network loses them, and responses arrive.
FairSpec ==
    /\ Spec
    /\ \A n \in 1..MaxCalls : WF_vars(Handle(n)) /\ WF_vars(Arrive(n))

-----------------------------------------------------------------------------
(* Properties.                                                               *)

\* A connection the tab shows, edits or has asked to change or to download is,
\* if the table has a row with its id, that very row: an id the tab read before
\* others deleted and created connections never names another connection, so that
\* no update, delete or download reaches one the user did not choose.
IdsStable ==
    \A r \in table :
        /\ \A s \in grid \cup editing : s.id = r.id => s.born = r.born
        /\ \A n \in 1..MaxCalls :
            call[n].stage = "Request" /\ call[n].req.id = r.id => call[n].req.born = r.born

\* The fields of an open form were loaded from the connection that saving it
\* would update, or blank for a new one, also when the response to an earlier
\* update takes away what is being edited while the form is open.
FormIsOfEdited == page = "grid" /\ formOpen => origin = {r.id : r \in editing}

\* A list that is being loaded comes or fails: the grid does not show its spinner
\* for ever, however calls overlap, fail or get lost.
LoadingEnds == loading ~> (~loading \/ page # "grid")

===============================================================================
