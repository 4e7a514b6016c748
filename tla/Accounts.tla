------------------------------- MODULE Accounts -------------------------------
(*****************************************************************************)
(* User accounts and session cookies of the web portal:                      *)
(* crates/rdg-server/src/handlers/auth.rs over the users table of            *)
(* crates/rdg-core/src/db/sqlite.rs, which terminal UIs                      *)
(* (crates/rdg-server/src/tui/app.rs), processes of their own, change too.   *)
(*                                                                           *)
(* A query is one step; between two queries of a request, and between a      *)
(* query and the use of what it returned, the other requests and the         *)
(* terminals go on.  A query may fail.  Ids are positions in users:          *)
(* the column is AUTOINCREMENT and nothing deletes a user.                   *)
(*                                                                           *)
(* nocase maps a name to what it is under SQLite's NOCASE collation; 0 is no *)
(* name and no password.  A cookie is the request whose answer set it,  *)
(* as only the gateway can sign one.  signout only tells the browser to      *)
(* forget the cookie and has no state here.                                  *)
(*****************************************************************************)
EXTENDS Naturals, Sequences

CONSTANTS Req,       \* requests to /api/auth
          Tui,       \* terminal UIs
          Name,      \* usernames
          Password,
          Creds,     \* the pairs of a name and a password that requests carry
          nocase,    \* the NOCASE form of each name
          Ttl,       \* SESSION_TTL_SECS
          MaxTime,   \* bound: the clock
          MaxUsers   \* bound: rows

ASSUME NameAssumption == /\ 0 \notin Name /\ 0 \notin Password
                         /\ Creds \subseteq [username : Name, password : Password]
                         /\ DOMAIN nocase = Name
ASSUME TimeAssumption == Ttl \in Nat /\ MaxTime \in Nat /\ MaxUsers \in Nat

VARIABLES
    users,  \* the table: a sequence of [username, password, enabled]
    now,    \* the gateway's clock
    pc,     \* per request: "Idle", "Check", "Insert", "Lookup", "Verify", "List", or how it
            \* ended: "Done", "Dropped"
    cred,   \* per request: the username and password it carries
    uses,   \* per request: the earlier requests whose account or cookie its client uses
    found,  \* per request: the row signin has read, with its id
    ans,    \* per request: status code, user id and time of the cookie; error: a query failed
    saw,    \* per signin: <<id, enabled>> of the rows while it was under way, kept with the
            \* answers that rest on them (history)
    began,  \* per request to me: the clock when it came (history)
    tui,    \* per terminal: "Off", "Normal" or "Refresh"
    shown   \* per terminal: App.users as long as it is used, the rows it loaded last

requestVars == <<pc, cred, uses, found, ans>>
historyVars == <<saw, began>>
tuiVars == <<tui, shown>>
vars == <<users, now, requestVars, historyVars, tuiVars>>

\* password 0: no password_hash, an account for NTLM only.
User == [username : Name, password : Password \cup {0}, enabled : BOOLEAN]

NoCred   == [username |-> 0, password |-> 0]
NoUser   == [username |-> 0, password |-> 0, enabled |-> FALSE]
NoRow    == [id |-> 0, row |-> NoUser]
NoAnswer == [code |-> 0, id |-> 0, issued |-> 0, error |-> FALSE]

Init ==
    /\ users = << >> /\ now = 0
    /\ pc = [r \in Req |-> "Idle"] /\ cred = [r \in Req |-> NoCred] /\ uses = [r \in Req |-> {}]
    /\ found = [r \in Req |-> NoRow] /\ ans = [r \in Req |-> NoAnswer]
    /\ saw = [r \in Req |-> {}] /\ began = [r \in Req |-> 0]
    /\ tui = [t \in Tui |-> "Off"] /\ shown = [t \in Tui |-> << >>]

-----------------------------------------------------------------------------
(* The table.                                                                *)

\* get_user_by_username: the rows it may return for name n.
Matches(n) == {u \in DOMAIN users : nocase[users[u].username] = nocase[n]}

\* Mutant: the column is not UNIQUE.
Free_NotUnique(n) == TRUE

\* The UNIQUE constraint on username, which compares bytes.
Free(n) == \A u \in DOMAIN users : users[u].username # n

\* INSERT INTO users.
Insert(n, p) ==
    /\ Free(n)
    /\ Len(users) < MaxUsers
    /\ users' = Append(users, [username |-> n, password |-> p, enabled |-> TRUE])

-----------------------------------------------------------------------------
(* Requests.                                                                 *)

Answer(r, a) ==
    /\ pc' = [pc EXCEPT ![r] = "Done"]
    /\ ans' = [ans EXCEPT ![r] = a]

\* An answer with set_session_cookie for user id.
SetCookie(r, code, id) == Answer(r, [code |-> code, id |-> id, issued |-> now, error |-> FALSE])

\* An answer without a cookie, and one because a query failed.
Refuse(r, code)    == Answer(r, [code |-> code, id |-> 0, issued |-> 0, error |-> FALSE])
QueryFails(r, code) == Answer(r, [code |-> code, id |-> 0, issued |-> 0, error |-> TRUE])

\* The answer of s set a cookie.
HasCookie(s) == pc[s] = "Done" /\ cred[s] # NoCred /\ ans[s].code \in {200, 201}

Begin(r, step, c, s) ==
    /\ pc[r] = "Idle"
    /\ pc' = [pc EXCEPT ![r] = step]
    /\ cred' = [cred EXCEPT ![r] = c]
    /\ uses' = [uses EXCEPT ![r] = s]
    /\ UNCHANGED <<users, found, ans>>

\* signup, as far as its first query: an empty name or a short password is a 400.
SignupBegin(r) ==
    \/ \E c \in Creds : Begin(r, "Check", c, {})
    \/ pc[r] = "Idle" /\ Refuse(r, 400) /\ UNCHANGED <<users, cred, uses, found>>

\* get_user_by_username of signup: only a row that was found is a 409; a query that
\* failed lets the signup go on.
SignupCheck(r) ==
    /\ pc[r] = "Check"
    /\ \/ Matches(cred[r].username) # {} /\ Refuse(r, 409)
       \/ pc' = [pc EXCEPT ![r] = "Insert"] /\ UNCHANGED ans
    /\ UNCHANGED <<users, cred, uses, found>>

\* Mutant: a name that is taken is no error, and its row is taken for the new one (INSERT
\* OR IGNORE).
SignupInsert_Ignore(r) ==
    /\ pc[r] = "Insert"
    /\ \/ /\ Insert(cred[r].username, cred[r].password)
          /\ SetCookie(r, 201, Len(users) + 1)
       \/ \E u \in DOMAIN users : /\ users[u].username = cred[r].username
                                  /\ SetCookie(r, 201, u)
                                  /\ UNCHANGED users
    /\ UNCHANGED <<cred, uses, found>>

\* create_user_with_password; a name taken in the meantime, or another error, is a 500.
SignupInsert(r) ==
    /\ pc[r] = "Insert"
    /\ \/ /\ Insert(cred[r].username, cred[r].password)
          /\ SetCookie(r, 201, Len(users) + 1)
       \/ QueryFails(r, 500) /\ UNCHANGED users
    /\ UNCHANGED <<cred, uses, found>>

\* The signups whose account has the credentials c.
SignedUp(c) == {s \in Req : HasCookie(s) /\ ans[s].code = 201 /\ cred[s] = c}

\* signin, with the credentials of an account that was signed up for or any others.
SigninBegin(r) == \E c \in Creds : Begin(r, "Lookup", c, SignedUp(c))

\* get_user_by_username of signin; no row, or an error, is a 401.
SigninLookup(r) ==
    /\ pc[r] = "Lookup"
    /\ \/ \E u \in Matches(cred[r].username) :
             /\ found' = [found EXCEPT ![r] = [id |-> u, row |-> users[u]]]
             /\ pc' = [pc EXCEPT ![r] = "Verify"]
             /\ UNCHANGED ans
       \/ Matches(cred[r].username) = {} /\ Refuse(r, 401) /\ UNCHANGED found
       \/ QueryFails(r, 401) /\ UNCHANGED found
    /\ UNCHANGED <<users, cred, uses>>

\* The row that was read is one of the portal's and the password fits.
Verified(r) == found[r].row.password = cred[r].password

\* Mutant: whether the account is enabled is not checked.
SigninVerify_AnyState(r) ==
    /\ pc[r] = "Verify"
    /\ \/ Verified(r) /\ SetCookie(r, 200, found[r].id)
       \/ ~Verified(r) /\ Refuse(r, 401)
    /\ found' = [found EXCEPT ![r] = NoRow]
    /\ UNCHANGED <<users, cred, uses>>

\* The rest of signin, on the row as it was read.
SigninVerify(r) ==
    /\ pc[r] = "Verify"
    /\ \/ ~found[r].row.enabled /\ Refuse(r, 403)
       \/ found[r].row.enabled /\ Verified(r) /\ SetCookie(r, 200, found[r].id)
       \/ found[r].row.enabled /\ ~Verified(r) /\ Refuse(r, 401)
    /\ found' = [found EXCEPT ![r] = NoRow]
    /\ UNCHANGED <<users, cred, uses>>

\* Mutant: the lifetime is counted one second short.
Valid_Short(s) == now < ans[s].issued + Ttl

\* validate_session_token of the cookie of s: the saturating age is at most the lifetime.
Valid(s) == now <= ans[s].issued + Ttl

\* me, as far as its query.
MeBegin(r) ==
    \E s \in Req :
        /\ HasCookie(s)
        /\ \/ Valid(s) /\ Begin(r, "List", NoCred, {s})
           \/ /\ ~Valid(s) /\ pc[r] = "Idle"
              /\ Refuse(r, 401)
              /\ uses' = [uses EXCEPT ![r] = {s}]
              /\ UNCHANGED <<users, cred, found>>

\* list_users and the search for the id; an error leaves an empty list.
MeList(r) ==
    /\ pc[r] = "List"
    /\ \/ \E s \in uses[r] :
             \/ /\ ans[s].id \in DOMAIN users
                /\ Answer(r, [code |-> 200, id |-> ans[s].id, issued |-> 0, error |-> FALSE])
             \/ ans[s].id \notin DOMAIN users /\ Refuse(r, 401)
       \/ QueryFails(r, 401)
    /\ UNCHANGED <<users, cred, uses, found>>

Active == {"Check", "Insert", "Lookup", "Verify", "List"}

\* The client leaves and the server drops the handler; an INSERT may still be carried out
\* (external).
Drop(r) ==
    /\ pc[r] \in Active
    /\ \/ pc[r] = "Insert" /\ Insert(cred[r].username, cred[r].password)
       \/ UNCHANGED users
    /\ pc' = [pc EXCEPT ![r] = "Dropped"]
    /\ cred' = [cred EXCEPT ![r] = NoCred]
    /\ uses' = [uses EXCEPT ![r] = {}]
    /\ found' = [found EXCEPT ![r] = NoRow]
    /\ UNCHANGED ans

RequestStep(r) ==
    \/ MeBegin(r) /\ began' = [began EXCEPT ![r] = now]
    \/ /\ \/ SignupBegin(r) \/ SignupCheck(r) \/ SignupInsert(r)
          \/ SigninBegin(r) \/ SigninLookup(r) \/ SigninVerify(r)
          \/ MeList(r) \/ Drop(r)
       /\ UNCHANGED began

-----------------------------------------------------------------------------
(* Terminal UIs and the clock.                                               *)

\* The terminal UI starts with load_all.
TuiStart(t) ==
    /\ tui[t] = "Off"
    /\ tui' = [tui EXCEPT ![t] = "Normal"]
    /\ shown' = [shown EXCEPT ![t] = users]
    /\ UNCHANGED users

\* Enter in the AddUser dialog: create_user.  The rows shown are of no use until they are
\* loaded again.
TuiAddUser(t) ==
    /\ tui[t] = "Normal"
    /\ \E n \in Name : Insert(n, 0)
    /\ tui' = [tui EXCEPT ![t] = "Refresh"]
    /\ shown' = [shown EXCEPT ![t] = << >>]

\* d in the list of users: set_user_enabled to the opposite of what is shown.
TuiToggle(t) ==
    /\ tui[t] = "Normal"
    /\ \E u \in DOMAIN shown[t] :
         users' = [users EXCEPT ![u].enabled = ~shown[t][u].enabled]
    /\ tui' = [tui EXCEPT ![t] = "Refresh"]
    /\ shown' = [shown EXCEPT ![t] = << >>]

\* list_users after either.
TuiRefresh(t) ==
    /\ tui[t] = "Refresh"
    /\ tui' = [tui EXCEPT ![t] = "Normal"]
    /\ shown' = [shown EXCEPT ![t] = users]
    /\ UNCHANGED users

\* A query failed (a name that is taken, in AddUser), which ends the program, or q was typed.
TuiExit(t) ==
    /\ tui[t] # "Off"
    /\ tui' = [tui EXCEPT ![t] = "Off"]
    /\ shown' = [shown EXCEPT ![t] = << >>]
    /\ UNCHANGED users

TuiStep(t) ==
    TuiStart(t) \/ TuiAddUser(t) \/ TuiToggle(t) \/ TuiRefresh(t) \/ TuiExit(t)

\* The system time goes on, or is set (external).
SetClock ==
    /\ now' \in (0..MaxTime) \ {now}
    /\ UNCHANGED <<users, requestVars, historyVars, tuiVars>>

-----------------------------------------------------------------------------
\* What the table says of the accounts of a signin's name while it is under way.
State(table, n) == {<<u, table[u].enabled>> :
                      u \in {v \in DOMAIN table : nocase[table[v].username] = nocase[n]}}
Signing(p) == p \in {"Lookup", "Verify"}
Observe ==
    saw' = [r \in Req |->
              IF Signing(pc'[r]) THEN saw[r] \cup State(users', cred'[r].username)
              ELSE IF ans'[r].code \in {200, 403} THEN saw[r] ELSE {}]

Next ==
    \/ \E r \in Req : RequestStep(r) /\ Observe /\ UNCHANGED <<now, tuiVars>>
    \/ \E t \in Tui : TuiStep(t) /\ UNCHANGED <<now, requestVars, began>> /\ Observe
    \/ SetClock

Spec == Init /\ [][Next]_vars

-----------------------------------------------------------------------------
(* Properties.                                                               *)

\* Types of the variables.
TypeOK ==
    /\ users \in Seq(User) /\ now \in Nat
    /\ pc \in [Req -> Active \cup {"Idle", "Done", "Dropped"}]
    /\ cred \in [Req -> Creds \cup {NoCred}] /\ uses \in [Req -> SUBSET Req]
    /\ found \in [Req -> [id : Nat, row : User \cup {NoUser}]]
    /\ ans \in [Req -> [code : Nat, id : Nat, issued : Nat, error : BOOLEAN]]
    /\ saw \in [Req -> SUBSET (Nat \X BOOLEAN)] /\ began \in [Req -> Nat]
    /\ tui \in [Tui -> {"Off", "Normal", "Refresh"}] /\ shown \in [Tui -> Seq(User)]

\* No two rows have the same username, and no two signups were both told that they have
\* it: although signup checks long before it inserts, the second insert fails.
OneOwnerPerName ==
    /\ \A u, v \in DOMAIN users : users[u].username = users[v].username => u = v
    /\ \A r, s \in Req :
         (/\ pc[r] = "Done" /\ ans[r].code = 201 /\ pc[s] = "Done" /\ ans[s].code = 201
          /\ cred[r].username = cred[s].username) => r = s

\* A cookie of signin goes to who presents the password of an account whose name matches,
\* and the account was enabled at some time while the request was under way; a 403 says
\* that some account of that name was disabled at such a time.  (The row is used after
\* the query that read it, when a terminal may already have changed it.)
SigninCurrent ==
    \A r \in Req : pc[r] = "Done" /\ cred[r] # NoCred =>
        /\ ans[r].code = 200 =>
             LET u == ans[r].id IN
             /\ u \in DOMAIN users /\ users[u].password = cred[r].password
             /\ nocase[users[u].username] = nocase[cred[r].username]
             /\ <<u, TRUE>> \in saw[r]
        /\ ans[r].code = 403 => \E u \in Matches(cred[r].username) : <<u, FALSE>> \in saw[r]

\* The other rows a lookup may return for the account the signup s was given: their names
\* differ from its name in case only.
Twins(s) == Matches(cred[s].username) \ {ans[s].id}

\* The answer to the signin r is right for row u.
JudgedBy(r, u) ==
    \/ ans[r].code = 403 /\ <<u, FALSE>> \in saw[r]
    \/ ans[r].code = 200 /\ ans[r].id = u /\ users[u].password = cred[r].password
    \/ ans[r].code = 401 /\ users[u].password # cred[r].password

\* Who was told 201 by signup can sign in with the same name and password and gets the
\* same account, as long as no query fails, no terminal disables it and no name differs
\* from its own in case only.  Such a name can be added by a terminal, or by a signup whose
\* check failed or came before the other's insert, as UNIQUE compares bytes; then signin may
\* judge by the other row: refuse the password, or give the other account to who presents
\* its password.
AccountUsable ==
    \A r, s \in Req : pc[r] = "Done" /\ cred[r] # NoCred /\ s \in uses[r] =>
        \/ ans[r].error
        \/ ans[r].code = 403 /\ <<ans[s].id, FALSE>> \in saw[r]
        \/ ans[r].code = 200 /\ ans[r].id = ans[s].id
        \/ \E u \in Twins(s) : JudgedBy(r, u)

\* A cookie stands for the account of the signup or signin that got it, whatever other
\* requests and the clock do, until its lifetime is over and not longer.
SessionIdentity ==
    \A r, s \in Req : pc[r] = "Done" /\ cred[r] = NoCred /\ s \in uses[r] =>
        \/ ans[r].error
        \/ /\ ans[r].code = 200 /\ ans[r].id = ans[s].id
           /\ began[r] <= ans[s].issued + Ttl
           /\ users[ans[r].id].password = cred[s].password
           /\ nocase[users[ans[r].id].username] = nocase[cred[s].username]
        \/ ans[r].code = 401 /\ began[r] > ans[s].issued + Ttl

===============================================================================
