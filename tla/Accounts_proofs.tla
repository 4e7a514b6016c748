---------------------------- MODULE Accounts_proofs ----------------------------
(*****************************************************************************)
(* Proofs about Accounts, for every number of requests, terminals, names,    *)
(* passwords and rows, every case folding of the names, and every lifetime   *)
(* of a cookie.                                                              *)
(*                                                                           *)
(* Usernames and passwords of rows never change, ids are never reused and    *)
(* an answer that set a cookie is never changed (Grows, CookiesStay).  So a  *)
(* request keeps what it knows of the table and of the cookie it uses while  *)
(* others take their steps (Frame), and what is left is the step of the      *)
(* request itself (Step).                                                    *)
(*****************************************************************************)
EXTENDS Accounts, TLAPS

Unique == \A u, v \in DOMAIN users : users[u].username = users[v].username => u = v

\* The steps of each kind of request; requests that have not begun know nothing.
CredInv(r) ==
    /\ pc[r] \in {"Check", "Insert", "Lookup", "Verify"} => cred[r] \in Creds
    /\ pc[r] \in {"Idle", "List", "Dropped"} => cred[r] = NoCred
    /\ pc[r] \in {"Idle", "Check", "Insert"} => uses[r] = {}

\* The row a signin has read is still there with that name and that password.
VerifyInv(r) ==
    pc[r] = "Verify" =>
        LET u == found[r].id IN
        /\ u \in DOMAIN users
        /\ users[u].password = found[r].row.password
        /\ nocase[users[u].username] = nocase[cred[r].username]
        /\ <<u, found[r].row.enabled>> \in saw[r]

\* Whose cookie it is.
CookieInv(r) ==
    /\ pc[r] = "Done" /\ ans[r].code = 201 => cred[r] # NoCred
    /\ HasCookie(r) =>
         LET u == ans[r].id IN
         /\ u \in DOMAIN users
         /\ users[u].password = cred[r].password
         /\ ans[r].code = 201 => users[u].username = cred[r].username
         /\ nocase[users[u].username] = nocase[cred[r].username]
         /\ ans[r].code = 200 => <<u, TRUE>> \in saw[r]

\* What a 403 rests on.
DisabledInv(r) ==
    pc[r] = "Done" /\ cred[r] # NoCred /\ ans[r].code = 403 =>
        \E u \in Matches(cred[r].username) : <<u, FALSE>> \in saw[r]

\* What a request knows of the one whose account or cookie it uses.
UsesInv(r) ==
    /\ pc[r] \in {"Lookup", "Verify"} =>
         \A s \in uses[r] : HasCookie(s) /\ ans[s].code = 201 /\ cred[r] = cred[s]
    /\ pc[r] = "List" =>
         \E s \in Req : uses[r] = {s} /\ HasCookie(s) /\ began[r] <= ans[s].issued + Ttl

\* SessionIdentity, for one request and the one whose cookie it uses.
Session(r, s) ==
    pc[r] = "Done" /\ cred[r] = NoCred /\ s \in uses[r] =>
        /\ HasCookie(s)
        /\ \/ ans[r].error
           \/ /\ ans[r].code = 200 /\ ans[r].id = ans[s].id
              /\ began[r] <= ans[s].issued + Ttl
           \/ ans[r].code = 401 /\ began[r] > ans[s].issued + Ttl

SessionInv(r) == \A s \in Req : Session(r, s)

ReqInv(r) == /\ CredInv(r) /\ VerifyInv(r) /\ CookieInv(r)
             /\ DisabledInv(r) /\ UsesInv(r) /\ SessionInv(r)

IInv == TypeOK /\ Unique /\ OneOwnerPerName /\ \A r \in Req : ReqInv(r)

-----------------------------------------------------------------------------
(* The table and the cookies.                                                *)

\* What is true of every change of the table.
Grows == /\ users' \in Seq(User)
         /\ DOMAIN users \subseteq DOMAIN users'
         /\ \A u \in DOMAIN users : /\ users'[u].username = users[u].username
                                    /\ users'[u].password = users[u].password

CookiesStay == \A s \in Req : HasCookie(s) => /\ HasCookie(s)'
                                              /\ ans'[s] = ans[s] /\ cred'[s] = cred[s]

\* No name and no password is 0, so no credentials are NoCred.
LEMMA CredsNotNone == /\ NoCred \notin Creds
                      /\ \A c \in Creds : c.username \in Name /\ c.password \in Password
                      /\ 0 \notin Password
BY NameAssumption DEF NoCred

\* An INSERT adds one row, at the end, with a name that no row had.
LEMMA InsertGrows ==
    ASSUME users \in Seq(User), Unique,
           NEW n \in Name, NEW p \in Password \cup {0}, Insert(n, p)
    PROVE  /\ Grows /\ Unique'
           /\ \A u \in DOMAIN users : users[u].username # n
           /\ Len(users) + 1 \in DOMAIN users'
           /\ users'[Len(users) + 1].username = n
           /\ users'[Len(users) + 1].password = p
<1> DEFINE row == [username |-> n, password |-> p, enabled |-> TRUE]
<1>1. row \in User
  BY DEF User
<1>2. users' = Append(users, row)
  BY DEF Insert
<1>3. /\ users' \in Seq(User) /\ Len(users') = Len(users) + 1
      /\ \A u \in 1..Len(users) : users'[u] = users[u]
      /\ users'[Len(users) + 1] = row
  <2> HIDE DEF row
  <2> QED BY <1>1, <1>2
<1>4. DOMAIN users = 1..Len(users) /\ DOMAIN users' = 1..(Len(users) + 1) /\ Len(users) \in Nat
  BY <1>3
<1>5. \A u \in DOMAIN users : users[u].username # n
  BY DEF Insert, Free
<1>6. Grows
  BY <1>3, <1>4 DEF Grows
<1>7. Unique'
  BY <1>3, <1>4, <1>5 DEF Unique
<1> QED BY <1>3, <1>4, <1>5, <1>6, <1>7

\* A terminal enables or disables an account and leaves the rest of the row alone.
LEMMA ToggleGrows ==
    ASSUME users \in Seq(User), Unique, NEW w, NEW b \in BOOLEAN,
           users' = [users EXCEPT ![w].enabled = b]
    PROVE  Grows /\ Unique'
<1>1. DOMAIN users' = DOMAIN users /\ DOMAIN users = 1..Len(users) /\ Len(users) \in Nat
  OBVIOUS
<1>2. \A u \in DOMAIN users : users[u] \in User
  OBVIOUS
<1>3. ASSUME NEW u \in DOMAIN users
      PROVE  /\ users'[u] \in User
             /\ users'[u].username = users[u].username
             /\ users'[u].password = users[u].password
  <2>1. CASE u = w
    <3>1. users'[u] = [users[u] EXCEPT !.enabled = b]
      BY <2>1
    <3> QED BY <3>1, <1>2 DEF User
  <2>2. CASE u # w
    <3>1. users'[u] = users[u]
      BY <2>2
    <3> QED BY <3>1, <1>2
  <2> QED BY <2>1, <2>2
<1>4. users' \in Seq(User)
  <2>1. users' \in [1..Len(users) -> User]
    BY <1>1, <1>3
  <2> QED BY <2>1, <1>1
<1> QED BY <1>1, <1>3, <1>4 DEF Grows, Unique

-----------------------------------------------------------------------------
(* Types.                                                                    *)

ReqTypes == /\ pc \in [Req -> Active \cup {"Idle", "Done", "Dropped"}]
            /\ cred \in [Req -> Creds \cup {NoCred}] /\ uses \in [Req -> SUBSET Req]
            /\ found \in [Req -> [id : Nat, row : User \cup {NoUser}]]
            /\ ans \in [Req -> [code : Nat, id : Nat, issued : Nat, error : BOOLEAN]]

\* The first step of a request keeps the types.
LEMMA BeginTypes ==
    ASSUME ReqTypes, NEW r \in Req, NEW step \in Active, NEW c \in Creds \cup {NoCred},
           NEW s \in SUBSET Req, Begin(r, step, c, s)
    PROVE  ReqTypes' /\ UNCHANGED users
BY DEF Begin, ReqTypes

\* The step of a request keeps the types of the requests.
LEMMA RequestTypes ==
    ASSUME TypeOK, Unique, NEW r \in Req, RequestStep(r),
           pc[r] \in {"Check", "Insert", "Lookup", "Verify"} => cred[r] \in Creds
    PROVE  ReqTypes' /\ Grows /\ Unique'
<1> USE DEF Active
<1>1. ReqTypes /\ now \in Nat /\ users \in Seq(User)
  BY DEF TypeOK, ReqTypes
<1>2. UNCHANGED users => Grows /\ Unique'
  BY <1>1 DEF Grows, Unique
<1>3. CASE SignupBegin(r)
  <2>1. CASE \E c \in Creds : Begin(r, "Check", c, {})
    BY <1>1, <1>2, <2>1, BeginTypes
  <2>2. CASE Refuse(r, 400) /\ UNCHANGED <<users, cred, uses, found>>
    BY <1>1, <1>2, <2>2 DEF Refuse, Answer, ReqTypes
  <2> QED BY <1>3, <2>1, <2>2 DEF SignupBegin
<1>4. CASE SignupCheck(r)
  <2>1. UNCHANGED <<users, cred, uses, found>>
    BY <1>4 DEF SignupCheck
  <2>2. CASE Refuse(r, 409)
    BY <1>1, <1>2, <2>1, <2>2 DEF Refuse, Answer, ReqTypes
  <2>3. CASE pc' = [pc EXCEPT ![r] = "Insert"] /\ UNCHANGED ans
    BY <1>1, <1>2, <2>1, <2>3 DEF ReqTypes
  <2> QED BY <1>4, <2>2, <2>3 DEF SignupCheck
<1>5. CASE SignupInsert(r)
  <2>1. pc[r] = "Insert" /\ UNCHANGED <<cred, uses, found>>
    BY <1>5 DEF SignupInsert
  <2>2. CASE Insert(cred[r].username, cred[r].password) /\ SetCookie(r, 201, Len(users) + 1)
    <3>1. Grows /\ Unique'
      BY <1>1, <2>1, <2>2, CredsNotNone, InsertGrows
    <3>2. Len(users) + 1 \in Nat
      BY <1>1
    <3> QED BY <1>1, <2>1, <2>2, <3>1, <3>2 DEF SetCookie, Answer, ReqTypes
  <2>3. CASE QueryFails(r, 500) /\ UNCHANGED users
    BY <1>1, <1>2, <2>1, <2>3 DEF QueryFails, Answer, ReqTypes
  <2> QED BY <1>5, <2>2, <2>3 DEF SignupInsert
<1>6. CASE SigninBegin(r)
  <2>1. PICK c \in Creds : Begin(r, "Lookup", c, SignedUp(c))
    BY <1>6 DEF SigninBegin
  <2>2. "Lookup" \in Active /\ SignedUp(c) \in SUBSET Req
    BY DEF SignedUp
  <2> QED BY <1>1, <1>2, <2>1, <2>2, BeginTypes
<1>7. CASE SigninLookup(r)
  <2>1. \A u \in DOMAIN users : u \in Nat /\ users[u] \in User
    BY <1>1
  <2>2. CASE \E u \in Matches(cred[r].username) :
               /\ found' = [found EXCEPT ![r] = [id |-> u, row |-> users[u]]]
               /\ pc' = [pc EXCEPT ![r] = "Verify"]
               /\ UNCHANGED ans
    BY <1>1, <1>2, <1>7, <2>1, <2>2 DEF SigninLookup, Matches, ReqTypes
  <2>3. CASE Refuse(r, 401) /\ UNCHANGED found
    BY <1>1, <1>2, <1>7, <2>3 DEF Refuse, Answer, SigninLookup, ReqTypes
  <2>4. CASE QueryFails(r, 401) /\ UNCHANGED found
    BY <1>1, <1>2, <1>7, <2>4 DEF QueryFails, Answer, SigninLookup, ReqTypes
  <2> QED BY <1>7, <2>2, <2>3, <2>4 DEF SigninLookup
<1>8. CASE SigninVerify(r)
  <2>1. found' \in [Req -> [id : Nat, row : User \cup {NoUser}]] /\ found[r].id \in Nat
    BY <1>1, <1>8 DEF SigninVerify, ReqTypes, NoRow
  <2>2. Refuse(r, 403) \/ Refuse(r, 401) \/ SetCookie(r, 200, found[r].id)
    BY <1>8 DEF SigninVerify
  <2>3. UNCHANGED <<users, cred, uses>>
    BY <1>8 DEF SigninVerify
  <2>4. CASE \E code \in {401, 403} : Refuse(r, code)
    BY <1>1, <1>2, <2>1, <2>3, <2>4 DEF Refuse, Answer, ReqTypes
  <2>5. CASE SetCookie(r, 200, found[r].id)
    BY <1>1, <1>2, <2>1, <2>3, <2>5 DEF SetCookie, Answer, ReqTypes
  <2> QED BY <2>2, <2>4, <2>5
<1>9. CASE MeBegin(r)
  <2>1. PICK s \in Req :
          \/ Begin(r, "List", NoCred, {s})
          \/ Refuse(r, 401) /\ uses' = [uses EXCEPT ![r] = {s}] /\ UNCHANGED <<users, cred, found>>
    BY <1>9 DEF MeBegin
  <2>2. CASE Begin(r, "List", NoCred, {s})
    BY <1>1, <1>2, <2>2 DEF Begin, ReqTypes
  <2>3. CASE Refuse(r, 401) /\ uses' = [uses EXCEPT ![r] = {s}] /\ UNCHANGED <<users, cred, found>>
    BY <1>1, <1>2, <2>3 DEF Refuse, Answer, ReqTypes
  <2> QED BY <2>1, <2>2, <2>3
<1>10. CASE MeList(r)
  <2>1. \A s \in Req : ans[s].id \in Nat
    BY <1>1 DEF ReqTypes
  <2>2. uses[r] \subseteq Req
    BY <1>1 DEF ReqTypes
  <2>3. \/ \E s \in Req :
             Answer(r, [code |-> 200, id |-> ans[s].id, issued |-> 0, error |-> FALSE])
        \/ Refuse(r, 401) \/ QueryFails(r, 401)
    BY <1>10, <2>2 DEF MeList
  <2>4. UNCHANGED <<users, cred, uses, found>>
    BY <1>10 DEF MeList
  <2>5. CASE \E s \in Req :
               Answer(r, [code |-> 200, id |-> ans[s].id, issued |-> 0, error |-> FALSE])
    BY <1>1, <1>2, <2>1, <2>4, <2>5 DEF Answer, ReqTypes
  <2>6. CASE Refuse(r, 401)
    BY <1>1, <1>2, <2>4, <2>6 DEF Refuse, Answer, ReqTypes
  <2>7. CASE QueryFails(r, 401)
    BY <1>1, <1>2, <2>4, <2>7 DEF QueryFails, Answer, ReqTypes
  <2> QED BY <2>3, <2>5, <2>6, <2>7
<1>11. CASE Drop(r)
  <2>1. Grows /\ Unique'
    BY <1>1, <1>2, <1>11, CredsNotNone, InsertGrows DEF Drop
  <2> QED BY <1>1, <1>11, <2>1 DEF Drop, ReqTypes, NoRow
<1> QED BY <1>3, <1>4, <1>5, <1>6, <1>7, <1>8, <1>9, <1>10, <1>11 DEF RequestStep

\* So does the step of a terminal.
LEMMA TerminalTypes ==
    ASSUME TypeOK, Unique, NEW t \in Tui, TuiStep(t)
    PROVE  /\ Grows /\ Unique'
           /\ tui' \in [Tui -> {"Off", "Normal", "Refresh"}] /\ shown' \in [Tui -> Seq(User)]
<1>1. /\ users \in Seq(User) /\ shown \in [Tui -> Seq(User)]
      /\ tui \in [Tui -> {"Off", "Normal", "Refresh"}]
  BY DEF TypeOK
<1>2. UNCHANGED users => Grows /\ Unique'
  BY <1>1 DEF Grows, Unique
<1>3. CASE TuiStart(t)
  BY <1>1, <1>2, <1>3 DEF TuiStart
<1>4. CASE TuiAddUser(t)
  <2>1. Grows /\ Unique'
    BY <1>1, <1>4, InsertGrows DEF TuiAddUser
  <2> QED BY <1>1, <1>4, <2>1 DEF TuiAddUser
<1>5. CASE TuiToggle(t)
  <2>1. PICK u \in DOMAIN shown[t] : users' = [users EXCEPT ![u].enabled = ~shown[t][u].enabled]
    BY <1>5 DEF TuiToggle
  <2>2. (~shown[t][u].enabled) \in BOOLEAN
    OBVIOUS
  <2>3. Grows /\ Unique'
    BY <1>1, <2>1, <2>2, ToggleGrows
  <2> QED BY <1>1, <1>5, <2>3 DEF TuiToggle
<1>6. CASE TuiRefresh(t)
  BY <1>1, <1>2, <1>6 DEF TuiRefresh
<1>7. CASE TuiExit(t)
  BY <1>1, <1>2, <1>7 DEF TuiExit
<1> QED BY <1>3, <1>4, <1>5, <1>6, <1>7 DEF TuiStep

\* The history keeps what a signin, or an answer that rests on it, has seen.
SawStays(q) == Signing(pc'[q]) \/ ans'[q].code \in {200, 403} => saw[q] \subseteq saw'[q]

\* What the history records of a signin has the right type and stays.
LEMMA ObserveGrows ==
    ASSUME TypeOK, Grows, Observe
    PROVE  /\ saw' \in [Req -> SUBSET (Nat \X BOOLEAN)]
           /\ \A r \in Req : SawStays(r)
<1>1. \A n : State(users', n) \subseteq Nat \X BOOLEAN
  <2>1. \A u \in DOMAIN users' : u \in Nat /\ users'[u] \in User
    BY DEF Grows
  <2>2. \A row \in User : row.enabled \in BOOLEAN
    BY DEF User
  <2> QED BY <2>1, <2>2 DEF State
<1>2. \A r \in Req : /\ saw'[r] \in SUBSET (Nat \X BOOLEAN)
                     /\ SawStays(r)
  BY <1>1 DEF Observe, TypeOK, SawStays
<1> QED BY <1>2 DEF Observe

-----------------------------------------------------------------------------
(* The other requests.                                                       *)

Same(q) == /\ pc'[q] = pc[q] /\ cred'[q] = cred[q] /\ uses'[q] = uses[q]
           /\ found'[q] = found[q] /\ ans'[q] = ans[q] /\ began'[q] = began[q]

\* A request changes nothing of another one, and has not been answered before.
LEMMA Local ==
    ASSUME ReqTypes, began \in [Req -> Nat], NEW r \in Req, RequestStep(r)
    PROVE  pc[r] \in Active \cup {"Idle"} /\ \A q \in Req \ {r} : Same(q)
<1> USE DEF ReqTypes, Same, Active, Answer
<1>1. CASE SignupBegin(r) /\ UNCHANGED began
  BY <1>1 DEF SignupBegin, Begin, Refuse
<1>2. CASE SignupCheck(r) /\ UNCHANGED began
  BY <1>2 DEF SignupCheck, Refuse
<1>3. CASE SignupInsert(r) /\ UNCHANGED began
  BY <1>3 DEF SignupInsert, SetCookie, QueryFails
<1>4. CASE SigninBegin(r) /\ UNCHANGED began
  BY <1>4 DEF SigninBegin, Begin
<1>5. CASE SigninLookup(r) /\ UNCHANGED began
  BY <1>5 DEF SigninLookup, Refuse, QueryFails
<1>6. CASE SigninVerify(r) /\ UNCHANGED began
  BY <1>6 DEF SigninVerify, SetCookie, Refuse
<1>7. CASE MeBegin(r) /\ began' = [began EXCEPT ![r] = now]
  BY <1>7 DEF MeBegin, Begin, Refuse
<1>8. CASE MeList(r) /\ UNCHANGED began
  BY <1>8 DEF MeList, Refuse, QueryFails
<1>9. CASE Drop(r) /\ UNCHANGED began
  BY <1>9 DEF Drop
<1> QED BY <1>1, <1>2, <1>3, <1>4, <1>5, <1>6, <1>7, <1>8, <1>9 DEF RequestStep

\* What a request knows stays true while others take their steps.
LEMMA Frame ==
    ASSUME TypeOK, Grows, CookiesStay, NEW q \in Req, Same(q), SawStays(q), ReqInv(q)
    PROVE  ReqInv(q)'
<1> USE DEF Same, ReqInv
<1>1. CredInv(q)'
  BY DEF CredInv
<1>2. VerifyInv(q)'
  BY DEF VerifyInv, Grows, SawStays, Signing
<1>3. CookieInv(q)'
  BY DEF CookieInv, HasCookie, Grows, SawStays
<1>4. DisabledInv(q)'
  <2> SUFFICES ASSUME pc[q] = "Done", cred[q] # NoCred, ans[q].code = 403
               PROVE  \E u \in Matches(cred[q].username)' : <<u, FALSE>> \in saw'[q]
    BY DEF DisabledInv
  <2>1. PICK u \in Matches(cred[q].username) : <<u, FALSE>> \in saw[q]
    BY DEF DisabledInv
  <2>2. u \in Matches(cred[q].username)'
    BY <2>1 DEF Matches, Grows
  <2> QED BY <2>1, <2>2 DEF SawStays
<1>5. UsesInv(q)'
  <2>1. uses[q] \subseteq Req
    BY DEF TypeOK
  <2>2. ASSUME pc[q] \in {"Lookup", "Verify"}, NEW s \in uses[q]
        PROVE  HasCookie(s)' /\ ans'[s].code = 201 /\ cred'[q] = cred'[s]
    BY <2>1, <2>2 DEF UsesInv, CookiesStay
  <2>3. ASSUME pc[q] = "List"
        PROVE  \E s \in Req : uses'[q] = {s} /\ HasCookie(s)' /\ began'[q] <= ans'[s].issued + Ttl
    BY <2>3 DEF UsesInv, CookiesStay
  <2> QED BY <2>2, <2>3 DEF UsesInv
<1>6. SessionInv(q)'
  BY DEF SessionInv, Session, CookiesStay
<1> QED BY <1>1, <1>2, <1>3, <1>4, <1>5, <1>6

-----------------------------------------------------------------------------
(* The request itself.                                                       *)

\* A request that ends with credentials and without a cookie or a 403 has nothing to show.
LEMMA EndsPlain ==
    ASSUME NEW r \in Req, pc'[r] = "Done", cred'[r] \in Creds, ans'[r].code \notin {200, 201, 403}
    PROVE  ReqInv(r)'
BY CredsNotNone DEF ReqInv, CredInv, VerifyInv, CookieInv, DisabledInv, UsesInv, SessionInv,
                    Session, HasCookie

\* The step of a request keeps what it knows.
LEMMA Step ==
    ASSUME TypeOK, Unique, NEW r \in Req, ReqInv(r), RequestStep(r), Observe, Grows, CookiesStay,
           UNCHANGED now, \A s \in Req : CookieInv(s)
    PROVE  ReqInv(r)'
<1>1. /\ ReqTypes /\ now \in Nat /\ users \in Seq(User) /\ began \in [Req -> Nat]
      /\ saw \in [Req -> SUBSET (Nat \X BOOLEAN)]
  BY DEF TypeOK, ReqTypes
<1>2. SawStays(r)
  BY ObserveGrows
<1>3. CASE SignupBegin(r)
  <2>1. pc[r] = "Idle" /\ cred[r] = NoCred /\ uses[r] = {}
    BY <1>3 DEF SignupBegin, Begin, ReqInv, CredInv
  <2>2. CASE \E c \in Creds : Begin(r, "Check", c, {})
    <3>1. pc'[r] = "Check" /\ cred'[r] \in Creds /\ uses'[r] = {}
      BY <1>1, <2>2 DEF Begin, ReqTypes
    <3> QED BY <3>1 DEF ReqInv, CredInv, VerifyInv, CookieInv, DisabledInv, UsesInv, SessionInv,
                        Session, HasCookie
  <2>3. CASE Refuse(r, 400) /\ UNCHANGED <<users, cred, uses, found>>
    <3>1. /\ pc'[r] = "Done" /\ cred'[r] = NoCred /\ uses'[r] = {}
          /\ ans'[r].code = 400
      BY <1>1, <2>1, <2>3 DEF Refuse, Answer, ReqTypes
    <3> QED BY <3>1 DEF ReqInv, CredInv, VerifyInv, CookieInv, DisabledInv, UsesInv, SessionInv,
                        Session, HasCookie
  <2> QED BY <1>3, <2>2, <2>3 DEF SignupBegin
<1>4. CASE SignupCheck(r)
  <2>1. /\ pc[r] = "Check" /\ cred'[r] = cred[r] /\ cred[r] \in Creds
        /\ uses'[r] = uses[r] /\ uses[r] = {}
    BY <1>4 DEF SignupCheck, ReqInv, CredInv
  <2>2. CASE Refuse(r, 409)
    <3>1. pc'[r] = "Done" /\ ans'[r].code = 409
      BY <1>1, <2>2 DEF Refuse, Answer, ReqTypes
    <3> QED BY <2>1, <3>1, EndsPlain
  <2>3. CASE pc' = [pc EXCEPT ![r] = "Insert"] /\ UNCHANGED ans
    <3>1. pc'[r] = "Insert"
      BY <1>1, <2>3 DEF ReqTypes
    <3> QED BY <2>1, <3>1 DEF ReqInv, CredInv, VerifyInv, CookieInv, DisabledInv, UsesInv,
                              SessionInv, Session, HasCookie
  <2> QED BY <1>4, <2>2, <2>3 DEF SignupCheck
<1>5. CASE SignupInsert(r)
  <2>1. pc[r] = "Insert" /\ cred'[r] = cred[r] /\ cred[r] \in Creds
    BY <1>5 DEF SignupInsert, ReqInv, CredInv
  <2>2. CASE Insert(cred[r].username, cred[r].password) /\ SetCookie(r, 201, Len(users) + 1)
    <3>1. pc'[r] = "Done" /\ ans'[r].code = 201 /\ ans'[r].id = Len(users) + 1
      BY <1>1, <2>2 DEF SetCookie, Answer, ReqTypes
    <3>2. /\ ans'[r].id \in DOMAIN users'
          /\ users'[ans'[r].id].username = cred'[r].username
          /\ users'[ans'[r].id].password = cred'[r].password
      BY <1>1, <2>1, <2>2, <3>1, CredsNotNone, InsertGrows
    <3> QED BY <2>1, <3>1, <3>2, CredsNotNone
            DEF ReqInv, CredInv, VerifyInv, CookieInv, DisabledInv, UsesInv, SessionInv, Session
  <2>3. CASE QueryFails(r, 500)
    <3>1. pc'[r] = "Done" /\ ans'[r].code = 500
      BY <1>1, <2>3 DEF QueryFails, Answer, ReqTypes
    <3> QED BY <2>1, <3>1, EndsPlain
  <2> QED BY <1>5, <2>2, <2>3 DEF SignupInsert
<1>6. CASE SigninBegin(r)
  <2>1. PICK c \in Creds : Begin(r, "Lookup", c, SignedUp(c))
    BY <1>6 DEF SigninBegin
  <2>2. pc'[r] = "Lookup" /\ cred'[r] = c /\ uses'[r] = SignedUp(c)
    BY <1>1, <2>1 DEF Begin, ReqTypes
  <2>3. \A s \in uses'[r] : HasCookie(s)' /\ ans'[s].code = 201 /\ cred'[r] = cred'[s]
    BY <2>2 DEF SignedUp, CookiesStay
  <2> QED BY <2>1, <2>2, <2>3
          DEF ReqInv, CredInv, VerifyInv, CookieInv, DisabledInv, UsesInv, SessionInv, Session,
              HasCookie
<1>7. CASE SigninLookup(r)
  <2>1. /\ pc[r] = "Lookup" /\ cred'[r] = cred[r] /\ cred[r] \in Creds
        /\ uses'[r] = uses[r] /\ UNCHANGED users
    BY <1>7 DEF SigninLookup, ReqInv, CredInv
  <2>2. CASE \E u \in Matches(cred[r].username) :
               /\ found' = [found EXCEPT ![r] = [id |-> u, row |-> users[u]]]
               /\ pc' = [pc EXCEPT ![r] = "Verify"]
               /\ UNCHANGED ans
    <3>1. PICK u \in Matches(cred[r].username) :
               /\ found' = [found EXCEPT ![r] = [id |-> u, row |-> users[u]]]
               /\ pc' = [pc EXCEPT ![r] = "Verify"]
      BY <2>2
    <3>2. pc'[r] = "Verify" /\ found'[r].id = u /\ found'[r].row = users[u]
      BY <1>1, <3>1 DEF ReqTypes
    <3>3. /\ u \in DOMAIN users' /\ users'[u] = users[u]
          /\ nocase[users[u].username] = nocase[cred[r].username]
      BY <2>1, <3>1 DEF Matches
    <3>4. <<u, users[u].enabled>> \in saw'[r]
      <4>1. saw'[r] = saw[r] \cup State(users', cred'[r].username)
        BY <3>2 DEF Observe, Signing
      <4>2. <<u, users[u].enabled>> \in State(users', cred'[r].username)
        BY <2>1, <3>3 DEF State
      <4> QED BY <4>1, <4>2
    <3>5. \A s \in uses'[r] : HasCookie(s)' /\ ans'[s].code = 201 /\ cred'[r] = cred'[s]
      BY <1>1, <2>1 DEF ReqInv, UsesInv, CookiesStay, ReqTypes
    <3>6. VerifyInv(r)'
      BY <2>1, <3>2, <3>3, <3>4 DEF VerifyInv
    <3> QED BY <2>1, <3>2, <3>5, <3>6
            DEF ReqInv, CredInv, CookieInv, DisabledInv, UsesInv, SessionInv, Session, HasCookie
  <2>3. CASE Refuse(r, 401)
    <3>1. pc'[r] = "Done" /\ ans'[r].code = 401
      BY <1>1, <2>3 DEF Refuse, Answer, ReqTypes
    <3> QED BY <2>1, <3>1, EndsPlain
  <2>4. CASE QueryFails(r, 401)
    <3>1. pc'[r] = "Done" /\ ans'[r].code = 401
      BY <1>1, <2>4 DEF QueryFails, Answer, ReqTypes
    <3> QED BY <2>1, <3>1, EndsPlain
  <2> QED BY <1>7, <2>2, <2>3, <2>4 DEF SigninLookup
<1>8. CASE SigninVerify(r)
  <2> DEFINE u == found[r].id
  <2>1. /\ pc[r] = "Verify" /\ cred'[r] = cred[r] /\ cred[r] \in Creds
        /\ UNCHANGED users
    BY <1>8 DEF SigninVerify, ReqInv, CredInv
  <2>2. /\ u \in DOMAIN users /\ users[u].password = found[r].row.password
        /\ nocase[users[u].username] = nocase[cred[r].username]
        /\ <<u, found[r].row.enabled>> \in saw[r]
    BY <2>1 DEF ReqInv, VerifyInv
  <2>3. found[r].row.enabled \in BOOLEAN
    <3>1. found[r].row \in User \cup {NoUser}
      BY <1>1 DEF ReqTypes
    <3>2. \A row \in User : row.enabled \in BOOLEAN
      BY DEF User
    <3>3. NoUser.enabled \in BOOLEAN
      BY DEF NoUser
    <3> QED BY <3>1, <3>2, <3>3
  <2>4. CASE ~found[r].row.enabled /\ Refuse(r, 403)
    <3>1. pc'[r] = "Done" /\ ans'[r].code = 403
      BY <1>1, <2>4 DEF Refuse, Answer, ReqTypes
    <3>2. <<u, FALSE>> \in saw'[r]
      <4>1. found[r].row.enabled = FALSE
        BY <2>4, <2>3
      <4> QED BY <4>1, <1>2, <2>2, <3>1 DEF SawStays
    <3>3. u \in Matches(cred[r].username)'
      BY <2>1, <2>2 DEF Matches
    <3>4. DisabledInv(r)'
      BY <3>2, <3>3 DEF DisabledInv, Matches
    <3> QED BY <2>1, <3>1, <3>4, CredsNotNone
            DEF ReqInv, CredInv, VerifyInv, CookieInv, UsesInv, SessionInv, Session, HasCookie
  <2>5. CASE found[r].row.enabled /\ Verified(r) /\ SetCookie(r, 200, u)
    <3>1. pc'[r] = "Done" /\ ans'[r].code = 200 /\ ans'[r].id = u
      BY <1>1, <2>5 DEF SetCookie, Answer, ReqTypes
    <3>2. <<u, TRUE>> \in saw'[r]
      <4>1. found[r].row.enabled = TRUE
        BY <2>5, <2>3
      <4> QED BY <4>1, <1>2, <2>2, <3>1 DEF SawStays
    <3>3. CookieInv(r)'
      BY <2>1, <2>2, <2>5, <3>1, <3>2 DEF CookieInv, Verified
    <3> QED BY <2>1, <3>1, <3>3, CredsNotNone
            DEF ReqInv, CredInv, VerifyInv, DisabledInv, UsesInv, SessionInv, Session
  <2>6. CASE Refuse(r, 401)
    <3>1. pc'[r] = "Done" /\ ans'[r].code = 401
      BY <1>1, <2>6 DEF Refuse, Answer, ReqTypes
    <3> QED BY <2>1, <3>1, EndsPlain
  <2> QED BY <1>8, <2>4, <2>5, <2>6 DEF SigninVerify
<1>9. CASE MeBegin(r) /\ began' = [began EXCEPT ![r] = now]
  <2>1. PICK s \in Req :
          /\ HasCookie(s)
          /\ \/ Valid(s) /\ Begin(r, "List", NoCred, {s})
             \/ /\ ~Valid(s) /\ pc[r] = "Idle" /\ Refuse(r, 401)
                /\ uses' = [uses EXCEPT ![r] = {s}] /\ UNCHANGED <<users, cred, found>>
    BY <1>9 DEF MeBegin
  <2>2. began'[r] = now /\ HasCookie(s)' /\ ans'[s] = ans[s] /\ ans[s].issued \in Nat
    BY <1>1, <1>9, <2>1 DEF CookiesStay, ReqTypes
  <2>3. CASE Valid(s) /\ Begin(r, "List", NoCred, {s})
    <3>1. pc'[r] = "List" /\ cred'[r] = NoCred /\ uses'[r] = {s}
      BY <1>1, <2>3 DEF Begin, ReqTypes
    <3>2. began'[r] <= ans'[s].issued + Ttl
      BY <2>2, <2>3 DEF Valid
    <3> QED BY <2>2, <3>1, <3>2
            DEF ReqInv, CredInv, VerifyInv, CookieInv, DisabledInv, UsesInv, SessionInv, Session,
                HasCookie
  <2>4. CASE /\ ~Valid(s) /\ pc[r] = "Idle" /\ Refuse(r, 401)
             /\ uses' = [uses EXCEPT ![r] = {s}] /\ UNCHANGED <<users, cred, found>>
    <3>1. pc'[r] = "Done" /\ cred'[r] = NoCred /\ uses'[r] = {s} /\ ans'[r].code = 401
      BY <1>1, <2>4 DEF Refuse, Answer, ReqTypes, ReqInv, CredInv
    <3>2. began'[r] > ans'[s].issued + Ttl
      BY <1>1, <2>2, <2>4, TimeAssumption DEF Valid
    <3>3. SessionInv(r)'
      BY <2>2, <3>1, <3>2 DEF SessionInv, Session
    <3> QED BY <3>1, <3>3
            DEF ReqInv, CredInv, VerifyInv, CookieInv, DisabledInv, UsesInv, HasCookie
  <2> QED BY <2>1, <2>3, <2>4
<1>10. CASE MeList(r) /\ UNCHANGED began
  <2>1. /\ pc[r] = "List" /\ cred'[r] = NoCred /\ uses'[r] = uses[r] /\ UNCHANGED users
    BY <1>10 DEF MeList, ReqInv, CredInv
  <2>2. PICK s \in Req : uses[r] = {s} /\ HasCookie(s) /\ began[r] <= ans[s].issued + Ttl
    BY <2>1 DEF ReqInv, UsesInv
  <2>3. HasCookie(s)' /\ ans'[s] = ans[s] /\ began'[r] = began[r] /\ ans[s].id \in DOMAIN users
    BY <1>10, <2>2 DEF CookiesStay, CookieInv
  <2>4. CASE Answer(r, [code |-> 200, id |-> ans[s].id, issued |-> 0, error |-> FALSE])
    <3>1. pc'[r] = "Done" /\ ans'[r].code = 200 /\ ans'[r].id = ans[s].id
      BY <1>1, <2>4 DEF Answer, ReqTypes
    <3>2. SessionInv(r)'
      BY <2>1, <2>2, <2>3, <3>1 DEF SessionInv, Session
    <3> QED BY <2>1, <3>1, <3>2
            DEF ReqInv, CredInv, VerifyInv, CookieInv, DisabledInv, UsesInv, HasCookie
  <2>5. CASE QueryFails(r, 401)
    <3>1. pc'[r] = "Done" /\ ans'[r].code = 401 /\ ans'[r].error
      BY <1>1, <2>5 DEF QueryFails, Answer, ReqTypes
    <3>2. SessionInv(r)'
      BY <2>1, <2>2, <2>3, <3>1 DEF SessionInv, Session
    <3> QED BY <2>1, <3>1, <3>2
            DEF ReqInv, CredInv, VerifyInv, CookieInv, DisabledInv, UsesInv, HasCookie
  <2> QED BY <1>10, <2>2, <2>3, <2>4, <2>5 DEF MeList
<1>11. CASE Drop(r)
  <2>1. pc'[r] = "Dropped" /\ cred'[r] = NoCred
    BY <1>1, <1>11 DEF Drop, ReqTypes
  <2> QED BY <2>1 DEF ReqInv, CredInv, VerifyInv, CookieInv, DisabledInv, UsesInv, SessionInv,
                      Session, HasCookie
<1> QED BY <1>3, <1>4, <1>5, <1>6, <1>7, <1>8, <1>9, <1>10, <1>11 DEF RequestStep

-----------------------------------------------------------------------------
(* The invariant.                                                            *)

\* Only an INSERT of the name makes an answer a 201.
LEMMA NewAccount ==
    ASSUME TypeOK, NEW r \in Req, RequestStep(r), pc'[r] = "Done", ans'[r].code = 201
    PROVE  Free(cred[r].username) /\ cred'[r] = cred[r] /\ pc[r] = "Insert"
<1> USE DEF Answer
<1>0. ReqTypes
  BY DEF TypeOK, ReqTypes
<1> USE <1>0 DEF ReqTypes
<1>1. CASE SignupBegin(r)
  BY <1>1 DEF SignupBegin, Begin, Refuse
<1>2. CASE SignupCheck(r)
  BY <1>2 DEF SignupCheck, Refuse
<1>3. CASE SignupInsert(r)
  BY <1>3 DEF SignupInsert, Insert, QueryFails
<1>4. CASE SigninBegin(r)
  BY <1>4 DEF SigninBegin, Begin
<1>5. CASE SigninLookup(r)
  BY <1>5 DEF SigninLookup, Refuse, QueryFails
<1>6. CASE SigninVerify(r)
  BY <1>6 DEF SigninVerify, SetCookie, Refuse
<1>7. CASE MeBegin(r)
  BY <1>7 DEF MeBegin, Begin, Refuse
<1>8. CASE MeList(r)
  BY <1>8 DEF MeList, Refuse, QueryFails
<1>9. CASE Drop(r)
  BY <1>9 DEF Drop
<1> QED BY <1>1, <1>2, <1>3, <1>4, <1>5, <1>6, <1>7, <1>8, <1>9 DEF RequestStep

\* The invariant holds in the initial state.
LEMMA Initially == ASSUME Init PROVE IInv
<1>1. users = << >> /\ DOMAIN users = {}
  BY DEF Init
<1>2. TypeOK
  BY <1>1 DEF Init, TypeOK, Active, NoRow, NoAnswer
<1>3. Unique /\ OneOwnerPerName
  BY <1>1 DEF Init, Unique, OneOwnerPerName
<1>4. ASSUME NEW r \in Req PROVE ReqInv(r)
  BY DEF Init, ReqInv, CredInv, VerifyInv, CookieInv, DisabledInv, UsesInv, SessionInv, Session,
         HasCookie
<1> QED BY <1>2, <1>3, <1>4 DEF IInv

\* Every step keeps it.
LEMMA Inductive == ASSUME IInv, [Next]_vars PROVE IInv'
<1>1. /\ TypeOK /\ Unique /\ OneOwnerPerName /\ \A r \in Req : ReqInv(r)
      /\ ReqTypes /\ began \in [Req -> Nat] /\ now \in Nat
  BY DEF IInv, TypeOK, ReqTypes
<1>2. CASE \E r \in Req : RequestStep(r) /\ Observe /\ UNCHANGED <<now, tuiVars>>
  <2>1. PICK r \in Req : RequestStep(r) /\ Observe /\ UNCHANGED <<now, tuiVars>>
    BY <1>2
  <2>2. ReqTypes' /\ Grows /\ Unique'
    BY <1>1, <2>1, RequestTypes DEF ReqInv, CredInv
  <2>3. pc[r] \in Active \cup {"Idle"} /\ \A q \in Req \ {r} : Same(q)
    BY <1>1, <2>1, Local
  <2>4. CookiesStay
    BY <2>3 DEF CookiesStay, HasCookie, Same, Active
  <2>5. /\ saw' \in [Req -> SUBSET (Nat \X BOOLEAN)]
        /\ \A q \in Req : SawStays(q)
    BY <1>1, <2>1, <2>2, ObserveGrows
  <2>6. began' \in [Req -> Nat]
    BY <1>1, <2>1 DEF RequestStep
  <2>7. TypeOK'
    BY <1>1, <2>1, <2>2, <2>5, <2>6 DEF TypeOK, ReqTypes, Grows, tuiVars
  <2>8. ReqInv(r)'
    BY <1>1, <2>1, <2>2, <2>4, Step DEF ReqInv
  <2>9. ASSUME NEW q \in Req \ {r} PROVE ReqInv(q)'
    BY <1>1, <2>2, <2>3, <2>4, <2>5, Frame
  <2>10. ASSUME pc'[r] = "Done", ans'[r].code = 201, NEW q \in Req \ {r},
                pc'[q] = "Done", ans'[q].code = 201
         PROVE  cred'[r].username # cred'[q].username
    <3>1. Free(cred[r].username) /\ cred'[r] = cred[r]
      BY <1>1, <2>1, <2>10, NewAccount
    <3>2. /\ pc[q] = "Done" /\ ans[q].code = 201
          /\ cred'[q] = cred[q] /\ CookieInv(q)
      BY <1>1, <2>3, <2>10 DEF Same, ReqInv
    <3>3. HasCookie(q)
      BY <3>2 DEF CookieInv, HasCookie
    <3> QED BY <3>1, <3>2, <3>3 DEF Free, CookieInv
  <2>11. OneOwnerPerName'
    BY <1>1, <2>2, <2>3, <2>10 DEF OneOwnerPerName, Unique, Same
  <2> QED BY <2>2, <2>7, <2>8, <2>9, <2>11 DEF IInv
<1>3. CASE \E t \in Tui : TuiStep(t) /\ UNCHANGED <<now, requestVars, began>> /\ Observe
  <2>1. PICK t \in Tui : TuiStep(t) /\ UNCHANGED <<now, requestVars, began>> /\ Observe
    BY <1>3
  <2>2. /\ Grows /\ Unique'
        /\ tui' \in [Tui -> {"Off", "Normal", "Refresh"}] /\ shown' \in [Tui -> Seq(User)]
    BY <1>1, <2>1, TerminalTypes
  <2>3. CookiesStay /\ \A q \in Req : Same(q)
    BY <2>1 DEF CookiesStay, HasCookie, Same, requestVars
  <2>4. /\ saw' \in [Req -> SUBSET (Nat \X BOOLEAN)]
        /\ \A q \in Req : SawStays(q)
    BY <1>1, <2>1, <2>2, ObserveGrows
  <2>5. TypeOK'
    BY <1>1, <2>1, <2>2, <2>4 DEF TypeOK, Grows, requestVars
  <2>6. \A q \in Req : ReqInv(q)'
    BY <1>1, <2>2, <2>3, <2>4, Frame
  <2>7. OneOwnerPerName'
    BY <1>1, <2>1, <2>2 DEF OneOwnerPerName, Unique, requestVars
  <2> QED BY <2>2, <2>5, <2>6, <2>7 DEF IInv
<1>4. CASE SetClock \/ UNCHANGED vars
  <2>1. UNCHANGED <<users, requestVars, historyVars, tuiVars>> /\ now' \in Nat
    BY <1>1, <1>4, TimeAssumption DEF SetClock, vars
  <2>2. TypeOK' /\ Unique' /\ OneOwnerPerName'
    BY <1>1, <2>1 DEF TypeOK, Unique, OneOwnerPerName, requestVars, historyVars, tuiVars
  <2>3. Grows /\ CookiesStay /\ \A q \in Req : Same(q) /\ SawStays(q)
    BY <1>1, <2>1 DEF Grows, CookiesStay, HasCookie, Same, SawStays, requestVars, historyVars,
                      TypeOK
  <2>4. \A q \in Req : ReqInv(q)'
    BY <1>1, <2>3, Frame
  <2> QED BY <2>2, <2>4 DEF IInv
<1> QED BY <1>2, <1>3, <1>4 DEF Next

\* The invariant gives the properties.
LEMMA InvariantSuffices == ASSUME IInv PROVE TypeOK /\ OneOwnerPerName /\ SigninCurrent /\ SessionIdentity
<1>1. SigninCurrent
  BY DEF IInv, SigninCurrent, ReqInv, CookieInv, DisabledInv, HasCookie
<1>2. SessionIdentity
  <2> SUFFICES ASSUME NEW r \in Req, NEW s \in Req, pc[r] = "Done", cred[r] = NoCred, s \in uses[r]
               PROVE  \/ ans[r].error
                      \/ /\ ans[r].code = 200 /\ ans[r].id = ans[s].id
                         /\ began[r] <= ans[s].issued + Ttl
                         /\ users[ans[r].id].password = cred[s].password
                         /\ nocase[users[ans[r].id].username] = nocase[cred[s].username]
                      \/ ans[r].code = 401 /\ began[r] > ans[s].issued + Ttl
    BY DEF SessionIdentity
  <2>1. Session(r, s) /\ CookieInv(s)
    BY DEF IInv, ReqInv, SessionInv
  <2> QED BY <2>1 DEF Session, CookieInv
<1> QED BY <1>1, <1>2 DEF IInv

\* For every number of requests and terminals: no two rows and no two successful signups
\* have the same name; a signin's cookie is for an account whose password was presented and
\* that was enabled while the request was under way; and a cookie stands for that account
\* as long as it lives and not longer.
THEOREM AccountsSafety == Spec => [](TypeOK /\ OneOwnerPerName /\ SigninCurrent /\ SessionIdentity)
<1>1. Init => IInv
  BY Initially
<1>2. IInv /\ [Next]_vars => IInv'
  BY Inductive
<1>3. IInv => TypeOK /\ OneOwnerPerName /\ SigninCurrent /\ SessionIdentity
  BY InvariantSuffices
<1> QED BY <1>1, <1>2, <1>3, PTL DEF Spec

-----------------------------------------------------------------------------
(* Accounts that can be used again.                                          *)

\* AccountUsable, for one request and the signup whose account it uses.
Usable(r, s) ==
    pc[r] = "Done" /\ cred[r] # NoCred /\ s \in uses[r] =>
        /\ HasCookie(s)
        /\ \/ ans[r].error
           \/ ans[r].code = 403 /\ <<ans[s].id, FALSE>> \in saw[r]
           \/ ans[r].code = 200 /\ ans[r].id = ans[s].id
           \/ \E u \in Twins(s) : JudgedBy(r, u)

\* A row whose name differs from that of an account in case only stays such a row.
LEMMA TwinsStay ==
    ASSUME Grows, CookiesStay, NEW s \in Req, HasCookie(s), NEW u \in Twins(s)
    PROVE  /\ u \in Twins(s)' /\ users'[u].password = users[u].password
           /\ ans'[s] = ans[s] /\ HasCookie(s)'
BY DEF Twins, Matches, Grows, CookiesStay

\* A signin with the credentials of a successful signup ends as it should.
LEMMA UsableStep ==
    ASSUME IInv, NEW r \in Req, RequestStep(r), Observe, Grows, CookiesStay,
           NEW s \in Req
    PROVE  Usable(r, s)'
<1>1. /\ TypeOK /\ Unique /\ ReqTypes /\ ReqInv(r) /\ CookieInv(s)
      /\ uses[r] \in SUBSET Req
  BY DEF IInv, TypeOK, ReqTypes, ReqInv
<1>2. SawStays(r)
  BY <1>1, ObserveGrows
<1>3. CASE SignupBegin(r)
  <2>1. CASE \E c \in Creds : Begin(r, "Check", c, {})
    BY <1>1, <2>1 DEF Begin, ReqTypes, Usable
  <2>2. CASE pc[r] = "Idle" /\ UNCHANGED cred
    BY <1>1, <2>2 DEF ReqInv, CredInv, Usable
  <2> QED BY <1>3, <2>1, <2>2 DEF SignupBegin
<1>4. CASE SignupCheck(r)
  BY <1>1, <1>4 DEF SignupCheck, ReqInv, CredInv, Usable
<1>5. CASE SignupInsert(r)
  BY <1>1, <1>5 DEF SignupInsert, ReqInv, CredInv, Usable
<1>6. CASE SigninBegin(r)
  BY <1>1, <1>6 DEF SigninBegin, Begin, ReqTypes, Usable
<1>7. CASE SigninLookup(r)
  <2> SUFFICES ASSUME pc'[r] = "Done", s \in uses[r]
               PROVE  HasCookie(s)' /\ ans'[r].error
    BY <1>7 DEF SigninLookup, Usable
  <2>1. HasCookie(s) /\ ans[s].code = 201 /\ cred[r] = cred[s]
    BY <1>1, <1>7 DEF SigninLookup, ReqInv, UsesInv
  <2>2. ans[s].id \in Matches(cred[r].username)
    BY <1>1, <2>1 DEF CookieInv, Matches
  <2>3. QueryFails(r, 401)
    BY <1>1, <1>7, <2>2 DEF SigninLookup, ReqTypes
  <2> QED BY <1>1, <2>1, <2>3 DEF QueryFails, Answer, ReqTypes, CookiesStay
<1>8. CASE SigninVerify(r)
  <2> SUFFICES ASSUME s \in uses[r]
               PROVE  /\ HasCookie(s)'
                      /\ \/ ans'[r].code = 403 /\ <<ans'[s].id, FALSE>> \in saw'[r]
                         \/ ans'[r].code = 200 /\ ans'[r].id = ans'[s].id
                         \/ \E v \in Twins(s)' : JudgedBy(r, v)'
    BY <1>8 DEF SigninVerify, Usable
  <2>0. PICK u : u = found[r].id
    OBVIOUS
  <2>1. HasCookie(s) /\ ans[s].code = 201 /\ cred[r] = cred[s] /\ VerifyInv(r) /\ pc[r] = "Verify"
    BY <1>1, <1>8 DEF SigninVerify, ReqInv, UsesInv
  <2>2. HasCookie(s)' /\ ans'[s] = ans[s]
    BY <2>1 DEF CookiesStay
  <2>3. /\ u \in Matches(cred[s].username)
        /\ users[u].password = found[r].row.password
        /\ <<u, found[r].row.enabled>> \in saw[r]
    BY <2>0, <2>1 DEF VerifyInv, Matches
  <2>4. u = ans[s].id \/ u \in Twins(s)
    BY <2>3 DEF Twins
  <2>5. u \in Twins(s) => u \in Twins(s)'
    BY <2>1, TwinsStay
  <2>6. UNCHANGED <<users, cred>>
    BY <1>8 DEF SigninVerify
  <2>7. CASE ~found[r].row.enabled /\ Refuse(r, 403)
    <3>1. found[r].row \in User \cup {NoUser}
      BY <1>1 DEF ReqTypes
    <3>2. \A row \in User : row.enabled \in BOOLEAN
      BY DEF User
    <3>3. NoUser.enabled \in BOOLEAN
      BY DEF NoUser
    <3>4. found[r].row.enabled = FALSE
      BY <2>7, <3>1, <3>2, <3>3
    <3>5. ans'[r].code = 403
      BY <1>1, <2>7 DEF Refuse, Answer, ReqTypes
    <3>6. <<u, FALSE>> \in saw'[r]
      BY <1>2, <2>3, <3>4, <3>5 DEF SawStays
    <3>7. CASE u = ans[s].id
      <4>1. <<ans'[s].id, FALSE>> \in saw'[r]
        BY <2>2, <3>6, <3>7
      <4> QED BY <2>2, <3>5, <4>1
    <3>8. CASE u \in Twins(s)
      <4>1. JudgedBy(r, u)'
        BY <3>5, <3>6 DEF JudgedBy
      <4> QED BY <2>2, <2>5, <3>8, <4>1
    <3> QED BY <2>4, <3>7, <3>8
  <2>8. CASE Verified(r) /\ SetCookie(r, 200, found[r].id)
    <3>1. ans'[r].code = 200 /\ ans'[r].id = u
      BY <1>1, <2>0, <2>8 DEF SetCookie, Answer, ReqTypes
    <3>2. users'[u].password = cred'[r].password
      BY <2>3, <2>6, <2>8 DEF Verified
    <3>3. JudgedBy(r, u)'
      BY <3>1, <3>2 DEF JudgedBy
    <3> QED BY <2>2, <2>4, <2>5, <3>1, <3>3
  <2>9. CASE ~Verified(r) /\ Refuse(r, 401)
    <3>1. ans'[r].code = 401
      BY <1>1, <2>9 DEF Refuse, Answer, ReqTypes
    <3>2. users'[u].password # cred'[r].password
      BY <2>3, <2>6, <2>9 DEF Verified
    <3>3. users[ans[s].id].password = cred[r].password
      BY <1>1, <2>1 DEF CookieInv
    <3>4. u \in Twins(s)
      BY <2>4, <2>6, <3>2, <3>3
    <3>5. JudgedBy(r, u)'
      BY <3>1, <3>2 DEF JudgedBy
    <3> QED BY <2>2, <2>5, <3>4, <3>5
  <2> QED BY <1>8, <2>7, <2>8, <2>9 DEF SigninVerify
<1>9. CASE MeBegin(r)
  <2>1. CASE \E q \in Req : Begin(r, "List", NoCred, {q})
    BY <1>1, <2>1 DEF Begin, ReqTypes, Usable
  <2>2. CASE pc[r] = "Idle" /\ UNCHANGED cred
    BY <1>1, <2>2 DEF ReqInv, CredInv, Usable
  <2> QED BY <1>9, <2>1, <2>2 DEF MeBegin
<1>10. CASE MeList(r)
  BY <1>1, <1>10 DEF MeList, ReqInv, CredInv, Usable
<1>11. CASE Drop(r)
  BY <1>1, <1>11 DEF Drop, ReqTypes, Usable
<1> QED BY <1>3, <1>4, <1>5, <1>6, <1>7, <1>8, <1>9, <1>10, <1>11 DEF RequestStep

UInv == IInv /\ \A r, s \in Req : Usable(r, s)

\* Every step keeps the invariant for accounts that can be used again.
LEMMA UsableInductive == ASSUME UInv, [Next]_vars PROVE UInv'
<1>1. IInv /\ IInv' /\ TypeOK /\ Unique /\ ReqTypes /\ began \in [Req -> Nat]
  BY Inductive DEF UInv, IInv, TypeOK, ReqTypes
<1>2. ASSUME NEW q \in Req, NEW s \in Req, Grows, CookiesStay, Same(q), SawStays(q)
      PROVE  Usable(q, s)'
  <2> SUFFICES ASSUME pc[q] = "Done", cred[q] # NoCred, s \in uses[q]
               PROVE  Usable(q, s)'
    BY <1>2 DEF Usable, Same
  <2>0. Usable(q, s)
    BY DEF UInv
  <2>1. HasCookie(s)
    BY <2>0 DEF Usable
  <2>2. HasCookie(s)' /\ ans'[s] = ans[s]
    BY <1>2, <2>1 DEF CookiesStay
  <2>3. CASE \/ ans[q].error
             \/ ans[q].code = 403 /\ <<ans[s].id, FALSE>> \in saw[q]
             \/ ans[q].code = 200 /\ ans[q].id = ans[s].id
    <3>1. \/ ans'[q].error
          \/ ans'[q].code = 403 /\ <<ans'[s].id, FALSE>> \in saw'[q]
          \/ ans'[q].code = 200 /\ ans'[q].id = ans'[s].id
      BY <1>2, <2>2, <2>3 DEF Same, SawStays
    <3> QED BY <2>2, <3>1 DEF Usable
  <2>4. CASE \E u \in Twins(s) : JudgedBy(q, u)
    <3>1. PICK u \in Twins(s) : JudgedBy(q, u)
      BY <2>4
    <3>2. u \in Twins(s)' /\ users'[u].password = users[u].password
      BY <1>2, <2>1, <3>1, TwinsStay
    <3>3. JudgedBy(q, u)'
      BY <1>2, <3>1, <3>2 DEF JudgedBy, Same, SawStays
    <3> QED BY <2>2, <3>2, <3>3 DEF Usable
  <2> QED BY <2>0, <2>3, <2>4 DEF Usable
<1>3. CASE \E r \in Req : RequestStep(r) /\ Observe /\ UNCHANGED <<now, tuiVars>>
  <2>1. PICK r \in Req : RequestStep(r) /\ Observe /\ UNCHANGED <<now, tuiVars>>
    BY <1>3
  <2>2. Grows
    BY <1>1, <2>1, RequestTypes DEF IInv, ReqInv, CredInv
  <2>3. pc[r] \in Active \cup {"Idle"} /\ \A q \in Req \ {r} : Same(q)
    BY <1>1, <2>1, Local
  <2>4. CookiesStay
    BY <2>3 DEF CookiesStay, HasCookie, Same, Active
  <2>5. \A s \in Req : Usable(r, s)'
    BY <1>1, <2>1, <2>2, <2>4, UsableStep
  <2>6. \A q \in Req : SawStays(q)
    BY <1>1, <2>1, <2>2, ObserveGrows
  <2> QED BY <1>1, <1>2, <2>2, <2>3, <2>4, <2>5, <2>6 DEF UInv
<1>4. CASE \E t \in Tui : TuiStep(t) /\ UNCHANGED <<now, requestVars, began>> /\ Observe
  <2>1. PICK t \in Tui : TuiStep(t) /\ UNCHANGED <<now, requestVars, began>> /\ Observe
    BY <1>4
  <2>2. Grows
    BY <1>1, <2>1, TerminalTypes
  <2>3. CookiesStay /\ \A q \in Req : Same(q)
    BY <2>1 DEF CookiesStay, HasCookie, Same, requestVars
  <2>4. \A q \in Req : SawStays(q)
    BY <1>1, <2>1, <2>2, ObserveGrows
  <2> QED BY <1>1, <1>2, <2>2, <2>3, <2>4 DEF UInv
<1>5. CASE SetClock \/ UNCHANGED vars
  <2>1. Grows /\ CookiesStay /\ \A q \in Req : Same(q) /\ SawStays(q)
    BY <1>1, <1>5 DEF SetClock, vars, Grows, CookiesStay, HasCookie, Same, SawStays, requestVars,
                      historyVars, TypeOK
  <2> QED BY <1>1, <1>2, <2>1 DEF UInv
<1> QED BY <1>3, <1>4, <1>5 DEF Next

\* Who was told 201 by signup can sign in with the same credentials and gets the same
\* account, unless a query fails, the account was disabled meanwhile, or signin judged by a
\* row whose name differs in case only, for every number of requests and terminals and every
\* case folding.
THEOREM AccountStaysUsable == Spec => []AccountUsable
<1>1. Init => UInv
  <2>1. ASSUME Init PROVE IInv /\ \A r, s \in Req : Usable(r, s)
    BY <2>1, Initially DEF Init, Usable
  <2> QED BY <2>1 DEF UInv
<1>2. UInv /\ [Next]_vars => UInv'
  BY UsableInductive
<1>3. UInv => AccountUsable
  <2> HAVE UInv
  <2> USE DEF AccountUsable
  <2> TAKE r, s \in Req
  <2> HAVE pc[r] = "Done" /\ cred[r] # NoCred /\ s \in uses[r]
  <2>1. Usable(r, s)
    BY DEF UInv
  <2> QED BY <2>1 DEF Usable
<1> QED BY <1>1, <1>2, <1>3, PTL DEF Spec

===============================================================================
