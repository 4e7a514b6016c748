---------------------------- MODULE Authentication ----------------------------
(*****************************************************************************)
(* NTLM and SPNEGO authentication, connection by connection:                 *)
(*   rdg_handler of crates/rdg-server/src/handlers/websocket.rs, which keeps *)
(*   the context of every challenge it sent in a store that all connections  *)
(*   share, keyed by the client's address, and upgrades to a WebSocket;      *)
(*   NegotiateAuthContext of crates/rdg-core/src/negotiate.rs with           *)
(*   NtlmAuthContext of auth.rs, which validates an answer against the users *)
(*   table.  No handler calls it: here it is driven the way its interface    *)
(*   says, one context per connection.  rdg_handler upgrades on any Type 3,  *)
(*   validated by nobody.                                                    *)
(* via says which of the two a connection goes through.                      *)
(*                                                                           *)
(* A challenge is a number, fresh each time (random in the code; 0 is none). *)
(* An NTLMv2 response is the record of what its two HMACs were computed from.*)
(* sent, seen and excuse are history.                                        *)
(*****************************************************************************)
EXTENDS Naturals

CONSTANTS Conn,        \* connections
          Address,     \* client addresses: pairs of a host and a port
          User,        \* rows of the users table, by name
          Name,        \* user names as clients type them
          nocase,      \* the form of a name under SQLite's NOCASE, which folds ASCII letters only
          Upper,       \* its Rust to_uppercase, which folds all letters
          Hash,        \* NT hashes
          HashOf,      \* the hash in each row
          Kerberos,    \* whether the feature kerberos is compiled in
          MaxRequests, \* bound: requests, all connections together
          MaxOpens     \* bound: connections opened

ASSUME NameAssumption == User \subseteq Name /\ DOMAIN nocase = Name /\ DOMAIN Upper = Name
ASSUME FoldAssumption == \A m, n \in Name : nocase[m] = nocase[n] => Upper[m] = Upper[n]
ASSUME HashAssumption == HashOf \in [User -> Hash] /\ Kerberos \in BOOLEAN
ASSUME AddressAssumption == \A a \in Address : a = <<a[1], a[2]>>

VARIABLES
    via,      \* "rdg_handler" or "context"
    addr,     \* the client's address
    step,     \* "Closed", "Idle", "Insert", "Remove", "Query", "Validate", "Upgraded"
    token,    \* the Type 3 token last given to the connection's NegotiateAuthContext
    ctx,      \* challenge of the NtlmAuthContext the connection's task holds, 0 without one
    row,      \* what get_user_by_username returned
    reply,    \* the last response or result
    store,    \* the challenge store: a challenge for each address, 0 for no entry
    enabled,  \* the users that are enabled
    issued,   \* challenges generated so far
    requests, opens,
    sent,     \* the challenge last sent on this connection and not yet answered
    seen,     \* the users of the name given that were enabled at some time during the request
    excuse    \* why the request may be refused: a query failed, or such a user was disabled

connVars == <<via, addr, step, token, ctx, row, reply, sent, seen, excuse>>
vars == <<connVars, store, enabled, issued, requests, opens>>

\* What an Authorization header can hold: nothing, a token that is not base64,
\* SPNEGO or AP-REQ, NTLM of another type, or neither; Type 1; and Type 3, with a
\* proof or malformed.
NoProof == [hash |-> CHOOSE h \in Hash : TRUE, identity |-> Upper[CHOOSE n \in Name : TRUE], challenge |-> 0]
Plain(kind) == [kind |-> kind, user |-> CHOOSE n \in Name : TRUE, proof |-> NoProof]
PlainKind == {"None", "BadBase64", "Kerberos", "NtlmOther", "Unknown", "Type1", "Malformed3"}
\* Mutant: the name is taken as it is written.
Identity_AsTyped(name) == name

\* The name that goes into the response key.
Identity(name) == Upper[name]

\* The tokens a client may send on c: a Type 3 answers the last challenge sent
\* there or an earlier one, under any name and with any password; what it takes for
\* the upper case of the name need not be what the gateway does.
TokensOn(c) ==
    {Plain(k) : k \in PlainKind} \cup
    {[kind |-> "Type3", user |-> n,
      proof |-> [hash |-> h, identity |-> i, challenge |-> ch]] :
        n \in Name, h \in Hash, i \in {Upper[m] : m \in Name}, ch \in {sent[c], 1}}

Init ==
    /\ via \in [Conn -> {"rdg_handler", "context"}]
    /\ addr = [c \in Conn |-> CHOOSE a \in Address : TRUE]
    /\ step = [c \in Conn |-> "Closed"]
    /\ token = [c \in Conn |-> Plain("None")]
    /\ ctx = [c \in Conn |-> 0] /\ sent = [c \in Conn |-> 0]
    /\ row = [c \in Conn |-> {}]
    /\ reply = [c \in Conn |-> "Nothing"]
    /\ seen = [c \in Conn |-> {}] /\ excuse = [c \in Conn |-> FALSE]
    /\ store = [a \in Address |-> 0]
    /\ enabled = User
    /\ issued = 0 /\ requests = 0 /\ opens = 0

-----------------------------------------------------------------------------
\* The response of a handler, or the result of process_token.
Respond(c, r) == reply' = [reply EXCEPT ![c] = r] /\ step' = [step EXCEPT ![c] = "Idle"]

Go(c, s) == step' = [step EXCEPT ![c] = s] /\ UNCHANGED reply

\* NtlmAuthContext::new generates the server challenge.
NewContext(c) == issued' = issued + 1 /\ ctx' = [ctx EXCEPT ![c] = issued + 1]

\* The users a typed name may find: the column is compared under NOCASE.
Matches(name) == {u \in User : nocase[u] = nocase[name]}

\* A request comes in; the token is kept where a later step needs it.
Receive(c, t) ==
    /\ step[c] = "Idle" /\ requests < MaxRequests
    /\ requests' = requests + 1
    /\ LET k == IF via[c] = "context" /\ t.kind = "Type3" THEN t ELSE Plain("None") IN
        /\ token' = [token EXCEPT ![c] = k]
        /\ seen' = [seen EXCEPT ![c] = Matches(k.user) \cap enabled]
        /\ excuse' = [excuse EXCEPT ![c] = ~(Matches(k.user) \subseteq enabled)]
    /\ UNCHANGED <<via, addr, row, store, enabled, opens>>

-----------------------------------------------------------------------------
(* rdg_handler.                                                              *)

\* Up to the lock of the store, or to a response that does not need it: 401
\* without a header, 400 for what is neither Type 1 nor Type 3.
RdgRequest(c, t) ==
    /\ via[c] = "rdg_handler"
    /\ Receive(c, t)
    /\ \/ t.kind = "None" /\ Respond(c, "Unauthorized") /\ UNCHANGED <<ctx, issued>>
       \/ t.kind = "Type1" /\ NewContext(c) /\ Go(c, "Insert")
       \/ t.kind \in {"Type3", "Malformed3"} /\ Go(c, "Remove") /\ UNCHANGED <<ctx, issued>>
       \/ /\ t.kind \in {"BadBase64", "Kerberos", "NtlmOther", "Unknown"}
          /\ Respond(c, "BadRequest") /\ UNCHANGED <<ctx, issued>>
    /\ UNCHANGED sent

\* Mutant: the store is keyed by the host alone.
StoreKey_Host(a) == CHOOSE b \in Address : b[1] = a[1]

\* The key of the challenge store: the SocketAddr.
StoreKey(a) == a

\* With the lock: the new context replaces what the address had; then the Type 2
\* is sent.
RdgInsert(c) ==
    /\ step[c] = "Insert"
    /\ store' = [store EXCEPT ![StoreKey(addr[c])] = ctx[c]]
    /\ sent' = [sent EXCEPT ![c] = ctx[c]]
    /\ ctx' = [ctx EXCEPT ![c] = 0]
    /\ Respond(c, "Challenge")
    /\ UNCHANGED <<via, addr, token, row, seen, excuse, enabled, issued, requests, opens>>

\* With the lock: the address's entry is removed.  Then do_websocket_upgrade: 101
\* and a session of its own, or 400 when an upgrade header is missing, the entry
\* being gone all the same.
RdgRemove(c) ==
    /\ step[c] = "Remove"
    /\ store' = [store EXCEPT ![StoreKey(addr[c])] = 0]
    /\ sent' = [sent EXCEPT ![c] = 0]
    /\ \/ reply' = [reply EXCEPT ![c] = "SwitchingProtocols"]
          /\ step' = [step EXCEPT ![c] = "Upgraded"]
       \/ Respond(c, "BadRequest")
    /\ UNCHANGED <<via, addr, token, ctx, row, seen, excuse, enabled, issued, requests, opens>>

RdgHandler(c) == (\E t \in TokensOn(c) : RdgRequest(c, t)) \/ RdgInsert(c) \/ RdgRemove(c)

-----------------------------------------------------------------------------
(* NegotiateAuthContext.                                                     *)

\* A Type 1 starts over: its challenge replaces the context's.
ContextType1(c) ==
    /\ NewContext(c)
    /\ sent' = [sent EXCEPT ![c] = issued + 1]
    /\ Respond(c, "Challenge")

\* process_token up to the query of process_authenticate.  A Type 3 needs a
\* context, and stays without effect on it.
ContextRequest(c, t) ==
    /\ via[c] = "context"
    /\ Receive(c, t)
    /\ \/ t.kind = "Type1" /\ ContextType1(c)
       \/ /\ t.kind = "Type3" /\ ctx[c] # 0
          /\ Go(c, "Query")
          /\ UNCHANGED <<ctx, issued, sent>>
       \/ /\ \/ t.kind \in {"Type3", "Malformed3"} /\ (ctx[c] = 0 \/ t.kind = "Malformed3")
             \/ t.kind \in {"None", "BadBase64", "NtlmOther", "Unknown"}
             \/ t.kind = "Kerberos" /\ ~Kerberos
          /\ Respond(c, "Err")
          /\ UNCHANGED <<ctx, issued, sent>>
       \/ /\ t.kind = "Kerberos" /\ Kerberos
          /\ \E r \in {"KerberosSuccess", "KerberosChallenge", "Err"} : Respond(c, r)
          /\ UNCHANGED <<ctx, issued, sent>>

\* get_user_by_username: fails, or finds one of the rows or none.
ContextQuery(c) ==
    /\ step[c] = "Query"
    /\ \/ /\ \E u \in Matches(token[c].user) :
               row' = [row EXCEPT ![c] = {[user |-> u, enabled |-> u \in enabled]}]
          /\ Go(c, "Validate") /\ UNCHANGED excuse
       \/ /\ Matches(token[c].user) = {}
          /\ Respond(c, "Err") /\ UNCHANGED <<row, excuse>>
       \/ /\ Respond(c, "Err") /\ UNCHANGED row
          /\ excuse' = [excuse EXCEPT ![c] = TRUE]
    /\ UNCHANGED <<via, addr, token, ctx, sent, seen, store, enabled, issued, requests, opens>>

\* validate_ntlmv2 with the row's hash and the context's challenge.
Validates(c, u) ==
    /\ token[c].proof.hash = HashOf[u]
    /\ token[c].proof.identity = Identity(token[c].user)
    /\ token[c].proof.challenge = ctx[c]

\* Mutant: the state of the row is not looked at.
ContextValidate_AnyState(c) ==
    /\ step[c] = "Validate"
    /\ \E r \in row[c] : Respond(c, IF Validates(c, r.user) THEN "Success" ELSE "Err")
    /\ row' = [row EXCEPT ![c] = {}]
    /\ UNCHANGED <<via, addr, token, ctx, sent, seen, excuse, store, enabled, issued, requests, opens>>

\* The rest of process_authenticate, on the row that was read.
ContextValidate(c) ==
    /\ step[c] = "Validate"
    /\ \E r \in row[c] :
         Respond(c, IF r.enabled /\ Validates(c, r.user) THEN "Success" ELSE "Err")
    /\ row' = [row EXCEPT ![c] = {}]
    /\ UNCHANGED <<via, addr, token, ctx, sent, seen, excuse, store, enabled, issued, requests, opens>>

Context(c) ==
    (\E t \in TokensOn(c) : ContextRequest(c, t)) \/ ContextQuery(c) \/ ContextValidate(c)

-----------------------------------------------------------------------------
(* Connections and the terminal (external).                                  *)

\* Open connections have different addresses; a closed one's may come back.
Open(c) ==
    /\ step[c] = "Closed" /\ opens < MaxOpens
    /\ \E a \in Address :
        /\ \A d \in Conn : step[d] # "Closed" => addr[d] # a
        /\ addr' = [addr EXCEPT ![c] = a]
    /\ step' = [step EXCEPT ![c] = "Idle"]
    /\ opens' = opens + 1
    /\ UNCHANGED <<via, token, ctx, row, reply, sent, seen, excuse, store, enabled, issued, requests>>

\* The connection ends; a handler under way is dropped where it waits.
Close(c) ==
    /\ step[c] # "Closed"
    /\ step' = [step EXCEPT ![c] = "Closed"]
    /\ ctx' = [ctx EXCEPT ![c] = 0] /\ sent' = [sent EXCEPT ![c] = 0]
    /\ token' = [token EXCEPT ![c] = Plain("None")] /\ row' = [row EXCEPT ![c] = {}]
    /\ reply' = [reply EXCEPT ![c] = "Nothing"]
    /\ UNCHANGED <<via, addr, seen, excuse, store, enabled, issued, requests, opens>>

Handling(c) == step[c] \in {"Query", "Validate"}

\* set_user_enabled, from a terminal.
Toggle(u) ==
    /\ enabled' = IF u \in enabled THEN enabled \ {u} ELSE enabled \cup {u}
    /\ seen' = [c \in Conn |-> IF Handling(c) THEN seen[c] \cup (Matches(token[c].user) \cap enabled')
                                               ELSE seen[c]]
    /\ excuse' = [c \in Conn |-> excuse[c] \/ (Handling(c) /\ ~(Matches(token[c].user) \subseteq enabled'))]
    /\ UNCHANGED <<via, addr, step, token, ctx, row, reply, sent, store, issued, requests, opens>>

\* All requests were made.
Terminated == requests = MaxRequests /\ UNCHANGED vars

Next ==
    \/ \E c \in Conn : RdgHandler(c) \/ Context(c) \/ Open(c) \/ Close(c)
    \/ \E u \in User : Toggle(u)
    \/ Terminated

Spec == Init /\ [][Next]_vars

-----------------------------------------------------------------------------
(* Properties.                                                               *)

\* As long as a connection has not answered the challenge it was sent, that very
\* challenge is in the store under its address, whatever other connections, in
\* parallel or earlier from the same address, have stored or removed: the Type 3
\* handler finds the context the client's answer was computed for.
OwnChallenge ==
    \A c \in Conn : via[c] = "rdg_handler" /\ step[c] # "Closed" /\ sent[c] # 0 =>
        store[addr[c]] = sent[c]

Succeeded(c) == reply[c] = "Success" /\ step[c] = "Idle"

\* process_token returns Success only for an answer to the challenge its context sent
\* last on this connection, under the password of an account the name stands for, and
\* only if that very account was enabled at some time while the request was handled.
\* (That is for a caller to come: rdg_handler asks nobody before it upgrades.)
AuthSound ==
    \A c \in Conn : Succeeded(c) =>
        /\ token[c].proof.challenge = sent[c] /\ sent[c] # 0
        /\ \E u \in Matches(token[c].user) \cap seen[c] : token[c].proof.hash = HashOf[u]

\* The accounts whose name is the one typed, but for the case of any of its letters.
Accounts(name) == {u \in User : Upper[u] = Upper[name]}

\* And process_token refuses no answer to that challenge that was computed with the
\* account's password and the upper case of its name, in whatever case the name was
\* typed, unless a row it may find was disabled at some time, the query failed, or the
\* name differs from every account's in the case of a letter outside ASCII: NOCASE then
\* finds no row, where validate_ntlmv2 would have accepted the answer.  Names of two
\* accounts may differ in case only; the password is that of both, or a refusal is due.
AuthComplete ==
    \A c \in Conn :
        (/\ via[c] = "context" /\ step[c] = "Idle" /\ reply[c] = "Err"
         /\ token[c].kind = "Type3" /\ sent[c] # 0 /\ token[c].proof.challenge = sent[c]
         /\ token[c].proof.identity = Upper[token[c].user]
         /\ \A u \in Accounts(token[c].user) : token[c].proof.hash = HashOf[u])
        => excuse[c] \/ \A u \in Accounts(token[c].user) : nocase[u] # nocase[token[c].user]

===============================================================================
