------------------------ MODULE Authentication_proofs -------------------------
(*****************************************************************************)
(* Proofs about Authentication, for any connections, addresses, accounts and *)
(* names, accounts whose names differ in case only included, and for any two *)
(* case foldings of which to_uppercase folds what NOCASE does.               *)
(*                                                                           *)
(* The invariant says what a connection's history, its task and the row the  *)
(* task has read agree on; the challenge store comes in with the fact that   *)
(* open connections have addresses of their own.                             *)
(*****************************************************************************)
EXTENDS Authentication, TLAPS

\* The variables are functions on the connections, and counters are numbers.
Shape ==
    /\ DOMAIN via = Conn /\ DOMAIN addr = Conn /\ DOMAIN step = Conn /\ DOMAIN token = Conn
    /\ DOMAIN row = Conn /\ DOMAIN reply = Conn /\ DOMAIN seen = Conn
    /\ ctx \in [Conn -> Nat] /\ sent \in [Conn -> Nat] /\ excuse \in [Conn -> BOOLEAN]
    /\ DOMAIN store = Address /\ issued \in Nat

\* What the history and the tasks of a connection agree on.
ConnInv(c) ==
    /\ step[c] \in {"Closed", "Idle", "Insert", "Remove", "Query", "Validate", "Upgraded"}
    /\ step[c] # "Closed" => addr[c] \in Address
    /\ step[c] = "Closed" => ctx[c] = 0 /\ sent[c] = 0 /\ reply[c] = "Nothing"
    /\ step[c] \in {"Insert", "Remove"} => via[c] = "rdg_handler"
    /\ Handling(c) => via[c] = "context" /\ ctx[c] # 0 /\ token[c].kind = "Type3"
    /\ via[c] = "context" => sent[c] = ctx[c]

\* Open connections have addresses of their own.
AddressInv == \A c, d \in Conn : step[c] # "Closed" /\ step[d] # "Closed" /\ addr[c] = addr[d] => c = d

\* What is known of the accounts of the name given while a request is handled, and of the row read.
QueryInv(c) ==
    /\ token[c].kind = "Type3" => token[c].user \in Name
    /\ Handling(c) => LET m == Matches(token[c].user) IN
         /\ m \cap enabled \subseteq seen[c]
         /\ m \subseteq enabled \/ excuse[c]
    /\ step[c] = "Validate" => \A r \in row[c] :
         /\ r.user \in Matches(token[c].user)
         /\ r.enabled => r.user \in seen[c]
         /\ r.enabled \/ excuse[c]

\* AuthSound and AuthComplete, connection by connection.
SoundAt(c) == Succeeded(c) =>
    /\ token[c].proof.challenge = sent[c] /\ sent[c] # 0
    /\ \E u \in Matches(token[c].user) \cap seen[c] : token[c].proof.hash = HashOf[u]

CompleteAt(c) ==
    (/\ via[c] = "context" /\ step[c] = "Idle" /\ reply[c] = "Err"
     /\ token[c].kind = "Type3" /\ sent[c] # 0 /\ token[c].proof.challenge = sent[c]
     /\ token[c].proof.identity = Upper[token[c].user]
     /\ \A u \in Accounts(token[c].user) : token[c].proof.hash = HashOf[u])
    => excuse[c] \/ \A u \in Accounts(token[c].user) : nocase[u] # nocase[token[c].user]

Known(c) == ConnInv(c) /\ QueryInv(c) /\ SoundAt(c) /\ CompleteAt(c)
IInv == Shape /\ AddressInv /\ OwnChallenge /\ \A c \in Conn : Known(c)

\* A step leaves connection d alone.
Same(d) ==
    /\ via'[d] = via[d] /\ addr'[d] = addr[d] /\ step'[d] = step[d] /\ token'[d] = token[d]
    /\ ctx'[d] = ctx[d] /\ row'[d] = row[d] /\ reply'[d] = reply[d] /\ sent'[d] = sent[d]
    /\ seen'[d] = seen[d] /\ excuse'[d] = excuse[d]

LEMMA SameKnown ==
    ASSUME NEW d \in Conn, Known(d), Same(d), UNCHANGED enabled
    PROVE  Known(d)'
<1>1. ConnInv(d)'
    BY DEF Known, Same, ConnInv, Handling
<1>2. QueryInv(d)'
    BY DEF Known, Same, QueryInv, Handling, Matches
<1>3. SoundAt(d)'
    BY DEF Known, Same, SoundAt, Succeeded, Matches
<1>4. CompleteAt(d)'
    BY DEF Known, Same, CompleteAt, Accounts
<1> QED BY <1>1, <1>2, <1>3, <1>4 DEF Known

\* A step of connection c: of the store it changes the entry of c's address only.
LEMMA OneConn ==
    ASSUME IInv, NEW c \in Conn, UNCHANGED enabled, Shape', Known(c)',
           \A d \in Conn \ {c} : Same(d),
           \A d \in Conn \ {c} : step'[c] # "Closed" /\ step[d] # "Closed" => addr'[c] # addr[d],
           store' = store \/ (step[c] # "Closed" /\ \A a \in Address \ {addr[c]} : store'[a] = store[a]),
           via'[c] = "rdg_handler" /\ step'[c] # "Closed" /\ sent'[c] # 0 => store'[addr'[c]] = sent'[c]
    PROVE  IInv'
<1>1. \A d \in Conn : Known(d)'
    BY SameKnown DEF IInv
<1>2. AddressInv'
    BY DEF IInv, AddressInv, Same
<1>3. ASSUME NEW d \in Conn, via'[d] = "rdg_handler", step'[d] # "Closed", sent'[d] # 0
      PROVE  store'[addr'[d]] = sent'[d]
    <2>1. CASE d = c
        BY <1>3, <2>1
    <2>2. CASE d # c
        <3>1. Same(d) /\ step[d] # "Closed" /\ addr[d] \in Address /\ store[addr[d]] = sent[d]
            BY <1>3, <2>2 DEF Same, IInv, Known, ConnInv, OwnChallenge
        <3>2. step[c] # "Closed" => addr[d] # addr[c]
            BY <2>2, <3>1 DEF IInv, AddressInv
        <3> QED BY <3>1, <3>2 DEF Same
    <2> QED BY <2>1, <2>2
<1> QED BY <1>1, <1>2, <1>3 DEF IInv, OwnChallenge

\* Initially every connection is closed.
LEMMA AuthInit == Init => IInv
<1> SUFFICES ASSUME Init PROVE IInv
    OBVIOUS
<1>1. Shape
    BY DEF Init, Shape
<1>2. AddressInv /\ OwnChallenge
    BY DEF Init, AddressInv, OwnChallenge
<1>3. ASSUME NEW c \in Conn PROVE Known(c)
    <2>1. /\ step[c] = "Closed" /\ ctx[c] = 0 /\ sent[c] = 0 /\ reply[c] = "Nothing" /\ token[c].kind = "None"
        BY DEF Init, Plain
    <2> QED BY <2>1 DEF Known, ConnInv, QueryInv, SoundAt, CompleteAt, Succeeded, Handling
<1> QED BY <1>1, <1>2, <1>3 DEF IInv

\* What a request brings: a Type 3 token is kept by a context, with the history of its accounts.
LEMMA Received ==
    ASSUME IInv, NEW c \in Conn, NEW t \in TokensOn(c), Receive(c, t)
    PROVE  /\ step[c] = "Idle" /\ addr'[c] = addr[c] /\ via'[c] = via[c] /\ UNCHANGED <<store, enabled>>
           /\ DOMAIN token' = Conn /\ DOMAIN seen' = Conn /\ excuse' \in [Conn -> BOOLEAN]
           /\ UNCHANGED <<via, addr, row>>
           /\ \A d \in Conn \ {c} : token'[d] = token[d] /\ seen'[d] = seen[d] /\ excuse'[d] = excuse[d]
           /\ token'[c].kind \in {"None", "Type3"}
           /\ token'[c].kind = "Type3" <=> via[c] = "context" /\ t.kind = "Type3"
           /\ token'[c].kind = "Type3" => token'[c].user \in Name
           /\ Matches(token'[c].user) \cap enabled \subseteq seen'[c]
           /\ Matches(token'[c].user) \subseteq enabled \/ excuse'[c]
<1> DEFINE k == IF via[c] = "context" /\ t.kind = "Type3" THEN t ELSE Plain("None")
<1>1. /\ step[c] = "Idle" /\ UNCHANGED <<via, addr, row, store, enabled>>
      /\ token' = [token EXCEPT ![c] = k]
      /\ seen' = [seen EXCEPT ![c] = Matches(k.user) \cap enabled]
      /\ excuse' = [excuse EXCEPT ![c] = ~(Matches(k.user) \subseteq enabled)]
    BY DEF Receive
<1>2. /\ k.kind \in {"None", "Type3"}
      /\ k.kind = "Type3" <=> via[c] = "context" /\ t.kind = "Type3"
    BY DEF Plain
<1>3. t.kind = "Type3" => t.user \in Name
    <2>1. CASE t \in {Plain(j) : j \in PlainKind}
        BY <2>1 DEF Plain, PlainKind
    <2>2. ASSUME NEW n \in Name, NEW h \in Hash, NEW i, NEW ch \in {sent[c], 1},
                 t = [kind |-> "Type3", user |-> n,
                      proof |-> [hash |-> h, identity |-> i, challenge |-> ch]]
          PROVE  t.user \in Name
        BY <2>2
    <2> QED BY <2>1, <2>2 DEF TokensOn
<1>4. k.kind = "Type3" => k.user \in Name
    BY <1>2, <1>3
<1> HIDE DEF k
<1>5. token'[c] = k /\ seen'[c] = Matches(k.user) \cap enabled /\ excuse'[c] = ~(Matches(k.user) \subseteq enabled)
    BY <1>1 DEF IInv, Shape
<1>6. /\ DOMAIN token' = Conn /\ DOMAIN seen' = Conn /\ excuse' \in [Conn -> BOOLEAN]
      /\ \A d \in Conn \ {c} : token'[d] = token[d] /\ seen'[d] = seen[d] /\ excuse'[d] = excuse[d]
    BY <1>1 DEF IInv, Shape
<1> QED BY <1>1, <1>2, <1>4, <1>5, <1>6

-----------------------------------------------------------------------------
(* rdg_handler.                                                              *)

\* A request up to the lock of the store.
LEMMA RdgRequestKeeps ==
    ASSUME IInv, NEW c \in Conn, NEW t \in TokensOn(c), RdgRequest(c, t)
    PROVE  IInv'
<1>1. via[c] = "rdg_handler" /\ Receive(c, t) /\ UNCHANGED sent
    BY DEF RdgRequest
<1>2. /\ step[c] = "Idle" /\ addr'[c] = addr[c] /\ via'[c] = via[c] /\ UNCHANGED <<store, enabled>>
      /\ DOMAIN token' = Conn /\ DOMAIN seen' = Conn /\ excuse' \in [Conn -> BOOLEAN]
      /\ UNCHANGED <<via, addr, row>>
      /\ \A d \in Conn \ {c} : token'[d] = token[d] /\ seen'[d] = seen[d] /\ excuse'[d] = excuse[d]
      /\ token'[c].kind # "Type3"
    BY <1>1, Received
<1>3. /\ DOMAIN step' = Conn /\ DOMAIN reply' = Conn
      /\ \A d \in Conn \ {c} : step'[d] = step[d] /\ reply'[d] = reply[d]
      /\ \/ step'[c] = "Idle" /\ reply'[c] \in {"Unauthorized", "BadRequest"}
         \/ step'[c] \in {"Insert", "Remove"}
    BY DEF RdgRequest, Respond, Go, IInv, Shape
<1>4. /\ issued' \in Nat /\ ctx' \in [Conn -> Nat] /\ \A d \in Conn \ {c} : ctx'[d] = ctx[d]
    BY DEF RdgRequest, NewContext, IInv, Shape
<1>5. Shape'
    BY <1>1, <1>2, <1>3, <1>4 DEF IInv, Shape
<1>6. \A d \in Conn \ {c} : Same(d)
    BY <1>1, <1>2, <1>3, <1>4 DEF Same
<1>7. ConnInv(c)'
    BY <1>1, <1>2, <1>3 DEF IInv, Known, ConnInv, Handling
<1>8. QueryInv(c)' /\ SoundAt(c)' /\ CompleteAt(c)'
    BY <1>1, <1>2, <1>3 DEF QueryInv, SoundAt, CompleteAt, Succeeded, Handling
<1>9. Known(c)'
    BY <1>7, <1>8 DEF Known
<1>10. \A d \in Conn \ {c} : step'[c] # "Closed" /\ step[d] # "Closed" => addr'[c] # addr[d]
    BY <1>2 DEF IInv, AddressInv
<1>11. via'[c] = "rdg_handler" /\ step'[c] # "Closed" /\ sent'[c] # 0 => store'[addr'[c]] = sent'[c]
    BY <1>1, <1>2 DEF IInv, OwnChallenge
<1> QED BY <1>2, <1>5, <1>6, <1>9, <1>10, <1>11, OneConn

\* With the lock: the entry of the connection's address becomes the challenge it is sent, or goes
\* with the answer to it.
LEMMA RdgStoreKeeps ==
    ASSUME IInv, NEW c \in Conn, RdgInsert(c) \/ RdgRemove(c)
    PROVE  IInv'
<1>1. via[c] = "rdg_handler" /\ addr[c] \in Address /\ step[c] \in {"Insert", "Remove"}
    BY DEF RdgInsert, RdgRemove, IInv, Known, ConnInv
<1>2. /\ UNCHANGED <<via, addr, token, row, seen, excuse, enabled, issued>>
      /\ DOMAIN step' = Conn /\ DOMAIN reply' = Conn
      /\ \A d \in Conn \ {c} : step'[d] = step[d] /\ reply'[d] = reply[d]
      /\ step'[c] \in {"Idle", "Upgraded"} /\ reply'[c] # "Success"
    BY DEF RdgInsert, RdgRemove, Respond, IInv, Shape
<1>3. \E n \in Nat : store' = [store EXCEPT ![addr[c]] = n] /\ sent' = [sent EXCEPT ![c] = n]
    BY DEF RdgInsert, RdgRemove, StoreKey, IInv, Shape
<1>4. ctx' \in [Conn -> Nat] /\ \A d \in Conn \ {c} : ctx'[d] = ctx[d]
    BY DEF RdgInsert, RdgRemove, IInv, Shape
<1>5. /\ DOMAIN store' = Address /\ sent' \in [Conn -> Nat] /\ store'[addr[c]] = sent'[c]
      /\ \A a \in Address \ {addr[c]} : store'[a] = store[a]
      /\ \A d \in Conn \ {c} : sent'[d] = sent[d]
    BY <1>1, <1>3 DEF IInv, Shape
<1>6. Shape'
    BY <1>2, <1>4, <1>5 DEF IInv, Shape
<1>7. \A d \in Conn \ {c} : Same(d)
    BY <1>2, <1>4, <1>5 DEF Same
<1>8. Known(c)'
    <2>1. ConnInv(c)'
        BY <1>1, <1>2 DEF ConnInv, Handling
    <2>2. QueryInv(c)'
        BY <1>2 DEF IInv, Known, QueryInv, Handling
    <2>3. SoundAt(c)' /\ CompleteAt(c)'
        BY <1>1, <1>2 DEF SoundAt, CompleteAt, Succeeded
    <2> QED BY <2>1, <2>2, <2>3 DEF Known
<1>9. \A d \in Conn \ {c} : step'[c] # "Closed" /\ step[d] # "Closed" => addr'[c] # addr[d]
    BY <1>1, <1>2 DEF IInv, AddressInv
<1> QED BY <1>1, <1>2, <1>5, <1>6, <1>7, <1>8, <1>9, OneConn

-----------------------------------------------------------------------------
(* NegotiateAuthContext.                                                     *)

\* A step of a context changes no address and no store entry.
LEMMA ContextStep ==
    ASSUME IInv, NEW c \in Conn, via[c] = "context", step[c] # "Closed",
           UNCHANGED <<via, addr, store, enabled>>, Shape', Known(c)', \A d \in Conn \ {c} : Same(d)
    PROVE  IInv'
<1>1. \A d \in Conn \ {c} : step'[c] # "Closed" /\ step[d] # "Closed" => addr'[c] # addr[d]
    BY DEF IInv, AddressInv
<1> QED BY <1>1, OneConn

\* process_token up to the query.
LEMMA ContextRequestKeeps ==
    ASSUME IInv, NEW c \in Conn, NEW t \in TokensOn(c), ContextRequest(c, t)
    PROVE  IInv'
<1>1. via[c] = "context" /\ Receive(c, t) /\ sent[c] = ctx[c]
    BY DEF ContextRequest, IInv, Known, ConnInv
<1>2. /\ step[c] = "Idle" /\ UNCHANGED <<store, enabled>>
      /\ DOMAIN token' = Conn /\ DOMAIN seen' = Conn /\ excuse' \in [Conn -> BOOLEAN]
      /\ UNCHANGED <<via, addr, row>>
      /\ \A d \in Conn \ {c} : token'[d] = token[d] /\ seen'[d] = seen[d] /\ excuse'[d] = excuse[d]
      /\ token'[c].kind = "Type3" <=> t.kind = "Type3"
      /\ token'[c].kind = "Type3" => token'[c].user \in Name
      /\ Matches(token'[c].user) \cap enabled \subseteq seen'[c]
      /\ Matches(token'[c].user) \subseteq enabled \/ excuse'[c]
    BY <1>1, Received
<1>3. /\ DOMAIN step' = Conn /\ DOMAIN reply' = Conn
      /\ \A d \in Conn \ {c} : step'[d] = step[d] /\ reply'[d] = reply[d]
      /\ \/ step'[c] = "Idle" /\ reply'[c] # "Success" /\ (reply'[c] = "Err" => ctx'[c] = 0 \/ t.kind # "Type3")
         \/ step'[c] = "Query" /\ ctx'[c] # 0 /\ t.kind = "Type3"
    BY DEF ContextRequest, ContextType1, Respond, Go, IInv, Shape
<1>4. /\ issued' \in Nat /\ ctx' \in [Conn -> Nat] /\ sent' \in [Conn -> Nat]
      /\ \A d \in Conn \ {c} : ctx'[d] = ctx[d] /\ sent'[d] = sent[d]
      /\ sent'[c] = ctx'[c]
    BY <1>1 DEF ContextRequest, ContextType1, NewContext, IInv, Shape
<1>5. Shape'
    BY <1>2, <1>3, <1>4 DEF IInv, Shape
<1>6. \A d \in Conn \ {c} : Same(d)
    BY <1>2, <1>3, <1>4 DEF Same
<1>7. ConnInv(c)'
    BY <1>1, <1>2, <1>3, <1>4 DEF IInv, Known, ConnInv, Handling
<1>8. QueryInv(c)'
    BY <1>2, <1>3 DEF QueryInv, Matches
<1>9. SoundAt(c)'
    BY <1>3 DEF SoundAt, Succeeded
<1>10. CompleteAt(c)'
    BY <1>2, <1>3, <1>4 DEF CompleteAt
<1>11. Known(c)'
    BY <1>7, <1>8, <1>9, <1>10 DEF Known
<1> QED BY <1>1, <1>2, <1>5, <1>6, <1>11, ContextStep

\* get_user_by_username.
LEMMA ContextQueryKeeps ==
    ASSUME IInv, NEW c \in Conn, ContextQuery(c)
    PROVE  IInv'
<1>0. /\ step[c] = "Query" /\ UNCHANGED <<via, addr, token, ctx, sent, seen, store, enabled, issued>>
    BY DEF ContextQuery
<1>1. /\ via[c] = "context" /\ sent[c] = ctx[c] /\ ctx[c] # 0 /\ addr[c] \in Address /\ token[c].kind = "Type3"
      /\ QueryInv(c) /\ Handling(c)
      /\ Matches(token[c].user) \cap enabled \subseteq seen[c]
      /\ Matches(token[c].user) \subseteq enabled \/ excuse[c]
    BY <1>0 DEF IInv, Known, ConnInv, QueryInv, Handling
<1>2. /\ DOMAIN step' = Conn /\ DOMAIN reply' = Conn /\ DOMAIN row' = Conn /\ excuse' \in [Conn -> BOOLEAN]
      /\ \A d \in Conn \ {c} : /\ step'[d] = step[d] /\ reply'[d] = reply[d] /\ row'[d] = row[d]
                               /\ excuse'[d] = excuse[d]
    BY DEF ContextQuery, Respond, Go, IInv, Shape
<1>3. Shape' /\ \A d \in Conn \ {c} : Same(d)
    BY <1>0, <1>2 DEF IInv, Shape, Same
<1>4. ASSUME NEW u \in Matches(token[c].user), step'[c] = "Validate", UNCHANGED excuse,
             row'[c] = {[user |-> u, enabled |-> u \in enabled]}
      PROVE  Known(c)'
    <2>1. ConnInv(c)'
        BY <1>0, <1>1, <1>4 DEF ConnInv, Handling
    <2>2. \A r \in row'[c] : /\ r.user \in Matches(token[c].user)
                             /\ r.enabled => r.user \in seen[c]
                             /\ r.enabled \/ excuse[c]
        <3>1. ASSUME NEW r \in row'[c] PROVE r.user = u /\ (r.enabled <=> u \in enabled)
            <4> DEFINE b == u \in enabled
            <4>1. row'[c] = {[user |-> u, enabled |-> b]} /\ b \in BOOLEAN
                BY <1>4
            <4> HIDE DEF b
            <4>2. r.user = u /\ r.enabled = b
                BY <3>1, <4>1
            <4> QED BY <4>2 DEF b
        <3> QED BY <1>1, <1>4, <3>1
    <2>3. QueryInv(c)'
        BY <1>0, <1>1, <1>4, <2>2 DEF QueryInv, Matches, Handling
    <2>4. SoundAt(c)' /\ CompleteAt(c)'
        BY <1>4 DEF SoundAt, CompleteAt, Succeeded
    <2> QED BY <2>1, <2>3, <2>4 DEF Known
<1>5. ASSUME step'[c] = "Idle", reply'[c] = "Err", Matches(token[c].user) = {} \/ excuse'[c]
      PROVE  Known(c)'
    <2>1. ConnInv(c)'
        BY <1>0, <1>1, <1>5 DEF ConnInv, Handling
    <2>2. QueryInv(c)'
        BY <1>0, <1>1, <1>5 DEF QueryInv, Handling
    <2>3. SoundAt(c)' /\ CompleteAt(c)'
        BY <1>0, <1>5 DEF SoundAt, CompleteAt, Succeeded, Matches, Accounts
    <2> QED BY <2>1, <2>2, <2>3 DEF Known
<1>6. Known(c)'
    <2>1. CASE \E u \in Matches(token[c].user) :
                  /\ row' = [row EXCEPT ![c] = {[user |-> u, enabled |-> u \in enabled]}]
                  /\ Go(c, "Validate") /\ UNCHANGED excuse
        <3>1. PICK u \in Matches(token[c].user) :
                  /\ row' = [row EXCEPT ![c] = {[user |-> u, enabled |-> u \in enabled]}]
                  /\ Go(c, "Validate") /\ UNCHANGED excuse
            BY <2>1
        <3>2. row'[c] = {[user |-> u, enabled |-> u \in enabled]} /\ step'[c] = "Validate"
            BY <3>1 DEF Go, IInv, Shape
        <3> QED BY <1>4, <3>1, <3>2
    <2>2. CASE Respond(c, "Err") /\ (Matches(token[c].user) = {} \/ excuse' = [excuse EXCEPT ![c] = TRUE])
        <3>1. step'[c] = "Idle" /\ reply'[c] = "Err" /\ (Matches(token[c].user) = {} \/ excuse'[c])
            BY <2>2 DEF Respond, IInv, Shape
        <3> QED BY <1>5, <3>1
    <2> QED BY <2>1, <2>2 DEF ContextQuery
<1> QED BY <1>0, <1>1, <1>3, <1>6, ContextStep

\* The rest of process_authenticate.
LEMMA ContextValidateKeeps ==
    ASSUME IInv, NEW c \in Conn, ContextValidate(c)
    PROVE  IInv'
<1>0. /\ step[c] = "Validate"
      /\ UNCHANGED <<via, addr, token, ctx, sent, seen, excuse, store, enabled, issued>>
      /\ row' = [row EXCEPT ![c] = {}]
    BY DEF ContextValidate
<1>1. /\ via[c] = "context" /\ sent[c] = ctx[c] /\ ctx[c] # 0 /\ addr[c] \in Address /\ token[c].kind = "Type3"
      /\ QueryInv(c) /\ token[c].user \in Name
    BY <1>0 DEF IInv, Known, ConnInv, QueryInv, Handling
<1>2. PICK r \in row[c] : Respond(c, IF r.enabled /\ Validates(c, r.user) THEN "Success" ELSE "Err")
    BY DEF ContextValidate
<1>3. /\ r.user \in Matches(token[c].user)
      /\ r.enabled => r.user \in seen[c]
      /\ r.enabled \/ excuse[c]
    BY <1>0, <1>1 DEF QueryInv
<1>4. /\ DOMAIN step' = Conn /\ DOMAIN reply' = Conn /\ DOMAIN row' = Conn
      /\ step'[c] = "Idle"
      /\ reply'[c] = IF r.enabled /\ Validates(c, r.user) THEN "Success" ELSE "Err"
      /\ \A d \in Conn \ {c} : step'[d] = step[d] /\ reply'[d] = reply[d] /\ row'[d] = row[d]
    BY <1>0, <1>2 DEF Respond, IInv, Shape
<1>5. Shape' /\ \A d \in Conn \ {c} : Same(d)
    BY <1>0, <1>4 DEF IInv, Shape, Same
<1>6. ConnInv(c)' /\ QueryInv(c)'
    BY <1>0, <1>1, <1>4 DEF ConnInv, QueryInv, Handling
<1>7. SoundAt(c)'
    BY <1>0, <1>1, <1>3, <1>4 DEF SoundAt, Succeeded, Validates, Matches
<1>8. CompleteAt(c)'
    <2>1. r.user \in Accounts(token[c].user)
        BY <1>1, <1>3, NameAssumption, FoldAssumption DEF Matches, Accounts
    <2> QED BY <1>0, <1>1, <1>3, <1>4, <2>1 DEF CompleteAt, Validates, Identity, Accounts
<1>9. Known(c)'
    BY <1>6, <1>7, <1>8 DEF Known
<1> QED BY <1>0, <1>1, <1>5, <1>9, ContextStep

-----------------------------------------------------------------------------
(* Connections and the terminal.                                             *)

\* A new connection has no challenge to answer, whatever the store still holds for its address.
LEMMA OpenKeeps ==
    ASSUME IInv, NEW c \in Conn, Open(c)
    PROVE  IInv'
<1>1. PICK a \in Address : /\ \A d \in Conn : step[d] # "Closed" => addr[d] # a
                           /\ addr' = [addr EXCEPT ![c] = a]
    BY DEF Open
<1>2. /\ step[c] = "Closed" /\ step' = [step EXCEPT ![c] = "Idle"]
      /\ UNCHANGED <<via, token, ctx, row, reply, sent, seen, excuse, store, enabled, issued>>
    BY DEF Open
<1>3. ctx[c] = 0 /\ sent[c] = 0 /\ reply[c] = "Nothing" /\ QueryInv(c)
    BY <1>2 DEF IInv, Known, ConnInv
<1>4. /\ DOMAIN addr' = Conn /\ DOMAIN step' = Conn /\ addr'[c] = a /\ step'[c] = "Idle"
      /\ \A d \in Conn \ {c} : addr'[d] = addr[d] /\ step'[d] = step[d]
    BY <1>1, <1>2 DEF IInv, Shape
<1>5. Shape' /\ \A d \in Conn \ {c} : Same(d)
    BY <1>2, <1>4 DEF IInv, Shape, Same
<1>6. Known(c)'
    BY <1>2, <1>3, <1>4 DEF Known, ConnInv, QueryInv, SoundAt, CompleteAt, Succeeded, Handling
<1> QED BY <1>1, <1>2, <1>3, <1>4, <1>5, <1>6, OneConn

\* A connection that ends leaves its entry in the store.
LEMMA CloseKeeps ==
    ASSUME IInv, NEW c \in Conn, Close(c)
    PROVE  IInv'
<1>1. UNCHANGED <<via, addr, seen, excuse, store, enabled, issued>>
    BY DEF Close
<1>2. /\ DOMAIN step' = Conn /\ DOMAIN reply' = Conn /\ DOMAIN row' = Conn /\ DOMAIN token' = Conn
      /\ ctx' \in [Conn -> Nat] /\ sent' \in [Conn -> Nat]
      /\ step'[c] = "Closed" /\ ctx'[c] = 0 /\ sent'[c] = 0 /\ reply'[c] = "Nothing"
      /\ token'[c].kind # "Type3"
      /\ \A d \in Conn \ {c} : /\ step'[d] = step[d] /\ reply'[d] = reply[d] /\ row'[d] = row[d]
                               /\ token'[d] = token[d] /\ ctx'[d] = ctx[d] /\ sent'[d] = sent[d]
    BY DEF Close, IInv, Shape, Plain
<1>3. Shape' /\ \A d \in Conn \ {c} : Same(d)
    BY <1>1, <1>2 DEF IInv, Shape, Same
<1>4. Known(c)'
    BY <1>2 DEF Known, ConnInv, QueryInv, SoundAt, CompleteAt, Succeeded, Handling
<1> QED BY <1>1, <1>2, <1>3, <1>4, OneConn

\* An account is disabled or enabled while requests are handled.
LEMMA ToggleKeeps ==
    ASSUME IInv, NEW u \in User, Toggle(u)
    PROVE  IInv'
<1>1. UNCHANGED <<via, addr, step, token, ctx, row, reply, sent, store, issued>>
    BY DEF Toggle
<1>2. /\ DOMAIN seen' = Conn /\ excuse' \in [Conn -> BOOLEAN]
      /\ \A c \in Conn : /\ seen[c] \subseteq seen'[c] /\ (excuse[c] => excuse'[c])
                         /\ Handling(c) => /\ Matches(token[c].user) \cap enabled' \subseteq seen'[c]
                                           /\ Matches(token[c].user) \subseteq enabled' \/ excuse'[c]
    BY DEF Toggle, IInv, Shape
<1>3. Shape'
    BY <1>1, <1>2 DEF IInv, Shape
<1>4. AddressInv' /\ OwnChallenge'
    BY <1>1 DEF IInv, AddressInv, OwnChallenge
<1>5. ASSUME NEW c \in Conn PROVE Known(c)'
    <2>1. ConnInv(c) /\ QueryInv(c) /\ SoundAt(c) /\ CompleteAt(c)
        BY DEF IInv, Known
    <2>2. ConnInv(c)'
        BY <1>1, <2>1 DEF ConnInv, Handling
    <2>3. QueryInv(c)'
        BY <1>1, <1>2, <2>1 DEF QueryInv, Handling, Matches
    <2>4. SoundAt(c)'
        BY <1>1, <1>2, <2>1 DEF SoundAt, Succeeded, Matches
    <2>5. CompleteAt(c)'
        BY <1>1, <1>2, <2>1 DEF CompleteAt, Accounts
    <2> QED BY <2>2, <2>3, <2>4, <2>5 DEF Known
<1> QED BY <1>3, <1>4, <1>5 DEF IInv

\* Every step keeps the invariant.
LEMMA AuthNext == IInv /\ [Next]_vars => IInv'
<1> SUFFICES ASSUME IInv, [Next]_vars PROVE IInv'
    OBVIOUS
<1>1. CASE UNCHANGED vars
    <2>1. UNCHANGED <<store, issued>> /\ UNCHANGED enabled /\ UNCHANGED connVars
        BY <1>1 DEF vars
    <2>2. \A c \in Conn : Known(c)'
        BY <2>1, SameKnown DEF connVars, Same, IInv
    <2>3. Shape' /\ AddressInv' /\ OwnChallenge'
        BY <2>1 DEF connVars, IInv, Shape, AddressInv, OwnChallenge
    <2> QED BY <2>2, <2>3 DEF IInv
<1>2. ASSUME NEW c \in Conn, RdgHandler(c) \/ Context(c) \/ Open(c) \/ Close(c)
      PROVE  IInv'
    BY <1>2, RdgRequestKeeps, RdgStoreKeeps, ContextRequestKeeps, ContextQueryKeeps, ContextValidateKeeps,
       OpenKeeps, CloseKeeps DEF RdgHandler, Context
<1> QED BY <1>1, <1>2, ToggleKeeps DEF Next, Terminated

-----------------------------------------------------------------------------
(* The theorems.                                                             *)

\* What connections, store and accounts agree on in every reachable state.
THEOREM AuthInvariant == Spec => []IInv
BY AuthInit, AuthNext, PTL DEF Spec

\* OwnChallenge for any number of connections and addresses: the store that all connections share
\* never mixes up their challenges, because its key is the whole address.
THEOREM ChallengeSafety == Spec => []OwnChallenge
<1>1. IInv => OwnChallenge
    BY DEF IInv
<1> QED BY <1>1, AuthInvariant, PTL

\* AuthSound for any connections, accounts, passwords and foldings: process_token says Success
\* only for the answer to its own challenge under the password of an account of that name, enabled
\* while it was checked.  It says nothing of rdg_handler, which does not ask process_token.
THEOREM SoundnessSafety == Spec => []AuthSound
<1>1. IInv => AuthSound
    BY DEF IInv, Known, SoundAt, AuthSound
<1> QED BY <1>1, AuthInvariant, PTL

\* AuthComplete for any accounts, passwords and foldings: process_token refuses no right answer
\* unless the account was disabled, the query failed, or NOCASE did not find the name.
THEOREM CompletenessSafety == Spec => []AuthComplete
<1>1. IInv => AuthComplete
    BY DEF IInv, Known, CompleteAt, AuthComplete
<1> QED BY <1>1, AuthInvariant, PTL

===============================================================================
