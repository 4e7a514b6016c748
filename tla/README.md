# A TLA+ verification of the RD gateway

The repository is a Remote Desktop gateway in Rust. A client opens an HTTPS
connection, authenticates, negotiates a tunnel and a channel with the gateway
(the TSG protocol), and from then on the gateway relays bytes between the client
and an RDP host. Two transports carry this: WebSocket, and RPC over HTTP (two
HTTP requests, IN and OUT, that together form one connection). Around it are user
accounts, a web UI with a Guacamole proxy, a terminal UI, an access control
engine and a SQLite database.

This directory models the parts that keep protocol or persistent state, checks
them with TLC on small instances, and proves the central properties with TLAPS
for all values of the constants. `PROJECT.json` maps each definition to the
lines it models and lists the runs, mutants, hazards and theorems.

## 1. The system

| component | state | operations | interacts with |
|---|---|---|---|
| TSG session (`rdg-core/src/session.rs`) | state, tunnel and channel id, id counters, client name, target | `process_message` | driven by both transports |
| WebSocket session (`handlers/websocket.rs`) | the session task, two relay tasks, the bounded `ctrl` channel, `skip_next_data` | handshake loop, backend connect, relay, close | client socket, backend socket |
| RPC over HTTP (`handlers/rpch.rs`) | map `pending` under a tokio `Mutex`, per request: body buffer, `out_tx`, virtual connection, session | OUT request, IN request, PDU loop, TSG opnums | clients' two requests meet in `pending` |
| Virtual connection (`rdg-proto/src/rpch.rs`) | state, cookies, call ids | `accept_out_channel`, `accept_in_channel`, `enter_data_transfer` | moved from OUT to IN handler through `pending` |
| Certificate persistence (`main.rs`) | `gateway.crt`, `gateway.key`, the newest row of `certificates` | start of the gateway | file system and database, over crashes |
| NTLM/SPNEGO authentication (`handlers/websocket.rs`, `auth.rs`, `negotiate.rs`) | challenge store keyed by peer address, contexts with their challenge | Type1, Type3, Negotiate tokens, upgrade | before the WebSocket; reads `users` |
| Wire formats (`messages.rs`, `rpc.rs`, `rpch.rs`, `ntlm.rs` of `rdg-proto`) | none | write, parse | both transports, authentication |
| Accounts and cookies (`handlers/auth.rs`) | `users` table, signed cookies | signup, signin, signout, me | web UI; terminal UIs change the same table |
| Web UI connections (`handlers/webui.rs`) | `connections` table | list, create, update, delete, RDP file | accounts, browser client |
| Browser client (`webui/src`) | grid, form, cards, calls under way | clicks, responses | web UI handlers |
| Access control (`acl.rs`) | sorted rules | `evaluate_acl`, `reload` | terminal UI edits the rules; no handler evaluates them |
| Guacamole proxy (`handlers/guacamole.rs`) | the handler, two proxy tasks | handshake, relay | browser, guacd |
| Terminal UI (`tui/`) | tab, selection, lists read earlier, dialogs, TLS settings | keys | tables, configuration file |
| SQLite provider (`db/sqlite.rs`) | the tables | queries | everything above |

What is hard here:

* the session task hands the sockets over to two relay tasks that share one sink
  through a bounded channel; either peer may stall, close or break at any await;
* the IN and OUT requests of one connection are two independent HTTP handlers;
  they, and the requests of other clients with the same cookie, meet in any
  order, and each may vanish alone;
* HTTP body frames do not match RPC PDUs;
* a crash between the two file writes and the database insert of a certificate;
* requests to the web portal, and terminal UIs in processes of their own, check one
  query's result and act on it in another;
* the terminal UI and the browser act on lists they read earlier, while others
  change the tables; in the browser, calls overlap and their answers come late;
* connections come and go behind the same address and share one challenge store;
* the proxy's `select!` waits for one task and leaves the other running;
* every parser checks lengths by hand before a group of reads that panics without.

What makes it correct: a backend is reached only through the whole handshake;
each direction of the relay neither loses, repeats nor reorders; control replies
answer what was asked; nothing follows a close and a close gets through; an OUT
response belongs to one IN request; its stream is complete and in order; a
channel is granted only after tunnel and authorisation; what a start serves is
one whole certificate for the names it wants; a name has one account, whoever was
given an account can use it, and a cookie stands for the account it was given for;
an answer is judged against the challenge its own connection was sent; a terminal
or a browser changes the row the user has chosen and no other; what one side writes
the other reads, and no damaged or cut buffer makes a parser read past its end; the
rule engine decides as its rules say.

## 2. Modules

| module | models |
|---|---|
| `GatewaySession` | `GatewaySession` and `process_message`, as operators |
| `WsSession` | `handle_ws_session_tungstenite`, with client and backend as environment |
| `MCWsSession` | the sets of client frames for the runs |
| `VirtualConnection` | `VirtualConnection`, as operators |
| `RpchGateway` | `handle_out_channel`, `handle_in_channel`, `process_rpc_pdus_streaming`, `process_tsg_opnum`, `RpchState` |
| `MCRpchGateway` | the sets of PDUs for the runs |
| `GatewayCert` | `load_or_generate_cert`, `build_tls_config`, the `certificates` table |
| `Accounts` | `signup`, `signin`, `me` and the cookie of `handlers/auth.rs`, the `users` table, the terminal UI's actions on users |
| `MCAccounts` | the NOCASE form of names and the credentials for the run |
| `Tunnel` | the abstract specification of a relayed session, which `WsSession` implements |
| `OutStreams` | the abstract specification of paired requests, which `RpchGateway` implements |
| `Authentication` | `rdg_handler` up to the upgrade, the challenge store, `NegotiateAuthContext`, `NtlmAuthContext` |
| `MCAuthentication` | addresses, names and password hashes for the run |
| `GuacProxy`, `MCGuacProxy` | `guac_ws_handler`, `guac_proxy` and its tasks, with browser and guacd as environment |
| `TuiApp` | `App` of `tui/app.rs`: every key in every mode, with its queries |
| `MCTuiApp` | the first rows and what can be typed for the run |
| `WebUi` | the connection handlers of `handlers/webui.rs` over their table, as operators |
| `Portal`, `MCPortal` | one browser tab on top of `WebUi`, and others who change the same connections |
| `Wire` | reading and writing of bytes: `put_*`, `get_*`, length checks, panics, UTF-16 |
| `TsgWire`, `RpcWire`, `NtlmWire` | write and parse of the TSG messages, of the DCE/RPC and RTS PDUs, of the NTLM messages |
| `Acl` | `glob_matches`, `host_matches`, `rule_matches`, `evaluate_acl` and the sort of `acl.rs` |
| `Pure`, `MCPure` | calls of the wire modules and of `Acl` on bounded inputs, with reference definitions |
| `*_proofs` | theorems about the module they are named after |

`WsSession` and `RpchGateway` both extend `GatewaySession`, as both handlers own
one; `RpchGateway` also extends `VirtualConnection`. `Portal` extends `WebUi`, as the
tab's calls are handled there. `Pure` extends the wire modules and `Acl`.

### WsSession

Three processes as in the code: the session task (`pc`), `ws_to_tcp` (`w2t`) and
`tcp_to_ws` (`t2w`). Each await at which a task can be held up is a state: the
read of a frame, `ws_sink.send`, `TcpStream::connect`, `write_all`,
`ctrl_tx.send`, `select!`, `ws_sink.close`, `join!`. What runs between two awaits
is one action. What a task carries over an await is in `hand`, `w2tHand`,
`t2wHand`. Socket buffers are bounded by `WireCap`: a send waits while the peer
does not read. A frame is its message type and the part of the content the code
looks at: whether a body parses is one of the types (`Malformed`), the two bytes
of `cbDataLength` are two elements of `data`, and a backend byte is its offset in
the backend's stream. A frame on `toClient` or `toBackend` is tagged (`src`) with
the client frame that caused it; `got` records what was read since the relay was
asked for. The tags and `got` are history variables.

A WebSocket whose peer sent Close refuses further sends (`PeerClosed`), a broken
one fails them, a backend that was reset fails reads and writes.

`Tunnel` says what this amounts to without tasks, queues or sockets: the first Data
opens it, each direction takes a piece only when the one before has been delivered,
requests are answered in order and once, and when the session is over nothing moves.
`Relayed` maps it: what was given is the forwardable part of `got`, what was
delivered is `toBackend`, the bytes taken and shown are `downRead` and the largest
offset in `toClient`, a request is the number of a control frame read, and an answer is
the pair of its place in `toClient` and the request it is tagged with, so that a second
answer to one request, or one that overtakes another, would show. `ImplementsTunnel` is
`Relayed!Spec`.

### RpchGateway

Any number of OUT and IN requests with any cookies. `pending` is a function on
the cookies in use; inserting replaces, and so drops, the entry and its sender.
An OUT response ends when its channel is empty and no sender is left
(`HasSender`). A body is a sequence of PDUs, each cut into three units (part of
the header, the header, the whole PDU); a frame brings any number of units, and
the handler acts on what is in its buffer exactly where the code's length checks
let it. That makes the mismatch of frames and PDUs visible with three units a
PDU. The lock is held for single insertions and removals only, so these are
atomic. A handler may be dropped by the server at any await (`InDrop`), a
response body by its client (`OutDisconnect`).

The branch of `InFirst` in which `accept_in_channel` refuses what the map held
cannot be reached: an entry is always waiting for its IN channel and is looked up
by the cookie it stores (`ConnInv`, section 4).

`OutStreams` says what this amounts to without frames, buffers, virtual connections
or sessions: an OUT response waits under its cookie until one IN request takes it or a
later one replaces it; then it carries a greeting and the answers to the calls of that
IN request, the first of which, and no other, binds, while the grants of tunnel,
authorisation and channel come in this order; one answer is owed at a time and none is
passed over, unless the IN request stops; and the response is complete when nobody can
write to it and all was shown. `ImplementsOutStreams` is the refinement. It says more
than the invariants: a second BindAck in one stream, or a step that both takes a PDU and
writes, would show.

### GatewayCert

A start is a sequence of steps (look, generate, write certificate, write key,
save row, build); the process may die between any two and inside a write, which
truncates the file first (`Torn`). Every query and write may fail, in every
combination. The names a start wants come from the configuration and the host's
interfaces; they may change while the gateway is down, and change back. Two history
variables mark the one situation in which the row says something else than the files:
`behind`, the files were opened for writing after the newest row was saved, and `doubted`,
the names that were given up once or whose row a start did not see. `CertificateFits`
says what holds always and what holds outside that situation.

### Accounts

Any number of requests and terminal UIs over one table. A query is one step, what a
request does between two queries is part of one of them, and a query may fail. The
table is a sequence, as ids are handed out in order and no row is deleted. A row keeps
the password its `password_hash` was made from, or 0 when it has none (users added in
a terminal); verifying a hash is comparing passwords. A cookie is the answer that set
it (user id and time): only the gateway can sign one. `uses` says whose account or
cookie a client uses, so that a later request can be compared with the earlier one;
`saw` and `began` are history variables: what the table said of the accounts of a
signin's name while it was under way, and the clock when `me` was asked. Names are
compared as the code does it: `nocase` in lookups, bytewise by the UNIQUE column, so that
two rows may differ in case only; `Twins` and `JudgedBy` say what a signin may then
answer. The clock may be set back. A client may leave at any await; an INSERT under way may then still be
carried out (`Drop`).

### Authentication

A connection goes one of two ways (`via`). On the first, `rdg_handler`, each Type1
stores a context under the client's address and each Type3 removes one; the handler
does not validate the Type3 but upgrades on any (websocket.rs:125 marks it as to be
done), so what there is to say of it is that the context it will need is the right one (`OwnChallenge`):
connections open, close and vanish, and an address is used again by a later
connection. On the second, `NegotiateAuthContext` with `NtlmAuthContext` is driven as
its interface says, one context a connection; no handler does that yet, so `AuthSound`
and `AuthComplete` speak of the result of `process_token` and not of who gets into the
gateway. There a
Type3 is looked up in `users` by a query that takes a step of its own, while a
terminal disables accounts. A challenge is a number that is fresh each time; a
response is the record of what its HMACs were computed from (challenge, name, hash),
and verifying it is comparing records; the client's idea of the name's upper case is its
own. There are two foldings of case: `nocase`, SQLite's, which the query uses and which
folds ASCII letters only, and `Upper`, Rust's `to_uppercase`, which goes into the HMAC;
names equal under the first are equal under the second (`FoldAssumption`). As the UNIQUE
column ignores neither, several accounts may match: the query returns any one of them. `sent`, `seen` and `excuse` are history: the challenge the connection was last
sent, the matching accounts that were enabled at some time during the request, and
whether a query failed or a matching account was disabled.
The stub of the Kerberos branch is there as well, according to the constant.

### GuacProxy

The handler (`main`), `guacd_to_browser` (`down`) and `browser_to_guacd` (`up`). The
stream of guacd is a sequence of items, of which a line end is one; `Fill` is one
poll of `read_line`, which keeps what it has read in `line`. The handshake reads two
lines, the second until it holds the word ready. `select!` returns when one task has
ended and detaches the other, which goes on until its own peer ends it. Either peer
may leave or break at every step.

### TuiApp

A key runs up to and including its first query; the queries after it are in `todo`,
one step each, and others change the tables in between. Users and groups are sequences,
as nobody deletes them; rules are deleted and never changed, and `AUTOINCREMENT` gives
no id twice (`lastRule`). A query may fail, which ends
the program. The lists shown are what was read (`shown`), not the tables. A field of a
dialog is given one of its texts at once; text that does not parse as a number is one
of them.

### WebUi and Portal

A handler checks the cookie (valid or not is a choice here; `Accounts` has it) and
runs one query. What a row holds is one value, written as a whole. A call of the tab
is an async function of the page: it waits for its response, which may be an error or
be lost, and then does what follows its await, on a page that may have changed
meanwhile. `of` says whose state a call's continuation changes: the page's, a page's
that was left, or the document's (a download replaces it when it fails). `born` and
`origin` are history: which creation made a row, and which row the form was loaded
from.

### Wire, TsgWire, RpcWire, NtlmWire, Acl, Pure

Buffers are sequences of bytes, and a byte is a number below `Base`: nothing in the
formats depends on a byte having 256 values, but the width of a length field decides
what fits it, and with `Base` 32 the longest name is 510 units. A reader is what is
left of a buffer with a status; reading where nothing is left is `Panic`, as
`bytes::Buf` and slices panic there; each read and each slice has that outcome and each
length check is a step before it. What clients lay out (a cookie of a TunnelCreate, the
auth trailer of a PDU with its sec_trailer, NTLM buffers) is external, after the formats'
definitions. A behaviour of `Pure` is one call. `Acl` has
addresses of 3 and 4 bits for the two families; masks and prefixes are the code's.

## 3. Runs

| run | distinct states | shows |
|---|---|---|
| `ws_safety` | 2.6 million | `HandshakeBeforeRelay`, `UplinkFaithful`, `DownlinkFaithful`, `ControlFaithful`, `NothingAfterClose`, `ImplementsTunnel` for every kind of frame, two backend bytes, seven frames, two places in `ctrl` |
| `ws_liveness` | 0.24 million | `ClientCloseEndsUplink`, `BackendCloseEnds`, `ControlAnswered` |
| `rpch_pairing` | 0.40 million | `ExclusivePairing`, `CompleteStream`, `AbandonedOutEnds` with two OUT and two IN requests over two cookies |
| `rpch_stream` | 1.4 million | `StreamFaithful`, `TunnelBeforeChannel`, `BodyEndEndsIn`, `ImplementsOutStreams` for bodies of five PDUs of every kind, cut anywhere |
| `rpch_whole_pdu` | stops at the first violation | `WholePduAwaited` does not hold: a PDU cut after its header fails the request while its rest is on the way (section 6) |
| `cert_crash` | 0.10 million | `CertificateFits` over crashes and failures at every step, torn writes, failed reads and inserts in every combination, and names that come back |
| `accounts` | 2.4 million | `OneOwnerPerName`, `SigninCurrent`, `AccountUsable`, `SessionIdentity` with three requests and a terminal, under names that differ in case only |
| `auth` | 1.3 million | `OwnChallenge`, `AuthSound`, `AuthComplete` with two connections, opened three times in all, behind one host |
| `guac` | 0.31 million | `RelayFaithful`, `BrowserLeavingReachesGuacd`, `SessionReleased` with every split of five items into lines |
| `tui` | 1.3 million | `DialogMatchesMode`, `ActsOnShown`, `SelectionOnRow` for every eight keys and two changes by others |
| `portal` | 1.1 million | `IdsStable`, `FormIsOfEdited`, `LoadingEnds` with two calls at a time, three clicks and two changes by others |
| `pure` | 0.17 million | `RoundTrip`, `ParsersSafe`, `AclCorrect`, one state a call |

### Bounds

* Seven frames are the four of the handshake, the first Data and two of the
  relay. The control state of the relay depends on one flag (`skip`) and on what the
  tasks hold, so two frames of the relay reach every combination of them; longer
  sequences are covered by the proof of `UplinkFaithful`.
* `CtrlCap` 2 (8 in the code) and a small `WireCap` make every buffer full and empty,
  and a reply waits behind another.
* `ReadMax` 2 with two bytes lets one read return one or both.
* Two OUT requests of the same or of different cookies, and two IN requests that
  compete for one entry; one OUT request may replace the other's entry before, between
  or after them. `MaxPdus` 1 there, since pairing is over with the first PDU; the whole
  of a body is the business of `rpch_stream`, with one connection. `PairingSafety` covers
  any number of both.
* Five PDUs: CONN/B1, Bind and three requests (tunnel, authorisation, channel) is
  the longest body whose order matters; every shorter mixture is included, and two
  frames of a body may wait (`BodyCap`).
* Three sets of names and four pairs: one pair per set and one more that replaces
  a torn one, or that is made for names that came back.
* Three requests: two signups compete for a name and the third signs in, or one signs
  up, one signs in and one uses the cookie. Their clients and the terminal use two names
  that are the same but for their case, the hard case of signup and signin; accounts
  have the one password, or none when the terminal added them. A lifetime of 0 on a
  clock of two values has cookies in their last second and expired ones. Requests and
  names are symmetric.
* Two connections opened three times: one address is used by two connections in turn
  while another one is open, and four requests let a connection repeat its Type1. One
  account, its name typed in another case of an ASCII letter, and of one outside ASCII,
  a name without an account, two hashes.
* Five items are the args line, the ready line and a line of the relay, or a longer
  handshake; two messages of the browser are one before and one after it.
* Eight keys are a dialog opened, filled and submitted, and an action on a list after
  it; two changes by others are a rule deleted and another created.
* Two calls and three clicks: an update under way while the form is opened for another
  connection, a delete and the list after it. Two changes by others: a connection
  deleted and another created.
* Messages of every type with numbers at both ends of their width, every combination
  of optional fields and names up to the longest whose length fits; each byte of the
  short ones damaged, and each cut at every place. Patterns of up to four characters
  (letters in both cases, stars) against such texts and texts of up to five letters, all networks and addresses, all pairs of rules.

The bounds only limit how much the environment sends; no action of the gateway
has a bound of its own, except `Generate` (`MaxPairs`) and `Insert` (`MaxUsers`).

### Fairness

Weak fairness of each task or handler: the tokio runtime polls a task whose await
is ready. Weak fairness of the peers' reads, and of the delivery of what they
have sent: TCP delivers, and a client or a host that stays connected reads its
socket (a client that stops reading for ever holds the gateway for ever; the code
has no timeout). Nobody is assumed to send, open, close or fail. `select!` in
`tcp_to_ws` chooses at random between ready branches; no fairness between its
branches is assumed, and none is needed as the backend of an instance sends
finitely many bytes. The second part of `BackendCloseEnds` asks for the close of both
sides, since `join!` waits for both tasks and a silent client keeps `ws_to_tcp` waiting.
In `guac` the tasks are scheduled and the peers read while they are there; in `portal`
the gateway handles a request or the network loses it, and responses arrive. Nobody is
assumed to click, type or send.

## 4. Proofs

TLAPS checks what follows for all values of the constants that satisfy the named
assumptions of each module (`FrameAssumption`, `CapAssumption`, `BoundAssumption`,
`RequestAssumption`, `PduAssumption`, `CertAssumption`, `NameAssumption`, `FoldAssumption`,
`TimeAssumption`, `HashAssumption`, `AddressAssumption`, `PortalAssumption`,
`TuiAssumption`, `GuacAssumption`): frames, PDUs, credentials and initial rows are well-typed, rows that
are there at the start have ids of their own that were given out before, capacities are
positive, bounds are natural numbers. TLC evaluates the assumptions on every run. The
inductive invariants were checked with TLC on the runs' instances before they were
proved. Every safety property of the runs is a theorem but the ones named at the end of
this section.

### WsSession_proofs

Facts about one task mostly hold only in some phases of the others, so everything
builds on `PhaseInvariant`: `PhaseOK` relates `pc` to the two tasks, the backend and
`got`. `TypeCorrect` is its other half.

* `HandshakeSafety`: `HandshakeBeforeRelay`. The property speaks of the time after the
  connect; `HandshakeInv` adds that the length of `toClient` is what the session's state
  has earned (`Earned`), one less while a response is in hand.
* `UplinkSafety`: `UplinkFaithful`. `UplinkInv` adds that `skip` says the same as the
  history (`SkipInv`), that the frame in hand is the last one read (`WriteInv`), and
  which frames are written in each state of `ws_to_tcp` (`DoneInv`).
* `CloseSafety`: `NothingAfterClose`, from `LaneInv`, which says what each place on the
  way to the client can hold: the hands of the three tasks, `ctrl` and `toClient`.
* `DownlinkSafety`: `DownlinkFaithful`. `DownlinkInv` adds that the Data frame in the
  hand of `tcp_to_ws` ends with the last byte read and starts where the frames sent end,
  and that without one every byte read was sent.
* `ControlSafety`: `ControlFaithful`. `PipeOrder` orders the replies along the whole way
  (hand of `ws_to_tcp`, `ctrl`, hand of `tcp_to_ws`, client); `NoneLost` says that while
  `tcp_to_ws` serves, each request has its reply somewhere on that way.
* `TunnelRefinement`: `Spec => ImplementsTunnel`. Initial states map to initial states,
  and under all the invariants above (`SessionInv`) each action maps to one action of
  `Tunnel` or a stutter. A send to the client is `Show` or `Answer` according to what was
  in the hand; that it is the oldest unanswered request is `ControlInv`, that it
  continues the stream is `DownlinkInv`. Passing a reply from one task to the other, a
  refused send and the whole handshake before the first Data are stutters.

### RpchGateway_proofs

* `TypeCorrect`, with `BufferOK`: the handler never takes a PDU out of its buffer the
  client has not sent.
* `PairingSafety`: `ExclusivePairing`. `FreshInv` adds that a request still idle is
  nowhere.
* `CompletionSafety`: `CompleteStream`. `LinkInv` says that a handler that goes on holds
  the sender of the OUT request it was paired with, so the response cannot end under it.
* `StreamSafety`: `StreamFaithful`. What was received and what is in the channel are
  taken as one stream (`StreamOK`); the hand of the handler holds its next element
  (`HandOK`), while the response is there no answer to a PDU taken is missing
  (`NoneMissing`), and a handler that is over left no PDU without a reason. Completeness
  goes as far as the handler takes PDUs: that it gives up on a PDU cut after its header is
  in the statement (`CutShort`), and is what `rpch_whole_pdu` is about.
* `GrantSafety`: `TunnelBeforeChannel`. `GrantInv` relates the grants a client was told,
  and the one the handler holds, to how far its session is (`Stage`).
* `OutStreamsRefinement`: `Spec => ImplementsOutStreams`, one lemma per kind of step. A
  step of an OUT request is the step of `OutStreams` with its name; the first PDU of an
  IN request is `Pair` or hidden, one turn of the loop `Call`, `Stop` or hidden, a send
  `Write` or `Stop`, and frames and the client's part of a body are hidden. It rests on
  all the invariants above and on `ConnInv`: an entry of the map waits for its IN
  channel, so `accept_in_channel` never refuses one, and a virtual connection is bound
  only with its BindAck, before which its session has not moved.

### GatewayCert_proofs

* `CertificateSafety`: `CertificateFits`, with nothing assumed of failures, crashes or
  names. The point is `RowInv`: the row vouches for both files unless they were written to
  since, and whoever writes to them either wants other names, so that the row's names come
  back only as `doubted` ones, or has not seen the row and makes its names doubted itself.
  In the situation the property excepts, what is served may be stale; a mixed pair does not
  get past `build_tls_config`.
* `CertTypes`: `TypeOK`.

### Accounts_proofs

* `AccountsSafety`: `TypeOK`, `OneOwnerPerName`, `SigninCurrent` and `SessionIdentity`,
  for any number of requests, terminals, names and rows. Names and passwords of rows
  never change and ids are not reused (`Grows`), an answer with a cookie never changes
  (`CookiesStay`); so what a request knows of the table and of the cookie it uses
  (`ReqInv`) survives the steps of everybody else (`Frame`).
* `AccountStaysUsable`: `AccountUsable`, for all names, also ones that differ only in case
  (`TwinsStay`: a twin once there stays one, `SawStays` for what was seen of it).

### Authentication_proofs

`ChallengeSafety` (`OwnChallenge`), `SoundnessSafety` (`AuthSound`) and
`CompletenessSafety` (`AuthComplete`) share one invariant. Open connections have addresses
of their own (`AddressInv`): without it an entry of the store says nothing, as it is
keyed by address and survives the connection that put it there. `ConnInv` relates a
connection's context to the challenge it was sent, and `QueryInv` the row it read to the
accounts that were enabled since. Accounts whose names differ only in case are covered,
and any two foldings of which the query's is the finer.

### Portal_proofs

`IdsSafety` (`IdsStable`) and `FormSafety` (`FormIsOfEdited`). `OldIn` says that an id was
given out once and, where the table still has it, names the same creation; it holds of
the rows on the page, in the form, and in every request and response under way
(`CallInv`), since a response that is late brings back what was read long ago.

### TuiApp_proofs

* `DialogSafety`: `DialogMatchesMode`, from `DialogInv`, which follows each field of a
  dialog through the keys: its options, the one selected and the value shown.
* `ActsSafety`: `ActsOnShown`, an action property. `ShownInv` relates the lists shown to
  the tables: a user or a group keeps its place, so the id taken from an old list is
  still that row's, and a rule shown is either in the table unchanged or its id is in use
  no more.
* `SelectionSafety`: `SelectionOnRow`, an action property, from `IndexInv`.

### GuacProxy_proofs

* `RelaySafety`: `RelayFaithful`, for every stream of guacd cut into lines anywhere,
  everything the browser sends and all capacities. Lines and texts are told apart by
  their places: `CountIn` counts the line ends, or the texts, up to a place, so that
  `IsLine(n, t)` says which items of the stream the n-th line is made of, and one item
  more changes a count by one (`CountNext`) and no earlier line (`LineStays`).
* `ProxyInvariant` is the induction. `DownInv`: of the items of guacd the first p were
  read, the line under way starts after item a, before which as many lines end as were
  taken; what is held and what is on its way are the rest. `UpInv`: of the browser's
  messages the first r were read, and the texts among them were written, but for the one
  in hand. A last line without an end is shown once, and only when guacd has closed
  (`AtEnd`). `PhaseInv` and `ToldInv` say which tasks are there and that select and
  connect come first.

### Only model-checked

* The liveness properties (`ClientCloseEndsUplink`, `BackendCloseEnds`,
  `ControlAnswered`, `BodyEndEndsIn`, `AbandonedOutEnds`, `BrowserLeavingReachesGuacd`,
  `SessionReleased`, `LoadingEnds`): fairness and ENABLED are out of the prover's reach.
* `RoundTrip`, `ParsersSafe` and `AclCorrect` of `Pure`: the wire modules
  and `Acl` compute by recursion over their input, and `Acl` uses `Bitwise`.
* `WholePduAwaited`, which does not hold.

## 5. Mutants

Every property of a passing run has a mutant, an operator named
`<definition>_<change>` beside the definition it changes: a dropped guard, a lost
reply, a missing removal, a `try_send` in place of a `send`, and the like. Each of
them breaks its property.

## 6. Seen while reading

One run contradicts a comment:

* `rpch_whole_pdu`: an RPC PDU whose header arrives before its rest fails the IN request.
  The header parser wants the whole PDU (`rpch.rs`, line 307), so the loop that should
  "read until we have the complete PDU" (line 311) has nothing to wait for.
  `StreamFaithful` names this as one way for a request to end.

The rest are observations, each left open or named as an exception by the property it
touches. Where a document or comment says something else than the code does:

* In `DataTransfer`, before the first Data, a Keepalive ends the session
  (`docs/ARCHITECTURE.md`, line 94, has it echoed); after CloseChannel the other
  direction goes on (line 163 has the relay terminate); unknown frame types other than
  0x10 are ignored in the relay (line 164 has them echoed; `ControlFaithful` allows both).
* `rdg_handler` upgrades on any Type3 (line 120 and the comment at `websocket.rs`, line
  115, have it validated; line 125 has it as to be done).
* A certificate is reused when its row and files exist; when names come back after a
  start that did not get as far as its row, or a start could not read the row, they need
  not belong together (`main.rs`, lines 275 and 344). `CertificateFits` names the situation.
* Two signups whose names differ only in case can both succeed, as the lookup ignores
  case, the UNIQUE column does not, and they are separate queries (`handlers/auth.rs`,
  line 160); signin then finds one of the two accounts (`AccountUsable`, `JudgedBy`).
* A user whose name differs from the account's in the case of a letter outside ASCII is
  not found (`sqlite.rs`, line 103), though the HMAC would be the same (`ntlm.rs`, line
  248); `AuthComplete` names the exception.
* `TunnelCreate::write` drops the cookie, and `RequestPdu::parse` takes the auth token off
  a PDU but not the sec_trailer before it, which stays with the stub.
* The tests of `messages.rs` do not compile (`ReasuthMessage`, line 1069), and line 1071
  expects `from_u16(3)` to be `None`, which it is not.
* "Eventually enters data transfer (relay mode)" in the header comment of
  `handlers/rpch.rs` has no code: a connection over RPC never relays.

Of the behaviour itself:

* Entries of `pending` and challenges that nobody answers are never removed.
* A second TSG message in one WebSocket frame is ignored. Names of 2^15 - 1 units or
  more do not fit their length field. `glob_matches` takes a `*` in a host name for the one in
  the pattern, so that `*.com` does not match `*a.com` (`acl.rs`, line 139); names of hosts
  hold none, and `GlobCorrect` says so.
* In the terminal, port text that does not parse makes a rule for any port; the
  selection of rules is not clamped when a rule is added; saving the configuration
  writes all of it, another terminal's changes included; a query that fails ends the
  program with TLS settings unsaved.
* The proxy reads guacd's stream by lines, where the protocol ends instructions with a
  semicolon; when guacd leaves, the browser is not told.
* Updating a connection that is not there answers 204. In the browser, overlapping
  refreshes may leave the older list, and the answer to an earlier update turns an open
  edit form into a blank new one (`FormIsOfEdited` says that the form then is really
  blank).

## 7. Not modelled

* The second WebSocket handler below the tungstenite one and `relay.rs`: no route
  reaches them.
* Configuration defaults, telemetry, metrics, health, static files, drawing and status
  lines of the terminal UI: no protocol state.
* In the browser the login page and `AuthContext`, and the mouse, keyboard and display
  of a session, which belong to a library.
* Queries of the session table, which nobody calls.
* HMACs, password hashes and signatures: they are what they were computed from.

## 8. Plan

Modelled and checked: sections 2 and 3; proved: section 4. Left:

1. The wire modules and `Acl` as recursive functions instead of recursive operators, and
   lemmas on the parts that need no induction (a message with a fixed layout).
2. What `OutStreams` and `Tunnel` promise of a session of either transport as one
   specification of the gateway.
