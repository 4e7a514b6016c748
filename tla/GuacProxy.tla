------------------------------ MODULE GuacProxy -------------------------------
(*****************************************************************************)
(* The Guacamole proxy of crates/rdg-server/src/handlers/guacamole.rs: one   *)
(* browser session, from guac_ws_handler through the handshake with guacd to *)
(* the two tasks that guac_proxy spawns and of which select! waits only for  *)
(* the first.                                                                *)
(*                                                                           *)
(* guacd's byte stream is a sequence of items: NL, a piece of text with the  *)
(* word ready in it, other text, all of it UTF-8.  A text for the browser is *)
(* a sequence of items.  What guacd is written is a sequence of instructions.*)
(* sent, shown, typed and told are history.                                  *)
(*****************************************************************************)
EXTENDS Naturals, Sequences, FiniteSets, SequencesExt

CONSTANTS Target,    \* hosts and ports a browser may ask for
          WireCap,   \* bound: items, texts or instructions under way in one direction
          MaxItems,  \* bound: items guacd sends
          MaxTyped   \* bound: messages the browser sends

ASSUME GuacAssumption == /\ WireCap \in Nat \ {0} /\ MaxItems \in Nat /\ MaxTyped \in Nat
                         /\ Target # {}

VARIABLES
    main,     \* where guac_ws_handler or guac_proxy is
    down,     \* the task guacd_to_browser: "None", "Read", "Send", "Done"
    up,       \* the task browser_to_guacd: "None", "Read", "Write", "Done"
    target,   \* params
    line,     \* what read_line has read of the line
    text,     \* the text that browser_to_guacd is writing
    browser,  \* "Away", "Open", "Closed" (it sent Close), "Gone" (it broke)
    guacd,    \* "Absent", "Open", "Closed", "Reset"
    fromGuacd, toGuacd, fromBrowser, toBrowser,  \* what is under way
    sent,     \* all that guacd has sent
    shown,    \* all that was sent to the browser
    typed,    \* all that the browser has sent
    told      \* all that was written to guacd

vars == <<main, down, up, target, line, text, browser, guacd, fromGuacd, toGuacd,
              fromBrowser, toBrowser, sent, shown, typed, told>>

Item == {"NL", "ready", "other"}
Select == [type |-> "select"]
ConnectTo(t) == [type |-> "connect", target |-> t]
Text(n) == [type |-> "text", n |-> n]
CloseFrame == <<"Close">>
ErrorText == <<"error">>

\* Where guac_proxy can be, in its order.
MainState == {"Idle", "Connect", "SendError", "SendClose", "WriteSelect", "ReadArgs",
              "WriteConnect", "ReadReady", "SendReady", "Select", "Ended"}

Init ==
    /\ main = "Idle" /\ down = "None" /\ up = "None" /\ target = CHOOSE t \in Target : TRUE
    /\ line = <<>> /\ text = 0
    /\ browser = "Away" /\ guacd = "Absent"
    /\ fromGuacd = <<>> /\ toGuacd = <<>> /\ fromBrowser = <<>> /\ toBrowser = <<>>
    /\ sent = <<>> /\ shown = <<>> /\ typed = <<>> /\ told = <<>>

-----------------------------------------------------------------------------
(* The connections.                                                          *)

\* ws_sink.send: waits for room; fails when the browser is not there any more.
ShowBrowser(t) ==
    /\ browser = "Open" /\ Len(toBrowser) < WireCap
    /\ toBrowser' = Append(toBrowser, t) /\ shown' = Append(shown, t)
ShowFails == browser # "Open" /\ UNCHANGED <<toBrowser, shown>>

\* tcp_write.write_all: waits for room; after guacd has closed it may still succeed.
TellGuacd(i) ==
    /\ \/ guacd = "Open" /\ Len(toGuacd) < WireCap /\ toGuacd' = Append(toGuacd, i)
       \/ guacd = "Closed" /\ UNCHANGED toGuacd
    /\ told' = Append(told, i)
TellFails == guacd \in {"Closed", "Reset"} /\ UNCHANGED <<toGuacd, told>>

\* read_line returns when it has read a line, or at the end of the stream with
\* what there is; an error of the connection is an error of read_line.
LineRead ==
    \/ line # <<>> /\ Last(line) = "NL"
    \/ fromGuacd = <<>> /\ guacd = "Closed"
LineFails == guacd = "Reset"

\* read_line takes what has arrived.
Fill ==
    /\ main \in {"ReadArgs", "ReadReady"} \/ down = "Read"
    /\ ~LineRead /\ fromGuacd # <<>>
    /\ line' = Append(line, Head(fromGuacd)) /\ fromGuacd' = Tail(fromGuacd)
    /\ UNCHANGED <<main, down, up, target, text, browser, guacd, toGuacd, fromBrowser, toBrowser,
                   sent, shown, typed, told>>

\* trim and trim_end_matches: the line without its end.
Trimmed(l) == IF l # <<>> /\ Last(l) = "NL" THEN Front(l) ELSE l

-----------------------------------------------------------------------------
(* guac_ws_handler and guac_proxy.                                           *)

\* A browser asks for a session.  401 without a valid cookie and 503 when the
\* proxy is not enabled leave everything as it is.
guac_ws_handler(t, cookie, enabled) ==
    /\ main = "Idle" /\ browser = "Away"
    /\ IF cookie /\ enabled
       THEN main' = "Connect" /\ browser' = "Open"
       ELSE main' = "Ended" /\ browser' = "Gone"
    /\ target' = t
    /\ UNCHANGED <<down, up, line, text, guacd, fromGuacd, toGuacd, fromBrowser, toBrowser,
                   sent, shown, typed, told>>

\* TcpStream::connect.
Connect ==
    /\ main = "Connect"
    /\ \/ guacd' = "Open" /\ main' = "WriteSelect"
       \/ main' = "SendError" /\ UNCHANGED guacd
    /\ UNCHANGED <<down, up, target, line, text, browser, fromGuacd, toGuacd, fromBrowser, toBrowser,
                   sent, shown, typed, told>>

\* Without guacd: an error instruction and a Close, whether or not they get out.
Refuse ==
    /\ \/ /\ main = "SendError" /\ main' = "SendClose"
          /\ ShowBrowser(ErrorText) \/ ShowFails
       \/ /\ main = "SendClose" /\ main' = "Ended"
          /\ ShowBrowser(CloseFrame) \/ ShowFails
    /\ UNCHANGED <<down, up, target, line, text, browser, guacd, fromGuacd, toGuacd, fromBrowser,
                   sent, typed, told>>

\* The select instruction, and after the args line the connect instruction with
\* the parameters of the request.
WriteInstruction ==
    /\ \/ /\ main = "WriteSelect"
          /\ \/ TellGuacd(Select) /\ main' = "ReadArgs"
             \/ TellFails /\ main' = "Ended"
       \/ /\ main = "WriteConnect"
          /\ \/ TellGuacd(ConnectTo(target)) /\ main' = "ReadReady"
             \/ TellFails /\ main' = "Ended"
    /\ UNCHANGED <<down, up, target, line, text, browser, guacd, fromGuacd, fromBrowser, toBrowser,
                   sent, shown, typed>>

\* ready_line.contains("ready").
IsReady(l) == \E i \in DOMAIN l : l[i] = "ready"

\* The args line may say anything, and be the end of the stream; the ready line
\* is kept for the browser.
ReadAnswer ==
    /\ \/ /\ main = "ReadArgs" /\ LineRead
          /\ main' = "WriteConnect" /\ line' = <<>>
       \/ /\ main = "ReadReady" /\ LineRead
          /\ main' = (IF IsReady(line) THEN "SendReady" ELSE "Ended")
          /\ UNCHANGED line
       \/ /\ main \in {"ReadArgs", "ReadReady"} /\ LineFails
          /\ main' = "Ended" /\ UNCHANGED line
    /\ UNCHANGED <<down, up, target, text, browser, guacd, fromGuacd, toGuacd, fromBrowser, toBrowser,
                   sent, shown, typed, told>>

\* Mutant: what the browser sent during the handshake is dropped.
SendReady_Drain ==
    /\ main = "SendReady"
    /\ \/ /\ ShowBrowser(Trimmed(line)) /\ fromBrowser' = <<>>
          /\ main' = "Select" /\ down' = "Read" /\ up' = "Read" /\ line' = <<>>
       \/ ShowFails /\ main' = "Ended" /\ UNCHANGED <<down, up, line, fromBrowser>>
    /\ UNCHANGED <<target, text, browser, guacd, fromGuacd, toGuacd, sent, typed, told>>

\* The ready instruction goes to the browser; then the two tasks are spawned.
SendReady ==
    /\ main = "SendReady"
    /\ \/ /\ ShowBrowser(Trimmed(line))
          /\ main' = "Select" /\ down' = "Read" /\ up' = "Read" /\ line' = <<>>
       \/ ShowFails /\ main' = "Ended" /\ UNCHANGED <<down, up, line>>
    /\ UNCHANGED <<target, text, browser, guacd, fromGuacd, toGuacd, fromBrowser, sent, typed, told>>

\* select!: one of the tasks is done; the other one is not told.
SelectEnds ==
    /\ main = "Select" /\ (down = "Done" \/ up = "Done")
    /\ main' = "Ended"
    /\ UNCHANGED <<down, up, target, line, text, browser, guacd, fromGuacd, toGuacd, fromBrowser,
                   toBrowser, sent, shown, typed, told>>

guac_proxy == Connect \/ Refuse \/ WriteInstruction \/ ReadAnswer \/ SendReady \/ SelectEnds

-----------------------------------------------------------------------------
(* The tasks.                                                                *)

\* Mutant: Ok(0) is no reason to end.
DownRead_RetryOnEnd ==
    /\ down = "Read"
    /\ \/ LineRead /\ line # <<>> /\ down' = "Send"
       \/ LineFails /\ down' = "Done"
    /\ UNCHANGED <<main, up, target, line, text, browser, guacd, fromGuacd, toGuacd, fromBrowser,
                   toBrowser, sent, shown, typed, told>>

\* guacd_to_browser: Ok(0) or an error ends it, anything else is sent.
DownRead ==
    /\ down = "Read"
    /\ \/ LineRead /\ line # <<>> /\ down' = "Send"
       \/ ((LineRead /\ line = <<>>) \/ LineFails) /\ down' = "Done"
    /\ UNCHANGED <<main, up, target, line, text, browser, guacd, fromGuacd, toGuacd, fromBrowser,
                   toBrowser, sent, shown, typed, told>>

DownSend ==
    /\ down = "Send"
    /\ \/ ShowBrowser(Trimmed(line)) /\ down' = "Read" /\ line' = <<>>
       \/ ShowFails /\ down' = "Done" /\ UNCHANGED line
    /\ UNCHANGED <<main, up, target, text, browser, guacd, fromGuacd, toGuacd, fromBrowser,
                   sent, typed, told>>

\* Mutant: an error of the WebSocket is skipped like a message.
UpRead_SkipErrors ==
    /\ up = "Read"
    /\ \/ /\ fromBrowser # <<>> /\ fromBrowser' = Tail(fromBrowser)
          /\ \/ Head(fromBrowser) > 0 /\ up' = "Write" /\ text' = Head(fromBrowser)
             \/ Head(fromBrowser) = 0 /\ UNCHANGED <<up, text>>
       \/ /\ fromBrowser = <<>> /\ browser # "Open"
          /\ up' = (IF browser = "Gone" THEN "Read" ELSE "Done") /\ UNCHANGED <<fromBrowser, text>>
    /\ UNCHANGED <<main, down, target, line, browser, guacd, fromGuacd, toGuacd, toBrowser,
                   sent, shown, typed, told>>

\* browser_to_guacd: a text (a positive number) is taken to be written, other
\* messages (0) are skipped, Close and the end of the stream end the task.
UpRead ==
    /\ up = "Read"
    /\ \/ /\ fromBrowser # <<>> /\ fromBrowser' = Tail(fromBrowser)
          /\ \/ Head(fromBrowser) > 0 /\ up' = "Write" /\ text' = Head(fromBrowser)
             \/ Head(fromBrowser) = 0 /\ UNCHANGED <<up, text>>
       \/ /\ fromBrowser = <<>> /\ browser # "Open"
          /\ up' = "Done" /\ UNCHANGED <<fromBrowser, text>>
    /\ UNCHANGED <<main, down, target, line, browser, guacd, fromGuacd, toGuacd, toBrowser,
                   sent, shown, typed, told>>

UpWrite ==
    /\ up = "Write"
    /\ \/ TellGuacd(Text(text)) /\ up' = "Read"
       \/ TellFails /\ up' = "Done"
    /\ UNCHANGED <<main, down, target, line, text, browser, guacd, fromGuacd, fromBrowser, toBrowser,
                   sent, shown, typed>>

Tasks == Fill \/ DownRead \/ DownSend \/ UpRead \/ UpWrite

-----------------------------------------------------------------------------
(* The browser and guacd (external).                                         *)

\* As long as somebody reads the WebSocket, be it a task that select! has detached.
BrowserSends ==
    /\ browser = "Open"
    /\ main # "Ended" \/ up \in {"Read", "Write"}
    /\ Len(typed) < MaxTyped /\ Len(fromBrowser) < WireCap
    /\ \E m \in {0, Len(typed) + 1} :
        fromBrowser' = Append(fromBrowser, m) /\ typed' = Append(typed, m)
    /\ UNCHANGED <<main, down, up, target, line, text, browser, guacd, fromGuacd, toGuacd, toBrowser,
                   sent, shown, told>>

\* The browser leaves: it closes, and what it sent before still comes, or it breaks.
BrowserLeaves(how) ==
    /\ browser = "Open" /\ browser' = how
    /\ fromBrowser' = IF how = "Closed" THEN fromBrowser ELSE <<>>
    /\ toBrowser' = <<>>
    /\ UNCHANGED <<main, down, up, target, line, text, guacd, fromGuacd, toGuacd, sent, shown, typed, told>>

BrowserReads ==
    /\ toBrowser # <<>>
    /\ toBrowser' = Tail(toBrowser)
    /\ UNCHANGED <<main, down, up, target, line, text, browser, guacd, fromGuacd, toGuacd, fromBrowser,
                   sent, shown, typed, told>>

GuacdSends ==
    /\ guacd = "Open" /\ Len(sent) < MaxItems /\ Len(fromGuacd) < WireCap
    /\ \E i \in Item : fromGuacd' = Append(fromGuacd, i) /\ sent' = Append(sent, i)
    /\ UNCHANGED <<main, down, up, target, line, text, browser, guacd, toGuacd, fromBrowser, toBrowser,
                   shown, typed, told>>

GuacdLeaves ==
    /\ guacd = "Open"
    /\ \/ guacd' = "Closed" /\ UNCHANGED fromGuacd
       \/ guacd' = "Reset" /\ fromGuacd' = <<>>
    /\ toGuacd' = <<>>
    /\ UNCHANGED <<main, down, up, target, line, text, browser, fromBrowser, toBrowser, sent, shown, typed, told>>

GuacdReads ==
    /\ toGuacd # <<>>
    /\ toGuacd' = Tail(toGuacd)
    /\ UNCHANGED <<main, down, up, target, line, text, browser, guacd, fromGuacd, fromBrowser, toBrowser,
                   sent, shown, typed, told>>

\* The browser has left and the session is over.
Terminated == main = "Ended" /\ browser # "Open" /\ UNCHANGED vars

Peers ==
    \/ BrowserSends \/ BrowserReads \/ GuacdSends \/ GuacdLeaves \/ GuacdReads
    \/ \E how \in {"Closed", "Gone"} : BrowserLeaves(how)

Next ==
    \/ \E t \in Target, cookie, enabled \in BOOLEAN : guac_ws_handler(t, cookie, enabled)
    \/ guac_proxy \/ Tasks \/ Peers \/ Terminated

\* The tasks are scheduled, and the peers take what is sent to them as long as
\* they are there.
Fairness ==
    /\ WF_vars(guac_proxy) /\ WF_vars(Fill) /\ WF_vars(DownRead) /\ WF_vars(DownSend)
    /\ WF_vars(UpRead) /\ WF_vars(UpWrite)
    /\ WF_vars(BrowserReads) /\ WF_vars(GuacdReads)

Spec == Init /\ [][Next]_vars
FairSpec == Spec /\ Fairness

-----------------------------------------------------------------------------
(* Properties.                                                               *)

\* How many of the first i elements of s are in T.
CountIn(s, T, i) == Cardinality({j \in 1..i : s[j] \in T})

\* t is line n of what guacd has sent: it starts after the line end before it, has no
\* line end in it, and ends before the next one, or where guacd has broken it off.
IsLine(n, t) ==
    \E a, b \in 0..Len(sent) :
        /\ a <= b /\ t = SubSeq(sent, a + 1, b)
        /\ a = 0 \/ sent[a] = "NL"
        /\ CountIn(sent, {"NL"}, a) = n - 1 /\ CountIn(sent, {"NL"}, b) = n - 1
        /\ \/ b < Len(sent) /\ sent[b + 1] = "NL"
           \/ a < b /\ b = Len(sent) /\ guacd = "Closed"

\* Down: the browser gets the lines guacd has sent after the args line, each as one
\* text, in order, without a gap and without a line end; a last line that guacd
\* broke off is one of them.  The first is the ready line.  Or it gets an error and
\* a Close, when guacd could not be reached.  Nothing gets lost where guac_proxy
\* hands its reader and its sink over to the task.
LinesShown ==
    \/ guacd = "Absent" /\ IsPrefix(shown, <<ErrorText, CloseFrame>>)
    \/ /\ guacd # "Absent"
       /\ \A k \in DOMAIN shown : IsLine(k + 1, shown[k])
       /\ shown # <<>> => IsReady(shown[1])

\* Up: guacd is written select, connect with the parameters of the request, and then
\* the browser's texts in the order it sent them, none left out and none twice,
\* also those it sent during the handshake; and no text before guacd was ready.
TextsTold ==
    /\ told # <<>> => told[1] = Select
    /\ Len(told) > 1 => told[2] = ConnectTo(target)
    /\ \A k \in 3..Len(told) : \E n \in DOMAIN typed :
        /\ typed[n] > 0 /\ told[k] = Text(typed[n])
        /\ CountIn(typed, Nat \ {0}, n) = k - 2
    /\ Len(told) > 2 => shown # <<>>

\* The proxy is faithful in both directions.
RelayFaithful == LinesShown /\ TextsTold

Away == browser \in {"Closed", "Gone"}

\* Every text the browser has sent is written to guacd, after select and connect.
AllTold == Len(told) = 2 + CountIn(typed, Nat \ {0}, Len(typed))

\* When the browser leaves a running session, the task that reads it ends, which shuts
\* down guacd's connection for writing, whichever of the tasks select! has seen end.
\* By then every text the browser had sent is written to guacd, unless the browser's
\* connection broke, where texts under way are lost, or guacd has left.
BrowserLeavingReachesGuacd ==
    (Away /\ up # "None") ~> (up = "Done" /\ (browser = "Gone" \/ guacd # "Open" \/ AllTold))

\* When both peers have left, nothing of the session stays: the handler returns
\* and both tasks end, also the one select! has detached.
SessionReleased ==
    (Away /\ guacd \in {"Closed", "Reset"}) ~> (main = "Ended" /\ down \in {"None", "Done"} /\ up \in {"None", "Done"})

===============================================================================
