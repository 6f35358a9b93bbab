------------------------------ MODULE ChatClient -----------------------------
(***************************************************************************)
(* How one browser tab keeps its chat connected (app/src/App.tsx,          *)
(* routing.ts): the address bar, the login token, and connection attempts  *)
(* whose answers come back when the user may long be elsewhere.            *)
(*                                                                         *)
(* An attempt asks for a ticket, opens a socket with it and, when the      *)
(* gateway refuses the socket, asks why with a probe.  There is one socket *)
(* per attempt, so `current` (wsRef) names the attempt it belongs to.      *)
(* The stored token is shared with the browser's other tabs.               *)
(***************************************************************************)
EXTENDS Naturals, Sequences, FiniteSets

CONSTANTS
  MaxConnects,  \* connection attempts (bound)
  MaxTokens     \* logins, of this tab and of the others (bound)

ASSUME ChatClientAssumption == MaxConnects \in Nat \ {0} /\ MaxTokens \in Nat \ {0}

VARIABLES
  url,       \* what the address bar names: Home, Hub (a project's page) or a chat
  chatted,   \* hasChatted
  status,    \* what the tab shows: "disconnected", "connecting", "connected"
  authed,    \* authenticated: the login form is not shown
  checking,  \* authCheckPending: the tab shows that it is still finding out
  token,     \* the stored login token (localStorage, shared by the tabs), 0 for none
  issued,    \* the last token the gateway gave out
  alive,     \* tokens the gateway accepts
  signing,   \* a login request is under way
  asked,     \* the tokens of the requests under way (authedFetch)
  current,   \* wsRef: the attempt whose socket is in use, or 0
  newest,    \* connectAttemptRef
  conn,      \* each attempt: path, token, stage, and the chat its socket is attached to
  shown,     \* sessionId
  first,     \* pendingFirstMessageRef: the attempt whose chat it was typed for, or 0
  sent,      \* messages sent: by which attempt's socket, and for which
  adrift,    \* history: a connection was made past the chat a first message waits for
  misled     \* history: what is shown and what is connected were led apart (ShownIsConnected)

tab == <<url, chatted, status, authed, checking, shown>>
\* What only the other tabs and the gateway, or requests, change.
login == <<issued, alive, signing, asked>>
vars == <<tab, token, login, current, newest, conn, first, sent, adrift, misled>>

Attempts == 1 .. MaxConnects
Home == <<>>
Hub == <<"hub">>
OldChat == <<"old">>
NewChat(a) == <<"new", a>>
Chats == {OldChat} \union {NewChat(a) : a \in Attempts}
NoAttempt == [path |-> Home, token |-> 0, stage |-> "none", chat |-> Home, framed |-> FALSE]

\* initialSessionTarget(): the chat the address names, else a new one (Home stands for "new").
Target(place) == IF place \in Chats THEN place ELSE Home
\* The sidebar lists chats that have a message.
Listed == {OldChat} \union {conn[s.by].chat : s \in sent}

\* The tab is loaded, with or without a token stored.
Init ==
  /\ url \in {Home, OldChat} /\ token \in {0, 1}
  /\ alive \in SUBSET {token} \ {{0}} /\ issued = token /\ signing = FALSE /\ asked = {}
  /\ chatted = (url \in Chats) /\ authed = FALSE /\ checking = (token # 0)
  /\ status = (IF token = 0 THEN "disconnected" ELSE "connecting")
  /\ current = 0 /\ newest = (IF token = 0 THEN 0 ELSE 1)
  /\ conn = [a \in Attempts |-> IF a = 1 /\ token # 0
                                THEN [NoAttempt EXCEPT !.path = Target(url), !.token = token, !.stage = "ticket"]
                                ELSE NoAttempt]
  /\ shown = Home /\ first = 0 /\ sent = {} /\ adrift = FALSE /\ misled = FALSE

\* Attempt a is done with; the chat it made is still one of the user's.
Over(cs, a) == [cs EXCEPT ![a] = [NoAttempt EXCEPT !.stage = "over", !.chat = cs[a].chat]]

\* wsRef.current?.close(): its own 'close' event finds that it is no longer the one in use.
Closed(cs) == IF current = 0 THEN cs ELSE Over(cs, current)

\* The bound on what the user may start, so that an attempt at a known chat that fails always has
\* room for the one that takes over.
MayConnect(path) ==
  LET known == {a \in Attempts : /\ conn[a].path # Home
                                 /\ conn[a].stage \in {"ticket", "opening", "refused", "probing"}}
  IN newest + Cardinality(known) + (IF path = Home THEN 1 ELSE 2) <= MaxConnects

\* connect(): supersedes the attempt before it.
Connects(cs, path, tok) ==
  /\ newest' = newest + 1 /\ current' = 0 /\ token' = tok /\ status' = "connecting"
  /\ conn' = [cs EXCEPT ![newest + 1] = [NoAttempt EXCEPT !.path = path, !.token = tok, !.stage = "ticket"]]

\* handleAuthExpired()
AuthExpires(cs) ==
  /\ token' = 0 /\ conn' = Closed(cs) /\ current' = 0
  /\ status' = "disconnected" /\ authed' = FALSE /\ checking' = FALSE
  /\ UNCHANGED <<url, chatted, newest, shown>>

-----------------------------------------------------------------------------
(* The user.                                                                *)

\* Mutant: the message typed for a project chat that was left is still kept.
FirstMessageKept(typed) == IF typed THEN newest + 1 ELSE first

\* pendingFirstMessageRef.current = firstMessage ?? null
FirstMessage(typed) == IF typed THEN newest + 1 ELSE 0

\* startNewSession(): "New chat" does nothing on an empty chat; a project's page, where the first
\* message may be typed, and the other areas ask for their own kind of chat.
StartNewSession(project, typed) ==
  /\ authed /\ token # 0 /\ (chatted \/ project) /\ (typed => project)
  /\ url' = (IF project THEN Hub ELSE Home) /\ chatted' = FALSE
  /\ MayConnect(Home) /\ Connects(Closed(conn), Home, token)
  /\ first' = FirstMessage(typed) /\ adrift' = FALSE /\ misled' = FALSE
  /\ UNCHANGED <<authed, checking, login, shown, sent>>

SwitchSession(chat) ==
  /\ authed /\ token # 0 /\ chat \in Listed
  /\ url' = chat /\ chatted' = TRUE
  /\ MayConnect(chat) /\ Connects(Closed(conn), chat, token)
  /\ adrift' = (first # 0) /\ misled' = FALSE
  /\ UNCHANGED <<authed, checking, login, shown, first, sent>>

\* popstate: back or forward, at the login form too.  A project's page leaves the chat connected
\* underneath; without a stored token, or before the first connect(), nothing follows the address.
PopState(place) ==
  /\ place # url /\ url' = place
  /\ UNCHANGED <<authed, checking, login, shown, first, sent>>
  /\ \/ /\ token = 0 \/ newest = 0
        /\ misled' = (misled \/ place \in Chats)
        /\ UNCHANGED <<chatted, status, current, newest, conn, token, adrift>>
     \/ /\ token # 0 /\ newest # 0 /\ place = Hub
        /\ UNCHANGED <<chatted, status, current, newest, conn, token, adrift, misled>>
     \/ /\ token # 0 /\ newest # 0 /\ place # Hub
        /\ chatted' = (place \in Chats)
        /\ MayConnect(Target(place)) /\ Connects(Closed(conn), Target(place), token)
        /\ adrift' = (first # 0) /\ misled' = FALSE

\* send(): the first message puts the chat into the address bar.
Send ==
  /\ authed /\ status = "connected" /\ current # 0 /\ conn[current].stage = "open"
  /\ sent' = sent \union {[by |-> current, for |-> 0, adrift |-> FALSE]}
  /\ IF ~chatted /\ shown # Home
     THEN /\ url' = shown /\ chatted' = TRUE
          /\ misled' = (misled \/ conn[current].chat # shown)
     ELSE UNCHANGED <<url, chatted, misled>>
  /\ UNCHANGED <<status, authed, checking, shown, token, login, current, newest, conn, first, adrift>>

\* The login form is sent off (one request at a time), its button being on while not connecting.
SignsIn ==
  /\ ~authed /\ ~checking /\ status = "disconnected" /\ ~signing /\ signing' = TRUE
  /\ UNCHANGED <<tab, token, issued, alive, asked, current, newest, conn, first, sent, adrift, misled>>

\* handleLogin() is answered: what the address bar names is taken up again; or refused.
Login ==
  /\ signing /\ signing' = FALSE
  /\ \/ /\ issued < MaxTokens /\ issued' = issued + 1 /\ alive' = alive \union {issued + 1}
        /\ MayConnect(Target(url)) /\ Connects(conn, Target(url), issued + 1)
        /\ adrift' = (first # 0) /\ misled' = FALSE
        /\ UNCHANGED <<url, chatted, authed, checking, shown, asked, first, sent>>
     \/ UNCHANGED <<tab, token, issued, alive, asked, current, newest, conn, first, sent, adrift, misled>>

\* handleLogout(): the gateway revokes the token when the request reaches it (TokenDies).
Logout ==
  /\ authed
  /\ conn' = Closed(conn) /\ current' = 0 /\ token' = 0
  /\ url' = Home /\ chatted' = FALSE /\ authed' = FALSE /\ status' = "disconnected"
  /\ UNCHANGED <<checking, shown, login, newest, first, sent, adrift, misled>>

TokenDies(tok) ==
  /\ tok \in alive /\ alive' = alive \ {tok}
  /\ UNCHANGED <<tab, token, issued, signing, asked, current, newest, conn, first, sent, adrift, misled>>

\* Another tab logs out or finds the token dead, or logs in.
OtherTab ==
  /\ \/ token' = 0 /\ token # 0 /\ UNCHANGED <<issued, alive>>
     \/ /\ issued < MaxTokens /\ issued' = issued + 1 /\ token' = issued'
        /\ alive' = alive \union {issued'}
  /\ UNCHANGED <<tab, signing, asked, current, newest, conn, first, sent, adrift, misled>>

\* authedFetch: a component of the app asks the gateway something (one request at a time).
Asks ==
  /\ authed /\ asked = {} /\ asked' = {token}
  /\ UNCHANGED <<tab, token, issued, alive, signing, current, newest, conn, first, sent, adrift, misled>>

\* It is answered.  A 401 ends the login, whichever token is stored by then.
Answered(tok) ==
  /\ tok \in asked /\ asked' = {}
  /\ UNCHANGED <<issued, alive, signing, first, sent, adrift, misled>>
  /\ \/ tok \notin alive /\ AuthExpires(conn)
     \/ UNCHANGED <<tab, token, current, newest, conn>>

-----------------------------------------------------------------------------
(* An attempt's answers.                                                    *)

\* Mutant: the ticket of an attempt that was superseded still opens its socket.
IsNewestAny(a) == TRUE

IsNewest(a) == a = newest

\* POST /auth/ws-ticket is answered: 401, no ticket, or one to open the socket with.
TicketArrives(a) ==
  /\ conn[a].stage = "ticket"
  /\ UNCHANGED <<login, first, sent, adrift, misled>>
  /\ \/ /\ ~IsNewest(a)
        /\ conn' = Over(conn, a) /\ UNCHANGED <<tab, token, current, newest>>
     \/ /\ IsNewest(a) /\ conn[a].token \notin alive
        /\ AuthExpires(Over(conn, a))
     \/ /\ IsNewest(a)
        /\ conn' = Over(conn, a) /\ status' = "disconnected" /\ checking' = FALSE
        /\ UNCHANGED <<url, chatted, authed, shown, token, current, newest>>
     \/ /\ IsNewest(a) /\ conn[a].token \in alive
        /\ conn' = [conn EXCEPT ![a].stage = "opening"] /\ current' = a
        /\ shown' = (IF conn[a].path # Home THEN conn[a].path ELSE shown)
        /\ UNCHANGED <<url, chatted, status, authed, checking, token, newest>>

\* 'open': the gateway has accepted the socket and connects it to the runtime.  A socket that was
\* closed meanwhile has no 'open', one that was only left behind (by a login) has.
Opens(a) ==
  /\ conn[a].stage = "opening"
  /\ conn' = [conn EXCEPT ![a].stage = "open",
                          ![a].chat = IF conn[a].path = Home THEN NewChat(a) ELSE conn[a].path]
  /\ status' = "connected" /\ authed' = TRUE /\ checking' = FALSE
  /\ misled' = (misled \/ current # a)
  /\ UNCHANGED <<url, chatted, shown, token, login, current, newest, first, sent, adrift>>

\* The gateway refuses the socket.  'close' may follow 'error' at once, or never.
Refuses(a) ==
  /\ conn[a].stage = "opening"
  /\ conn' = [conn EXCEPT ![a].stage = "refused"]
  /\ UNCHANGED <<tab, token, login, current, newest, first, sent, adrift, misled>>

\* Mutant: only 'close' tells that a socket was refused.
GraceNever == FALSE

\* 'error' waits a moment for 'close', then does without.
Grace == TRUE

\* Either of them: handleHandshakeFailure(), which asks the gateway why.
Probes(a) ==
  /\ conn[a].stage = "refused" /\ current = a /\ Grace
  /\ conn' = [conn EXCEPT ![a].stage = "probing"] /\ current' = 0
  /\ UNCHANGED <<tab, token, login, newest, first, sent, adrift, misled>>

\* The probe is answered: the token is dead, or the chat is gone, or nothing more is to be done.
\* Nobody asks whether the user is still waiting for this attempt.
ProbeArrives(a) ==
  /\ conn[a].stage = "probing"
  /\ UNCHANGED <<login, first, sent, misled>>
  /\ \/ conn[a].token \notin alive /\ AuthExpires(Over(conn, a)) /\ UNCHANGED adrift
     \/ /\ conn[a].path # Home
        /\ url' = Home /\ chatted' = FALSE
        /\ Connects(Over(conn, a), Home, conn[a].token) /\ adrift' = (first # 0)
        /\ UNCHANGED <<authed, checking, shown>>
     \/ /\ conn[a].path = Home
        /\ conn' = Over(conn, a) /\ status' = "disconnected" /\ checking' = FALSE
        /\ UNCHANGED <<url, chatted, authed, shown, token, current, newest, adrift>>

-----------------------------------------------------------------------------
(* An open socket.                                                          *)

\* The `session` frame of a new chat, with which a first message that waits is sent.
SessionFrame(a) ==
  /\ conn[a].stage = "open" /\ conn[a].path = Home /\ ~conn[a].framed
  /\ conn' = [conn EXCEPT ![a].framed = TRUE]
  /\ IF current # a THEN UNCHANGED <<tab, first, sent, adrift>>
     ELSE /\ shown' = conn[a].chat
          /\ IF first = 0 THEN UNCHANGED <<url, chatted, first, sent, adrift>>
             ELSE /\ sent' = sent \union {[by |-> a, for |-> first, adrift |-> adrift]}
                  /\ first' = 0 /\ adrift' = FALSE
                  /\ url' = conn[a].chat /\ chatted' = TRUE
          /\ UNCHANGED <<status, authed, checking>>
  /\ UNCHANGED <<token, login, current, newest, misled>>

\* The runtime does not know the chat: `error`, then 'close'.
UnknownSession(a) ==
  /\ conn[a].stage = "open" /\ conn[a].path # Home /\ current = a
  /\ url' = Home /\ chatted' = FALSE
  /\ UNCHANGED <<status, authed, checking, shown, token, login, current, newest, conn, first, sent, adrift, misled>>

\* The connection is lost.
Drops(a) ==
  /\ conn[a].stage = "open"
  /\ conn' = Over(conn, a)
  /\ IF current = a THEN current' = 0 /\ status' = "disconnected" ELSE UNCHANGED <<current, status>>
  /\ UNCHANGED <<url, chatted, authed, checking, shown, token, login, newest, first, sent, adrift, misled>>

Answers(a) == TicketArrives(a) \/ Opens(a) \/ Refuses(a) \/ Probes(a) \/ ProbeArrives(a)

Next ==
  \/ \E project, typed \in BOOLEAN : StartNewSession(project, typed)
  \/ \E chat \in Chats : SwitchSession(chat)
  \/ \E place \in {Home, Hub, OldChat} : PopState(place)
  \/ Send \/ SignsIn \/ Login \/ Logout \/ OtherTab \/ Asks
  \/ \E tok \in 0 .. MaxTokens : TokenDies(tok) \/ Answered(tok)
  \/ \E a \in Attempts : Answers(a) \/ SessionFrame(a) \/ UnknownSession(a) \/ Drops(a)

Spec == Init /\ [][Next]_vars
\* A request is answered or fails, a socket opens or is refused, and a timer runs out.
FairSpec == Spec /\ \A a \in Attempts : WF_vars(Answers(a))

-----------------------------------------------------------------------------
(* Properties.                                                              *)

\* What is shown is what is connected: a tab that says so does not show the login form, uses an open
\* socket, and writes to the chat its address bar names (App.tsx:462-498), whatever old attempts,
\* probes and requests answer and whatever the other tabs do with the token.  The exceptions: a
\* login's attempt leaves an opening socket behind, which opens all the same; a message is sent
\* before a new chat has told its name, and takes the address of the chat before; Back or Forward
\* names a chat while no token is stored, and nothing follows.
ShownIsConnected ==
  (status = "connected" /\ ~misled) =>
    /\ authed
    /\ current # 0 /\ conn[current].stage = "open"
    /\ url \in Chats => conn[current].chat = url

\* A first message typed on a project's page is sent once, and in the chat it was typed for
\* (App.tsx:208-210), unless the tab has been led to another chat before that one had its name.
FirstMessageInItsChat ==
  \A s \in sent : s.for # 0 =>
    /\ s.adrift \/ s.by = s.for
    /\ \A other \in sent : other.for = s.for => other = s

\* "connecting" and "checking" do not last: the tab is connected, disconnected or back at the login
\* form, also when a refused socket has no 'close' event (App.tsx:380-397).
ConnectingEnds == []<>(status # "connecting" /\ ~checking)
=============================================================================
