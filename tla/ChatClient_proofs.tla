-------------------------- MODULE ChatClient_proofs ---------------------------
(***************************************************************************)
(* Theorems about the first message of a project chat and about what the   *)
(* tab shows, for any number of connection attempts and logins.            *)
(***************************************************************************)
EXTENDS ChatClient, TLAPS

\* The inductive invariant: the socket in use is the newest attempt's, a first
\* message that waits is for that attempt unless the tab was led elsewhere, and
\* none that was sent is still waiting.
FirstInv ==
  /\ newest \in Nat /\ first \in Nat /\ adrift \in BOOLEAN
  /\ current \in {0, newest}
  /\ first <= newest
  /\ first # 0 /\ ~adrift => first = newest
  /\ \A s \in sent : s.for \in Nat /\ s.for <= newest /\ (s.for # 0 => s.for # first)
  /\ FirstMessageInItsChat

LEMMA InitInv == Init => FirstInv
<1>. SUFFICES ASSUME Init
              PROVE  FirstInv
  OBVIOUS
<1>1. newest \in Nat /\ current = 0 /\ first = 0 /\ sent = {} /\ adrift = FALSE
  BY DEF Init
<1>2. adrift \in BOOLEAN
  BY <1>1
<1>3. FirstMessageInItsChat
  BY <1>1 DEF FirstMessageInItsChat
<1>. QED
  BY <1>1, <1>2, <1>3 DEF FirstInv

\* A step that makes no new attempt and sends nothing that was waiting.
LEMMA KeepsFirst ==
  ASSUME FirstInv, UNCHANGED <<newest, first, sent>>, current' \in {0, newest},
         adrift' = adrift
  PROVE  FirstInv'
BY DEF FirstInv, FirstMessageInItsChat

\* connect() from anywhere but the page the message is typed on.
LEMMA LeadsElsewhere ==
  ASSUME FirstInv, newest' = newest + 1, current' = 0, UNCHANGED <<first, sent>>,
         adrift' = (first # 0)
  PROVE  FirstInv'
<1>1. newest' \in Nat /\ newest <= newest' /\ newest' # 0
  BY DEF FirstInv
<1>2. adrift' \in BOOLEAN /\ (first' # 0 => adrift')
  OBVIOUS
<1>3. \A s \in sent' : s.for \in Nat /\ s.for <= newest' /\ (s.for # 0 => s.for # first')
  BY DEF FirstInv
<1>4. FirstMessageInItsChat'
  BY DEF FirstInv, FirstMessageInItsChat
<1>. QED
  BY <1>1, <1>2, <1>3, <1>4 DEF FirstInv

LEMMA StartInv ==
  ASSUME FirstInv, NEW project \in BOOLEAN, NEW typed \in BOOLEAN,
         StartNewSession(project, typed)
  PROVE  FirstInv'
<1>1. /\ newest' = newest + 1 /\ current' = 0 /\ adrift' = FALSE /\ sent' = sent
      /\ first' \in {0, newest + 1}
  BY DEF StartNewSession, Connects, FirstMessage
<1>2. \A s \in sent' : s.for \in Nat /\ s.for <= newest' /\ (s.for # 0 => s.for # first')
  BY <1>1 DEF FirstInv
<1>3. FirstMessageInItsChat'
  BY <1>1 DEF FirstInv, FirstMessageInItsChat
<1>4. adrift' \in BOOLEAN
  BY <1>1
<1>5. /\ newest' \in Nat /\ first' \in Nat /\ first' <= newest'
      /\ (first' # 0 => first' = newest')
  BY <1>1 DEF FirstInv
<1>. QED
  BY <1>1, <1>2, <1>3, <1>4, <1>5 DEF FirstInv

\* The frame that names a new chat sends the message that waits: it was typed
\* for this very attempt, unless the tab was led here meanwhile.
LEMMA SessionFrameInv ==
  ASSUME FirstInv, NEW a \in Attempts, SessionFrame(a)
  PROVE  FirstInv'
<1>1. CASE current # a \/ first = 0
  <2>1. UNCHANGED <<newest, first, sent, current, adrift>>
    BY <1>1 DEF SessionFrame
  <2>. QED
    BY <2>1, KeepsFirst DEF FirstInv
<1>2. CASE current = a /\ first # 0
  <2>1. /\ UNCHANGED <<newest, current>> /\ first' = 0 /\ adrift' = FALSE
        /\ sent' = sent \union {[by |-> a, for |-> first, adrift |-> adrift]}
    BY <1>2 DEF SessionFrame
  <2>2. a = newest
    BY <1>2, ChatClientAssumption DEF FirstInv, Attempts
  <2>3. \A s \in sent' : s.for \in Nat /\ s.for <= newest' /\ (s.for # 0 => s.for # first')
    BY <2>1 DEF FirstInv
  <2>4. ASSUME NEW s \in sent', s.for # 0
        PROVE  s.adrift \/ s.by = s.for
    BY <2>1, <2>2, <2>4, <1>2 DEF FirstInv, FirstMessageInItsChat
  <2>5. ASSUME NEW s \in sent', NEW other \in sent', s.for # 0, other.for = s.for
        PROVE  other = s
    BY <2>1, <2>5 DEF FirstInv, FirstMessageInItsChat
  <2>6. FirstMessageInItsChat'
    BY <2>4, <2>5 DEF FirstMessageInItsChat
  <2>7. adrift' \in BOOLEAN
    BY <2>1
  <2>. QED
    BY <2>1, <2>3, <2>6, <2>7 DEF FirstInv
<1>. QED
  BY <1>1, <1>2

\* An attempt's answers leave what waits alone; a chat that is gone is replaced
\* by a new one, which is not the one the message was typed for.
LEMMA AnswersInv ==
  ASSUME FirstInv, NEW a \in Attempts, Answers(a)
  PROVE  FirstInv'
<1>1. CASE TicketArrives(a)
  <2>1. UNCHANGED <<newest, first, sent, adrift>> /\ current' \in {0, newest}
    BY <1>1 DEF TicketArrives, AuthExpires, IsNewest, FirstInv
  <2>. QED
    BY <2>1, KeepsFirst
<1>2. CASE Opens(a) \/ Refuses(a) \/ Probes(a)
  <2>1. UNCHANGED <<newest, first, sent, adrift>> /\ current' \in {0, newest}
    BY <1>2 DEF Opens, Refuses, Probes, FirstInv
  <2>. QED
    BY <2>1, KeepsFirst
<1>3. CASE ProbeArrives(a)
  <2>1. CASE newest' = newest
    <3>1. UNCHANGED <<first, sent, adrift>> /\ current' \in {0, newest}
      BY <1>3, <2>1 DEF ProbeArrives, AuthExpires, Connects, FirstInv
    <3>. QED
      BY <2>1, <3>1, KeepsFirst
  <2>2. CASE newest' # newest
    <3>1. newest' = newest + 1 /\ current' = 0 /\ UNCHANGED <<first, sent>> /\ adrift' = (first # 0)
      BY <1>3, <2>2 DEF ProbeArrives, AuthExpires, Connects
    <3>. QED
      BY <3>1, LeadsElsewhere
  <2>. QED
    BY <2>1, <2>2
<1>. QED
  BY <1>1, <1>2, <1>3 DEF Answers

LEMMA SendInv ==
  ASSUME FirstInv, Send
  PROVE  FirstInv'
<1>1. /\ UNCHANGED <<newest, first, current, adrift>>
      /\ sent' = sent \union {[by |-> current, for |-> 0, adrift |-> FALSE]}
  BY DEF Send
<1>2. \A s \in sent' : s.for \in Nat /\ s.for <= newest' /\ (s.for # 0 => s.for # first')
  BY <1>1 DEF FirstInv
<1>3. \A s \in sent' : s.for # 0 => s \in sent
  BY <1>1
<1>4. FirstMessageInItsChat'
  BY <1>3 DEF FirstInv, FirstMessageInItsChat
<1>. QED
  BY <1>1, <1>2, <1>4 DEF FirstInv

LEMMA NextInv == FirstInv /\ [Next]_vars => FirstInv'
<1>. SUFFICES ASSUME FirstInv, [Next]_vars
              PROVE  FirstInv'
  OBVIOUS
<1>1. ASSUME NEW project \in BOOLEAN, NEW typed \in BOOLEAN, StartNewSession(project, typed)
      PROVE  FirstInv'
  BY <1>1, StartInv
<1>2. ASSUME NEW chat \in Chats, SwitchSession(chat)
      PROVE  FirstInv'
  BY <1>2, LeadsElsewhere DEF SwitchSession, Connects
<1>3. ASSUME NEW place, PopState(place)
      PROVE  FirstInv'
  <2>1. CASE UNCHANGED <<current, newest, adrift>>
    BY <1>3, <2>1, KeepsFirst DEF PopState, FirstInv
  <2>2. CASE Connects(Closed(conn), Target(place), token) /\ adrift' = (first # 0)
    BY <1>3, <2>2, LeadsElsewhere DEF PopState, Connects
  <2>. QED
    BY <1>3, <2>1, <2>2 DEF PopState
<1>4. CASE Send
  BY <1>4, SendInv
<1>5. CASE Login
  <2>1. CASE Connects(conn, Target(url), issued + 1) /\ adrift' = (first # 0) /\ UNCHANGED <<first, sent>>
    BY <2>1, LeadsElsewhere DEF Connects
  <2>2. CASE UNCHANGED <<current, newest, first, sent, adrift>>
    BY <2>2, KeepsFirst DEF FirstInv
  <2>. QED
    BY <1>5, <2>1, <2>2 DEF Login
<1>6. CASE Logout
  BY <1>6, KeepsFirst DEF Logout, login
<1>7. ASSUME NEW tok, TokenDies(tok) \/ SignsIn \/ OtherTab \/ Asks
      PROVE  FirstInv'
  BY <1>7, KeepsFirst DEF TokenDies, SignsIn, OtherTab, Asks, FirstInv
<1>12. ASSUME NEW tok, Answered(tok)
       PROVE  FirstInv'
  <2>1. UNCHANGED <<newest, first, sent, adrift>> /\ current' \in {0, newest}
    BY <1>12 DEF Answered, AuthExpires, FirstInv
  <2>. QED
    BY <2>1, KeepsFirst
<1>8. ASSUME NEW a \in Attempts, Answers(a)
      PROVE  FirstInv'
  BY <1>8, AnswersInv
<1>9. ASSUME NEW a \in Attempts, SessionFrame(a)
      PROVE  FirstInv'
  BY <1>9, SessionFrameInv
<1>10. ASSUME NEW a \in Attempts, UnknownSession(a) \/ Drops(a)
       PROVE  FirstInv'
  <2>1. UNCHANGED <<newest, first, sent, adrift>> /\ current' \in {0, newest}
    BY <1>10 DEF UnknownSession, Drops, FirstInv
  <2>. QED
    BY <2>1, KeepsFirst
<1>11. CASE UNCHANGED vars
  BY <1>11, KeepsFirst DEF vars, FirstInv
<1>. QED
  BY <1>1, <1>2, <1>3, <1>4, <1>5, <1>6, <1>7, <1>8, <1>9, <1>10, <1>11, <1>12 DEF Next

\* A first message typed on a project's page is sent at most once, and in the
\* chat it was typed for, unless the tab connected elsewhere while it waited (a
\* switch, Back or Forward, a login, a chat that is gone: `adrift`): for any number
\* of attempts, answers in any order and any logins.
THEOREM FirstMessageArrives == Spec => []FirstMessageInItsChat
<1>1. FirstInv => FirstMessageInItsChat
  BY DEF FirstInv
<1>. QED
  BY <1>1, InitInv, NextInv, PTL DEF Spec

-----------------------------------------------------------------------------
(* What the tab shows is what it is connected to.                           *)

Places == {Home} \union Chats
Stages == {"none", "ticket", "opening", "open", "refused", "probing", "over"}
Attempt == [path : Places, token : Nat, stage : Stages, chat : Places, framed : BOOLEAN]
Typed(cs) == cs \in [Attempts -> Attempt]

\* The attempts are numbered, and the socket in use is the newest one's.
Numbered ==
  /\ newest \in Nat /\ token \in Nat /\ issued \in Nat
  /\ current \in {0} \union Attempts /\ current \in {0, newest}

\* Until its socket is open, the newest attempt is for the chat the address bar
\* names, if that names one.
NewestForAddress ==
  (~misled /\ newest \in Attempts /\ conn[newest].stage \in {"ticket", "opening"})
    => (url \in Chats => url = conn[newest].path)

TabInv ==
  /\ Typed(conn)
  /\ Numbered
  /\ NewestForAddress
  /\ ShownIsConnected

\* The start page and a project's page are no chats.
LEMMA PlaceFacts ==
  /\ Home \notin Chats /\ Hub \notin Chats /\ OldChat \in Chats
  /\ \A a \in Attempts : NewChat(a) \in Chats
  /\ \A place : Target(place) \in Places /\ (place \in Chats => Target(place) = place)
<1>1. <<>> # <<"old">> /\ <<"hub">> # <<"old">>
  <2>1. <<"hub">>[1] # <<"old">>[1]
    OBVIOUS
  <2>2. Len(<<>>) # Len(<<"old">>)
    OBVIOUS
  <2>. QED
    BY <2>1, <2>2
<1>2. ASSUME NEW a PROVE <<>> # <<"new", a>> /\ <<"hub">> # <<"new", a>>
  <2>1. Len(<<"new", a>>) # Len(<<>>) /\ Len(<<"new", a>>) # Len(<<"hub">>)
    OBVIOUS
  <2>. QED
    BY <2>1
<1>. QED
  BY <1>1, <1>2 DEF Home, Hub, OldChat, NewChat, Chats, Target, Places

LEMMA AttemptsFacts == Attempts \subseteq Nat \ {0} /\ 1 \in Attempts
BY ChatClientAssumption DEF Attempts

\* An attempt that is over.
LEMMA OverTyped ==
  ASSUME NEW cs, Typed(cs), NEW a \in Attempts
  PROVE  /\ Typed(Over(cs, a)) /\ Over(cs, a)[a].stage = "over"
         /\ \A b \in Attempts \ {a} : Over(cs, a)[b] = cs[b]
<1>. DEFINE m == [NoAttempt EXCEPT !.stage = "over"]
            n == [m EXCEPT !.chat = cs[a].chat]
<1>1. NoAttempt \in Attempt
  BY DEF NoAttempt, Attempt, Places, Stages
<1>2. m \in Attempt /\ m.stage = "over"
  BY <1>1 DEF Attempt, Stages
<1>. HIDE DEF m
<1>3. n \in Attempt /\ n.stage = "over"
  BY <1>2 DEF Attempt, Typed
<1>4. Over(cs, a) = [cs EXCEPT ![a] = n]
  BY Zenon DEF Over, m
<1>. HIDE DEF n
<1>. QED
  BY <1>3, <1>4 DEF Typed

\* Closing the socket in use.
LEMMA ClosedTyped ==
  ASSUME NEW cs, Typed(cs), current \in {0} \union Attempts
  PROVE  /\ Typed(Closed(cs))
         /\ \A a \in Attempts : Closed(cs)[a] = cs[a] \/ Closed(cs)[a].stage = "over"
<1>1. CASE current = 0
  BY <1>1 DEF Closed
<1>2. CASE current # 0
  BY <1>2, OverTyped DEF Closed
<1>. QED
  BY <1>1, <1>2

\* connect(): the new attempt is for the chat that the address bar names.
LEMMA ConnectsShown ==
  ASSUME Numbered, NEW cs, Typed(cs), NEW path \in Places, NEW tok \in Nat,
         issued' \in Nat,
         Connects(cs, path, tok), misled' \/ (url' \in Chats => url' = path)
  PROVE  TabInv'
<1>. DEFINE made == [NoAttempt EXCEPT !.path = path, !.token = tok, !.stage = "ticket"]
            ds == [cs EXCEPT ![newest + 1] = made]
<1>1. made = [[[NoAttempt EXCEPT !.path = path] EXCEPT !.token = tok] EXCEPT !.stage = "ticket"]
  BY Zenon
<1>2. made \in Attempt /\ made.path = path
  <2>. DEFINE m == [NoAttempt EXCEPT !.path = path]
              n == [m EXCEPT !.token = tok]
  <2>1. NoAttempt \in Attempt
    BY DEF NoAttempt, Attempt, Places, Stages
  <2>2. m \in Attempt /\ m.path = path
    BY <2>1 DEF Attempt
  <2>. HIDE DEF m
  <2>3. n \in Attempt /\ n.path = path
    BY <2>2 DEF Attempt
  <2>4. made = [n EXCEPT !.stage = "ticket"] /\ "ticket" \in Stages
    BY <1>1 DEF m, Stages
  <2>. HIDE DEF made, n
  <2>. QED
    BY <2>3, <2>4 DEF Attempt
<1>3. /\ newest' = newest + 1 /\ current' = 0 /\ token' = tok /\ status' = "connecting"
      /\ conn' = ds
  BY DEF Connects
<1>. HIDE DEF made
<1>4. Typed(ds)
  BY <1>2 DEF Typed
<1>5. newest' \in Attempts => ds[newest'].path = path
  BY <1>2, <1>3 DEF Typed
<1>6. Numbered'
  BY <1>3 DEF Numbered
<1>7. Typed(conn)'
  BY <1>3, <1>4 DEF Typed
<1>8. NewestForAddress' /\ ShownIsConnected'
  BY <1>3, <1>5 DEF NewestForAddress, ShownIsConnected
<1>. QED
  BY <1>6, <1>7, <1>8 DEF TabInv

LEMMA StartShown ==
  ASSUME TabInv, NEW project \in BOOLEAN, NEW typed \in BOOLEAN, StartNewSession(project, typed)
  PROVE  TabInv'
<1>1. Typed(Closed(conn))
  BY ClosedTyped DEF TabInv, Numbered
<1>2. url' \notin Chats /\ Connects(Closed(conn), Home, token) /\ issued' = issued
  BY PlaceFacts DEF StartNewSession, login
<1>3. token \in Nat /\ issued' \in Nat /\ Home \in Places
  BY <1>2 DEF TabInv, Numbered, Places
<1>. QED
  BY <1>1, <1>2, <1>3, ConnectsShown DEF TabInv

LEMMA SwitchShown ==
  ASSUME TabInv, NEW chat \in Chats, SwitchSession(chat)
  PROVE  TabInv'
<1>1. Typed(Closed(conn))
  BY ClosedTyped DEF TabInv, Numbered
<1>2. url' = chat /\ Connects(Closed(conn), chat, token) /\ issued' = issued
  BY DEF SwitchSession, login
<1>3. token \in Nat /\ issued' \in Nat /\ chat \in Places
  BY <1>2 DEF TabInv, Numbered, Places
<1>. QED
  BY <1>1, <1>2, <1>3, ConnectsShown DEF TabInv

\* A step that leaves every attempt alone, at most taking the chat out of the
\* address bar; the tokens may change.
LEMMA LeavesShown ==
  ASSUME TabInv, UNCHANGED <<status, authed, current, newest, conn>>, misled => misled',
         token' \in Nat, issued' \in Nat, url' = url \/ url' \notin Chats \/ misled'
  PROVE  TabInv'
<1>1. Typed(conn)' /\ Numbered'
  BY DEF TabInv, Typed, Numbered
<1>2. NewestForAddress' /\ ShownIsConnected'
  BY DEF TabInv, NewestForAddress, ShownIsConnected
<1>. QED
  BY <1>1, <1>2 DEF TabInv

LEMMA TokensShown ==
  ASSUME TabInv, NEW tok, TokenDies(tok) \/ SignsIn \/ OtherTab \/ Asks
  PROVE  TabInv'
<1>1. token \in Nat /\ issued \in Nat
  BY DEF TabInv, Numbered
<1>2. token' \in Nat /\ issued' \in Nat
  BY <1>1 DEF TokenDies, SignsIn, OtherTab, Asks, tab
<1>. QED
  BY <1>2, LeavesShown DEF TokenDies, SignsIn, OtherTab, Asks, tab

LEMMA PopStateShown ==
  ASSUME TabInv, NEW place, PopState(place)
  PROVE  TabInv'
<1>1. token \in Nat /\ issued' \in Nat
  BY DEF PopState, TabInv, Numbered, login
<1>2. CASE Connects(Closed(conn), Target(place), token)
  <2>1. Typed(Closed(conn))
    BY ClosedTyped DEF TabInv, Numbered
  <2>2. Target(place) \in Places /\ (url' \in Chats => url' = Target(place))
    BY PlaceFacts DEF PopState
  <2>. QED
    BY <1>1, <1>2, <2>1, <2>2, ConnectsShown DEF TabInv
<1>3. CASE UNCHANGED <<status, current, newest, conn, token>> /\ (misled => misled')
           /\ (url' \notin Chats \/ misled')
  BY <1>1, <1>3, LeavesShown DEF PopState
<1>4. CASE place # Hub /\ token # 0 /\ newest # 0
  BY <1>2, <1>4 DEF PopState
<1>5. CASE place = Hub /\ token # 0 /\ newest # 0
  <2>1. UNCHANGED <<status, current, newest, conn, token, misled>> /\ url' = Hub
    BY <1>5 DEF PopState
  <2>. QED
    BY <1>3, <2>1, PlaceFacts
<1>6. CASE token = 0 \/ newest = 0
  <2>1. /\ UNCHANGED <<status, current, newest, conn, token>> /\ url' = place
        /\ misled' = (misled \/ place \in Chats)
    BY <1>6 DEF PopState
  <2>. QED
    BY <1>3, <2>1, Zenon
<1>. QED
  BY <1>4, <1>5, <1>6

LEMMA SendShown ==
  ASSUME TabInv, Send
  PROVE  TabInv'
<1>1. /\ UNCHANGED <<status, authed, token, issued, current, newest, conn>>
      /\ current # 0 /\ conn[current].stage = "open" /\ current = newest
  BY DEF Send, TabInv, Numbered, login
<1>2. \/ url' = url /\ misled' = misled
      \/ url' = shown /\ misled' = (misled \/ conn[current].chat # shown)
  BY DEF Send
<1>3. Typed(conn)' /\ Numbered'
  BY <1>1 DEF TabInv, Typed, Numbered
<1>4. NewestForAddress'
  BY <1>1 DEF NewestForAddress
<1>5. ShownIsConnected'
  BY <1>1, <1>2 DEF TabInv, ShownIsConnected
<1>. QED
  BY <1>3, <1>4, <1>5 DEF TabInv

LEMMA LoginShown ==
  ASSUME TabInv, Login
  PROVE  TabInv'
<1>1. token \in Nat /\ issued \in Nat
  BY DEF TabInv, Numbered
<1>2. CASE Connects(conn, Target(url), issued + 1) /\ issued' = issued + 1 /\ url' = url
  <2>1. Target(url) \in Places /\ (url' \in Chats => url' = Target(url))
    BY <1>2, PlaceFacts
  <2>. QED
    BY <1>1, <1>2, <2>1, ConnectsShown DEF TabInv
<1>3. CASE UNCHANGED <<tab, token, issued, current, newest, conn, misled>>
  BY <1>1, <1>3, LeavesShown DEF tab
<1>. QED
  BY <1>2, <1>3 DEF Login, tab

\* The tab gives up its socket and is disconnected.
LEMMA GivesUp ==
  ASSUME TabInv, Typed(conn)', newest' = newest, issued' = issued, token' = 0, current' = 0,
         status' = "disconnected", misled => misled', url' = url \/ url' \notin Chats,
         \A b \in Attempts : conn'[b] = conn[b] \/ conn'[b].stage = "over"
  PROVE  TabInv'
<1>1. Numbered'
  BY DEF TabInv, Numbered
<1>2. NewestForAddress' /\ ShownIsConnected'
  BY DEF TabInv, NewestForAddress, ShownIsConnected
<1>. QED
  BY <1>1, <1>2 DEF TabInv

LEMMA LogoutShown ==
  ASSUME TabInv, Logout
  PROVE  TabInv'
<1>1. /\ Typed(Closed(conn))
      /\ \A b \in Attempts : Closed(conn)[b] = conn[b] \/ Closed(conn)[b].stage = "over"
  BY ClosedTyped DEF TabInv, Numbered
<1>2. /\ conn' = Closed(conn) /\ newest' = newest /\ issued' = issued /\ token' = 0 /\ current' = 0
      /\ status' = "disconnected" /\ url' \notin Chats /\ misled' = misled
  BY PlaceFacts DEF Logout, login
<1>3. Typed(conn)'
  BY <1>1, <1>2 DEF Typed
<1>. QED
  BY <1>1, <1>2, <1>3, GivesUp

\* The login has expired: all that some attempts can have become is over.
LEMMA ExpiresShown ==
  ASSUME TabInv, NEW cs, Typed(cs), AuthExpires(cs), issued' = issued, misled' = misled,
         \A b \in Attempts : cs[b] = conn[b] \/ cs[b].stage = "over"
  PROVE  TabInv'
<1>1. /\ Typed(Closed(cs))
      /\ \A b \in Attempts : Closed(cs)[b] = cs[b] \/ Closed(cs)[b].stage = "over"
  BY ClosedTyped DEF TabInv, Numbered
<1>2. /\ conn' = Closed(cs) /\ newest' = newest /\ token' = 0 /\ current' = 0
      /\ status' = "disconnected" /\ url' = url
  BY DEF AuthExpires
<1>3. \A b \in Attempts : conn'[b] = conn[b] \/ conn'[b].stage = "over"
  BY <1>1, <1>2
<1>4. Typed(conn)'
  BY <1>1, <1>2 DEF Typed
<1>. QED
  BY <1>2, <1>3, <1>4, GivesUp

LEMMA AnsweredShown ==
  ASSUME TabInv, NEW tok, Answered(tok)
  PROVE  TabInv'
<1>1. CASE AuthExpires(conn)
  BY <1>1, ExpiresShown DEF Answered, TabInv
<1>2. CASE UNCHANGED <<tab, token, current, newest, conn>>
  BY <1>2, LeavesShown DEF Answered, tab, TabInv, Numbered
<1>. QED
  BY <1>1, <1>2 DEF Answered

\* Attempt a moves on to stage s.
Moved(a, s) == [conn EXCEPT ![a].stage = s]

LEMMA MovesOn ==
  ASSUME TabInv, NEW a \in Attempts, NEW s \in Stages
  PROVE  /\ Typed(Moved(a, s))
         /\ Moved(a, s)[a].path = conn[a].path /\ Moved(a, s)[a].chat = conn[a].chat
         /\ \A b \in Attempts \ {a} : Moved(a, s)[b] = conn[b]
         /\ Moved(a, s)[a].stage = s
         /\ conn' = Moved(a, s) => Typed(conn)'
<1>1. conn \in [Attempts -> Attempt]
  BY DEF TabInv, Typed
<1>2. Moved(a, s) \in [Attempts -> Attempt]
  BY <1>1 DEF Attempt, Moved
<1>. QED
  BY <1>1, <1>2 DEF Attempt, Moved, Typed

\* Attempt a comes to nothing, and the tab takes note of it at most by being disconnected.
LEMMA StaysShown ==
  ASSUME TabInv, NEW a \in Attempts, Typed(conn)',
         \A b \in Attempts \ {a} : conn'[b] = conn[b],
         conn'[a].stage \in {"refused", "probing", "over"},
         UNCHANGED <<newest, token, issued, url, authed, misled>>,
         current' \in {0, current}, status' \in {status, "disconnected"},
         a = current \/ current' # current => status' = "disconnected" \/ conn[a].stage # "open",
         current' # current => a = current
  PROVE  TabInv'
<1>1. /\ newest \in Nat /\ current \in {0} \union Attempts /\ current \in {0, newest}
  BY DEF TabInv, Numbered
<1>2. Numbered'
  BY <1>1 DEF TabInv, Numbered
<1>3. NewestForAddress'
  BY <1>1 DEF TabInv, NewestForAddress
<1>4. ShownIsConnected'
  BY <1>1 DEF TabInv, ShownIsConnected
<1>. QED
  BY <1>2, <1>3, <1>4 DEF TabInv

\* Attempt a is over.
LEMMA EndsShown ==
  ASSUME TabInv, NEW a \in Attempts, conn' = Over(conn, a), conn[a].stage # "open",
         UNCHANGED <<newest, token, issued, url, authed, misled, current>>,
         status' \in {status, "disconnected"}
  PROVE  TabInv'
<1>1. /\ Typed(Over(conn, a)) /\ conn'[a].stage = "over"
      /\ \A b \in Attempts \ {a} : conn'[b] = conn[b]
  BY OverTyped DEF TabInv
<1>2. Typed(conn)'
  BY <1>1 DEF Typed
<1>. QED
  BY <1>1, <1>2, StaysShown

LEMMA TicketShown ==
  ASSUME TabInv, NEW a \in Attempts, TicketArrives(a)
  PROVE  TabInv'
<1>1. /\ conn[a].stage = "ticket" /\ issued' = issued /\ misled' = misled
      /\ current \in {0, newest} /\ newest \in Nat /\ token \in Nat /\ issued \in Nat
  BY DEF TicketArrives, TabInv, Numbered, login
<1>2. CASE conn' = Over(conn, a) /\ UNCHANGED <<tab, token, current, newest>>
  BY <1>1, <1>2, EndsShown DEF tab
<1>3. CASE AuthExpires(Over(conn, a))
  BY <1>1, <1>3, OverTyped, ExpiresShown DEF TabInv
<1>4. CASE /\ conn' = Over(conn, a) /\ status' = "disconnected"
           /\ UNCHANGED <<url, authed, token, current, newest>>
  BY <1>1, <1>4, EndsShown
<1>5. CASE /\ a = newest /\ conn' = Moved(a, "opening") /\ current' = a
           /\ UNCHANGED <<url, status, authed, token, newest>>
  <2>1. Typed(conn)' /\ conn'[a].path = conn[a].path
    BY <1>1, <1>5, MovesOn DEF Stages
  <2>2. Numbered'
    BY <1>1, <1>5 DEF Numbered
  <2>3. NewestForAddress'
    BY <1>1, <1>5, <2>1 DEF NewestForAddress, TabInv
  <2>4. ShownIsConnected'
    BY <1>1, <1>5, AttemptsFacts DEF ShownIsConnected, TabInv
  <2>. QED
    BY <2>1, <2>2, <2>3, <2>4 DEF TabInv
<1>. QED
  BY <1>2, <1>3, <1>4, <1>5 DEF TicketArrives, IsNewest, Moved

LEMMA OpensShown ==
  ASSUME TabInv, NEW a \in Attempts, Opens(a)
  PROVE  TabInv'
<1>. DEFINE chat == IF conn[a].path = Home THEN NewChat(a) ELSE conn[a].path
            cs == Moved(a, "open")
            ds == [cs EXCEPT ![a].chat = chat]
<1>1. /\ conn[a].stage = "opening" /\ status' = "connected" /\ authed' = TRUE
      /\ misled' = (misled \/ current # a)
      /\ UNCHANGED <<url, token, issued, current, newest>>
      /\ newest \in Nat /\ current \in {0} \union Attempts /\ current \in {0, newest}
  BY DEF Opens, TabInv, Numbered, login
<1>2. conn' = ds
  BY Zenon DEF Opens, Moved
<1>3. Typed(cs) /\ cs[a].stage = "open" /\ \A b \in Attempts \ {a} : cs[b] = conn[b]
  BY <1>1, MovesOn DEF Stages
<1>4. conn[a].path \in Places
  BY DEF TabInv, Typed, Attempt
<1>5. chat \in Places /\ (url \in Chats /\ url = conn[a].path => chat = url)
  BY <1>4, PlaceFacts DEF Places
<1>. HIDE DEF cs, chat
<1>6. /\ ds \in [Attempts -> Attempt] /\ ds[a].stage = "open" /\ ds[a].chat = chat
      /\ \A b \in Attempts \ {a} : ds[b] = conn[b]
  BY <1>3, <1>5 DEF Typed, Attempt
<1>. HIDE DEF ds
<1>7. Typed(conn)'
  BY <1>2, <1>6 DEF Typed
<1>8. Numbered'
  BY <1>1 DEF Numbered, TabInv
<1>9. NewestForAddress'
  BY <1>1, <1>2, <1>6 DEF NewestForAddress, TabInv
<1>10. ShownIsConnected'
  BY <1>1, <1>2, <1>5, <1>6, AttemptsFacts DEF ShownIsConnected, TabInv, NewestForAddress
<1>. QED
  BY <1>7, <1>8, <1>9, <1>10 DEF TabInv

LEMMA ProbeShown ==
  ASSUME TabInv, NEW a \in Attempts, ProbeArrives(a)
  PROVE  TabInv'
<1>1. /\ conn[a].stage = "probing" /\ issued' = issued /\ misled' = misled /\ issued \in Nat
      /\ Typed(Over(conn, a)) /\ Over(conn, a)[a].stage = "over"
      /\ \A b \in Attempts \ {a} : Over(conn, a)[b] = conn[b]
  BY OverTyped DEF ProbeArrives, TabInv, Numbered, login
<1>2. CASE AuthExpires(Over(conn, a))
  BY <1>1, <1>2, ExpiresShown
<1>3. CASE url' = Home /\ Connects(Over(conn, a), Home, conn[a].token)
  <2>1. conn[a].token \in Nat
    BY DEF TabInv, Typed, Attempt
  <2>2. url' \notin Chats /\ Home \in Places
    BY <1>3, PlaceFacts DEF Places
  <2>. QED
    BY <1>1, <1>3, <2>1, <2>2, ConnectsShown DEF TabInv
<1>4. CASE /\ conn' = Over(conn, a) /\ status' = "disconnected"
           /\ UNCHANGED <<url, authed, token, current, newest>>
  BY <1>1, <1>4, EndsShown
<1>. QED
  BY <1>2, <1>3, <1>4 DEF ProbeArrives

LEMMA FrameShown ==
  ASSUME TabInv, NEW a \in Attempts, SessionFrame(a)
  PROVE  TabInv'
<1>. DEFINE ds == [conn EXCEPT ![a].framed = TRUE]
<1>0. /\ newest \in Nat /\ current \in {0} \union Attempts /\ current \in {0, newest}
  BY DEF TabInv, Numbered
<1>1. /\ conn[a].stage = "open" /\ conn' = ds
      /\ UNCHANGED <<status, authed, token, issued, current, newest, misled>>
      /\ \/ url' = url
         \/ current = a /\ url' = conn[a].chat
  <2>1. CASE current # a
    BY <2>1 DEF SessionFrame, tab, login
  <2>2. CASE current = a /\ first = 0
    BY <2>2 DEF SessionFrame, login
  <2>3. CASE current = a /\ first # 0
    BY <2>3 DEF SessionFrame, login
  <2>. QED
    BY <2>1, <2>2, <2>3
<1>2. conn \in [Attempts -> Attempt]
  BY DEF TabInv, Typed
<1>3. /\ ds \in [Attempts -> Attempt]
      /\ \A b \in Attempts : /\ ds[b].stage = conn[b].stage
                             /\ ds[b].path = conn[b].path /\ ds[b].chat = conn[b].chat
  BY <1>2 DEF Attempt
<1>. HIDE DEF ds
<1>4. Typed(conn)'
  BY <1>1, <1>3 DEF TabInv, Typed
<1>5. Numbered'
  BY <1>0, <1>1 DEF Numbered, TabInv
<1>6. NewestForAddress'
  BY <1>0, <1>1, <1>3, AttemptsFacts DEF NewestForAddress, TabInv
<1>7. ShownIsConnected'
  BY <1>0, <1>1, <1>3 DEF ShownIsConnected, TabInv
<1>. QED
  BY <1>4, <1>5, <1>6, <1>7 DEF TabInv

LEMMA AttemptShown ==
  ASSUME TabInv, NEW a \in Attempts,
         Answers(a) \/ SessionFrame(a) \/ UnknownSession(a) \/ Drops(a)
  PROVE  TabInv'
<1>1. CASE TicketArrives(a)
  BY <1>1, TicketShown
<1>2. CASE Opens(a)
  BY <1>2, OpensShown
<1>3. CASE Refuses(a)
  <2>1. /\ conn[a].stage = "opening" /\ conn' = Moved(a, "refused")
        /\ UNCHANGED <<newest, token, issued, url, authed, misled, current, status>>
    BY <1>3 DEF Refuses, tab, Moved, login
  <2>2. /\ Typed(conn)' /\ conn'[a].stage = "refused"
        /\ \A b \in Attempts \ {a} : conn'[b] = conn[b]
    BY <2>1, MovesOn DEF Stages
  <2>. QED
    BY <2>1, <2>2, StaysShown
<1>4. CASE Probes(a)
  <2>1. /\ conn[a].stage = "refused" /\ conn' = Moved(a, "probing") /\ current = a /\ current' = 0
        /\ UNCHANGED <<newest, token, issued, url, authed, misled, status>>
    BY <1>4 DEF Probes, tab, Moved, login
  <2>2. /\ Typed(conn)' /\ conn'[a].stage = "probing"
        /\ \A b \in Attempts \ {a} : conn'[b] = conn[b]
    BY <2>1, MovesOn DEF Stages
  <2>. QED
    BY <2>1, <2>2, StaysShown
<1>5. CASE ProbeArrives(a)
  BY <1>5, ProbeShown
<1>6. CASE SessionFrame(a)
  BY <1>6, FrameShown
<1>7. CASE UnknownSession(a)
  BY <1>7, LeavesShown, PlaceFacts DEF UnknownSession, login, TabInv, Numbered
<1>8. CASE Drops(a)
  <2>1. /\ conn[a].stage = "open" /\ conn' = Over(conn, a)
        /\ UNCHANGED <<newest, token, issued, url, authed, misled>>
        /\ \/ current = a /\ current' = 0 /\ status' = "disconnected"
           \/ current # a /\ UNCHANGED <<current, status>>
    BY <1>8 DEF Drops, login
  <2>2. /\ Typed(Over(conn, a)) /\ conn'[a].stage = "over"
        /\ \A b \in Attempts \ {a} : conn'[b] = conn[b]
    BY <2>1, OverTyped DEF TabInv
  <2>3. Typed(conn)'
    BY <2>1, <2>2 DEF Typed
  <2>. QED
    BY <2>1, <2>2, <2>3, StaysShown
<1>. QED
  BY <1>1, <1>2, <1>3, <1>4, <1>5, <1>6, <1>7, <1>8 DEF Answers

LEMMA NextShown == TabInv /\ [Next]_vars => TabInv'
<1>. SUFFICES ASSUME TabInv, [Next]_vars
              PROVE  TabInv'
  OBVIOUS
<1>1. ASSUME NEW project \in BOOLEAN, NEW typed \in BOOLEAN, StartNewSession(project, typed)
      PROVE  TabInv'
  BY <1>1, StartShown
<1>2. ASSUME NEW chat \in Chats, SwitchSession(chat)
      PROVE  TabInv'
  BY <1>2, SwitchShown
<1>3. ASSUME NEW place, PopState(place)
      PROVE  TabInv'
  BY <1>3, PopStateShown
<1>4. CASE Send \/ Login \/ Logout
  BY <1>4, SendShown, LoginShown, LogoutShown
<1>5. ASSUME NEW tok, TokenDies(tok) \/ SignsIn \/ OtherTab \/ Asks
      PROVE  TabInv'
  BY <1>5, TokensShown
<1>8. ASSUME NEW tok, Answered(tok)
      PROVE  TabInv'
  BY <1>8, AnsweredShown
<1>6. ASSUME NEW a \in Attempts, Answers(a) \/ SessionFrame(a) \/ UnknownSession(a) \/ Drops(a)
      PROVE  TabInv'
  BY <1>6, AttemptShown
<1>7. CASE UNCHANGED vars
  BY <1>7, LeavesShown DEF vars, tab, login, TabInv, Numbered
<1>. QED
  BY <1>1, <1>2, <1>3, <1>4, <1>5, <1>6, <1>7, <1>8 DEF Next

LEMMA InitShown == Init => TabInv
<1>. SUFFICES ASSUME Init
              PROVE  TabInv
  OBVIOUS
<1>. DEFINE made == [[[NoAttempt EXCEPT !.path = Target(url)] EXCEPT !.token = token] EXCEPT !.stage = "ticket"]
<1>1. /\ token \in {0, 1} /\ issued = token /\ current = 0 /\ status # "connected"
      /\ newest = (IF token = 0 THEN 0 ELSE 1)
      /\ conn = [a \in Attempts |-> IF a = 1 /\ token # 0 THEN made ELSE NoAttempt]
  BY DEF Init
<1>2. NoAttempt \in Attempt /\ NoAttempt.stage = "none"
  BY DEF NoAttempt, Attempt, Places, Stages
<1>3. made \in Attempt /\ made.path = Target(url)
  <2>. DEFINE m == [NoAttempt EXCEPT !.path = Target(url)]
              n == [m EXCEPT !.token = token]
  <2>1. m \in Attempt /\ m.path = Target(url)
    BY <1>2, PlaceFacts DEF Attempt
  <2>2. made = [n EXCEPT !.stage = "ticket"] /\ "ticket" \in Stages
    BY DEF Stages
  <2>. HIDE DEF m, made
  <2>3. n \in Attempt /\ n.path = Target(url) /\ n.token = token
    BY <1>1, <2>1 DEF Attempt
  <2>. HIDE DEF n
  <2>. QED
    BY <2>2, <2>3 DEF Attempt
<1>. HIDE DEF made
<1>4. Typed(conn)
  BY <1>1, <1>2, <1>3 DEF Typed
<1>5. Numbered
  BY <1>1 DEF Numbered
<1>6. NewestForAddress
  BY <1>1, <1>3, PlaceFacts, AttemptsFacts DEF NewestForAddress
<1>7. ShownIsConnected
  BY <1>1 DEF ShownIsConnected
<1>. QED
  BY <1>4, <1>5, <1>6, <1>7 DEF TabInv

\* A tab that says it is connected does not show the login form, uses an open
\* socket, and writes to the chat its address bar names, however many attempts
\* were made and in whatever order tickets, probes and requests were answered,
\* whatever the other tabs do with the token: until a socket that a login left
\* behind opens, a message takes the address of another chat because its own has
\* no name yet, or Back names a chat while no token is stored (`misled`).
THEOREM ConnectedToWhatIsShown == Spec => []ShownIsConnected
<1>1. TabInv => ShownIsConnected
  BY DEF TabInv
<1>. QED
  BY <1>1, InitShown, NextShown, PTL DEF Spec
=============================================================================
