---------------------------- MODULE Access_proofs ----------------------------
(***************************************************************************)
(* Theorems about accounts, logins and the quota, for any number of users, *)
(* requests and sockets.                                                   *)
(***************************************************************************)
EXTENDS Access, FiniteSetTheorems, TLAPS

LoginAt == {"idle", "first", "counted", "read", "stored", "done", "failed"}
ChangeAt == {"idle", "gated", "valid", "updated", "listed", "deleted", "done"}
SocketAt == {"idle", "ticket", "identified", "checked", "live"}
Row == [role : {"admin", "user"}, version : Nat]

Login == [at : LoginAt, user : Users \union {"none"}, read : Row \union {None}]
Change == [at : ChangeAt, of : Users \union {"none"}, by : Logins \union {"none"},
           todo : SUBSET (Logins \union {"role", "password"})]
Socket == [at : SocketAt, login : Logins \union {"none"},
           session : Sessions \union {"none"}, room : Nat]

\* Types, and that a handler under way knows its user.
TypeOK ==
  /\ account \in [Users -> Row]
  /\ token \in [Logins -> Row \union {None}]
  /\ index \subseteq Logins
  /\ login \in [Logins -> Login]
  /\ change \in [Changes -> Change]
  /\ socket \in [Sockets -> Socket]
  /\ disturbed \in BOOLEAN

Known ==
  /\ \A l \in Logins : login[l].at \in {"first", "counted", "read", "stored", "done"} => login[l].user \in Users
  /\ \A c \in Changes : change[c].at \notin {"idle", "done"} => change[c].of \in Users
  /\ \A s \in Sockets : socket[s].at = "ticket" => /\ socket[s].login \in Logins
                                                   /\ login[socket[s].login].at = "done"

LEMMA NoneIsNoRow == None \notin Row
BY DEF None, Row

\* What the requests may change is not what they find: both are held in `todo`.
LEMMA BodiesType == \A b \in Bodies : b \in SUBSET {"role", "password"}
BY AccessAssumption

LEMMA TypeInit == Init => TypeOK /\ Known
<1>. SUFFICES ASSUME Init PROVE TypeOK /\ Known
  OBVIOUS
<1>1. account \in [Users -> Row]
  BY DEF Init, Row
<1>2. token \in [Logins -> Row \union {None}] /\ index \subseteq Logins
  BY DEF Init
<1>3. login \in [Logins -> Login]
  BY DEF Init, Login, NoLogin, LoginAt
<1>4. change \in [Changes -> Change]
  BY DEF Init, Change, NoChange, ChangeAt
<1>5. socket \in [Sockets -> Socket]
  BY DEF Init, Socket, NoSocket, SocketAt
<1>6. disturbed \in BOOLEAN
  BY DEF Init
<1>7. Known
  BY DEF Init, Known, NoLogin, NoChange, NoSocket
<1>. QED
  BY <1>1, <1>2, <1>3, <1>4, <1>5, <1>6, <1>7 DEF TypeOK

-----------------------------------------------------------------------------
(* The steps of a login.                                                    *)

LEMMA TypeLoginCounts ==
  ASSUME TypeOK, Known, NEW l \in Logins, NEW u \in Users, LoginCounts(l, u)
  PROVE  TypeOK' /\ Known'
<1>1. CASE login' = login
  BY <1>1 DEF TypeOK, Known, LoginCounts
<1>2. CASE login' # login
  <2>1. PICK a \in {"first", "counted"} :
          login' = [login EXCEPT ![l] = [at |-> a, user |-> u, read |-> None]]
    BY <1>2 DEF LoginCounts
  <2>2. login[l].at = "idle"
    BY DEF LoginCounts
  <2>3. login' \in [Logins -> Login]
    BY <2>1 DEF TypeOK, Login, LoginAt
  <2>4. \A m \in Logins : m # l => login'[m] = login[m]
    BY <2>1 DEF TypeOK
  <2>5. login'[l].user = u
    BY <2>1 DEF TypeOK
  <2>6. TypeOK'
    BY <2>3 DEF TypeOK, LoginCounts
  <2>7. Known'
    BY <2>2, <2>4, <2>5 DEF Known, LoginCounts, TypeOK
  <2>. QED
    BY <2>6, <2>7
<1>. QED
  BY <1>1, <1>2

LEMMA TypeLoginExpires ==
  ASSUME TypeOK, Known, NEW l \in Logins, LoginExpires(l)
  PROVE  TypeOK' /\ Known'
<1>1. login' \in [Logins -> Login]
  BY DEF LoginExpires, TypeOK, Login, LoginAt
<1>2. TypeOK'
  BY <1>1 DEF TypeOK, LoginExpires
<1>3. Known'
  BY DEF Known, LoginExpires, TypeOK, Login
<1>. QED
  BY <1>2, <1>3

LEMMA TypeLoginReads ==
  ASSUME TypeOK, Known, NEW l \in Logins, LoginReads(l)
  PROVE  TypeOK' /\ Known'
<1>0. login[l].at = "counted" /\ login[l].user \in Users
  BY DEF LoginReads, Known
<1>1. CASE login' = [login EXCEPT ![l] = NoLogin]
  <2>1. login' \in [Logins -> Login]
    BY <1>1 DEF TypeOK, Login, LoginAt, NoLogin
  <2>2. TypeOK'
    BY <2>1 DEF TypeOK, LoginReads
  <2>3. Known'
    BY <1>0, <1>1 DEF Known, LoginReads, TypeOK, Login, NoLogin
  <2>. QED
    BY <2>2, <2>3
<1>2. CASE login' = [login EXCEPT ![l].at = "read", ![l].read = account[login[l].user]]
  <2>1. account[login[l].user] \in Row
    BY <1>0 DEF TypeOK
  <2>2. login' \in [Logins -> Login]
    BY ZenonT(30), <1>2, <2>1 DEF TypeOK, Login, LoginAt
  <2>3. TypeOK'
    BY <2>2 DEF TypeOK, LoginReads
  <2>4. /\ login'[l].at = "read" /\ login'[l].user = login[l].user
        /\ \A m \in Logins : m # l => login'[m] = login[m]
    BY <1>2 DEF TypeOK, Login
  <2>5. Known'
    BY <1>0, <2>4 DEF Known, LoginReads
  <2>. QED
    BY <2>3, <2>5
<1>. QED
  BY <1>1, <1>2 DEF LoginReads

LEMMA TypeLoginStores ==
  ASSUME TypeOK, Known, NEW l \in Logins, LoginStores(l)
  PROVE  TypeOK' /\ Known'
<1>1. login[l].read \in Row \union {None}
  BY DEF TypeOK, Login
<1>2. token' \in [Logins -> Row \union {None}]
  BY <1>1 DEF LoginStores, TypeOK
<1>3. login' \in [Logins -> Login]
  BY DEF LoginStores, TypeOK, Login, LoginAt
<1>4. TypeOK'
  BY <1>2, <1>3 DEF TypeOK, LoginStores
<1>5. Known'
  BY DEF Known, LoginStores, TypeOK, Login
<1>. QED
  BY <1>4, <1>5

LEMMA TypeLoginIndexes ==
  ASSUME TypeOK, Known, NEW l \in Logins, LoginIndexes(l)
  PROVE  TypeOK' /\ Known'
<1>1. login' \in [Logins -> Login]
  BY ZenonT(30) DEF LoginIndexes, TypeOK, Login, LoginAt
<1>2. TypeOK'
  BY <1>1 DEF TypeOK, LoginIndexes
<1>3. Known'
  BY DEF Known, LoginIndexes, TypeOK, Login
<1>. QED
  BY <1>2, <1>3

LEMMA TypeLoginFails ==
  ASSUME TypeOK, Known, NEW l \in Logins, LoginFails(l)
  PROVE  TypeOK' /\ Known'
<1>0. login[l].at # "done"
  BY DEF LoginFails
<1>f. [NoLogin EXCEPT !.at = "failed"] = [at |-> "failed", user |-> "none", read |-> None]
  BY DEF NoLogin
<1>1. login' = [login EXCEPT ![l] = [at |-> "failed", user |-> "none", read |-> None]]
  BY <1>f DEF LoginFails
<1>2. login' \in [Logins -> Login]
  BY <1>1 DEF TypeOK, Login, LoginAt
<1>3. TypeOK'
  BY <1>2 DEF TypeOK, LoginFails
<1>4. Known'
  BY <1>0, <1>1 DEF Known, LoginFails, TypeOK, Login
<1>. QED
  BY <1>3, <1>4

LEMMA TypeTokenEnds ==
  ASSUME TypeOK, Known, NEW l \in Logins, TokenEnds(l)
  PROVE  TypeOK' /\ Known'
<1>1. token' \in [Logins -> Row \union {None}]
  BY DEF TokenEnds, TypeOK
<1>2. disturbed' \in BOOLEAN
  BY DEF TokenEnds, TypeOK
<1>3. TypeOK'
  BY <1>1, <1>2 DEF TypeOK, TokenEnds
<1>4. Known'
  BY DEF Known, TokenEnds
<1>. QED
  BY <1>3, <1>4

-----------------------------------------------------------------------------
(* The steps of a change.                                                   *)

LEMMA OverType == Over \in Change /\ Over.at = "done"
BY DEF Over, NoChange, Change, ChangeAt

LEMMA TypeGate ==
  ASSUME TypeOK, Known, NEW c \in Changes, NEW l \in Logins, NEW u \in Users,
         NEW todo \in Bodies, Gate(c, l, u, todo)
  PROVE  TypeOK' /\ Known'
<1>1. todo \in SUBSET (Logins \union {"role", "password"})
  BY BodiesType
<1>2. change' = [change EXCEPT ![c] = [at |-> "gated", of |-> u, by |-> l, todo |-> todo]]
  BY DEF Gate
<1>3. change' \in [Changes -> Change]
  BY <1>1, <1>2 DEF TypeOK, Change, ChangeAt
<1>4. disturbed' \in BOOLEAN
  BY DEF Gate, TypeOK
<1>5. TypeOK'
  BY <1>3, <1>4 DEF TypeOK, Gate
<1>6. Known'
  BY <1>2 DEF Known, Gate, TypeOK, Change
<1>. QED
  BY <1>5, <1>6

LEMMA TypeValidated ==
  ASSUME TypeOK, Known, NEW c \in Changes, Validated(c)
  PROVE  TypeOK' /\ Known'
<1>1. CASE RefusesSelf(c)
  <2>1. change' = [change EXCEPT ![c] = Over]
    BY <1>1 DEF Validated
  <2>2. change' \in [Changes -> Change]
    BY <2>1, OverType DEF TypeOK
  <2>3. TypeOK'
    BY <2>2 DEF TypeOK, Validated
  <2>4. Known'
    BY <2>1, OverType DEF Known, Validated, TypeOK
  <2>. QED
    BY <2>3, <2>4
<1>2. CASE ~RefusesSelf(c)
  <2>1. change' = [change EXCEPT ![c] = [change[c] EXCEPT !.at = "valid", !.by = "none"]]
    BY <1>2 DEF Validated, TypeOK
  <2>2. change' \in [Changes -> Change]
    BY ZenonT(30), <2>1 DEF TypeOK, Change, ChangeAt
  <2>3. TypeOK'
    BY <2>2 DEF TypeOK, Validated
  <2>4. change[c].at = "gated"
    BY DEF Validated
  <2>5. /\ change'[c].of = change[c].of
        /\ \A d \in Changes : d # c => change'[d] = change[d]
    BY <2>1 DEF TypeOK, Change
  <2>6. Known'
    BY <2>4, <2>5 DEF Known, Validated
  <2>. QED
    BY <2>3, <2>6
<1>. QED
  BY <1>1, <1>2

\* What Updates does to the two functions it changes.
LEMMA UpdatesDoes ==
  ASSUME TypeOK, Known, NEW c \in Changes, Updates(c)
  PROVE  /\ change[c].at \in {"valid", "updated"}
         /\ change[c].of \in Users
         /\ \A u \in Users : u # change[c].of => account'[u] = account[u]
         /\ account' \in [Users -> Row]
         /\ "role" \notin change[c].todo => account'[change[c].of].role = account[change[c].of].role
         /\ change' \in [Changes -> Change]
         /\ \A d \in Changes : d # c => change'[d] = change[d]
         /\ change'[c].at = "updated" /\ change'[c].of = change[c].of
         /\ "role" \notin change'[c].todo
<1>. DEFINE what == IF "role" \in change[c].todo THEN "role" ELSE "password"
            u == change[c].of
            role == IF what = "role" THEN "user" ELSE account[u].role
            row == [role |-> role, version |-> account[u].version + 1]
            done == [at |-> "updated", of |-> u, by |-> change[c].by, todo |-> change[c].todo \ {what}]
<1>1. change[c].at \in {"valid", "updated"} /\ u \in Users
  BY DEF Updates, Known
<1>2. account[u] \in Row /\ change[c] \in Change
  BY <1>1 DEF TypeOK
<1>3. account' = [account EXCEPT ![u] = row]
  <2>1. account' = [account EXCEPT ![u].version = @ + 1, ![u].role = IF what = "role" THEN "user" ELSE @]
    BY DEF Updates
  <2>. HIDE DEF what
  <2>2. account'[u] = row
    BY <2>1, <1>1, <1>2 DEF TypeOK, Row
  <2>3. \A v \in Users : v # u => account'[v] = account[v]
    BY <2>1, <1>1 DEF TypeOK
  <2>4. account' = [v \in Users |-> account'[v]]
    BY <2>1 DEF TypeOK
  <2>. HIDE DEF row
  <2>. QED
    BY <2>2, <2>3, <2>4, <1>1 DEF TypeOK
<1>4. change' = [change EXCEPT ![c] = done]
  <2>1. change' = [change EXCEPT ![c].at = "updated", ![c].todo = @ \ {what}]
    BY DEF Updates
  <2>. HIDE DEF what
  <2>2. change'[c] = done
    BY <2>1, <1>2 DEF TypeOK, Change
  <2>3. \A d \in Changes : d # c => change'[d] = change[d]
    BY <2>1 DEF TypeOK
  <2>4. change' = [d \in Changes |-> change'[d]]
    BY <2>1 DEF TypeOK
  <2>. HIDE DEF done
  <2>. QED
    BY <2>2, <2>3, <2>4 DEF TypeOK
<1>5. row \in Row
  BY <1>2 DEF Row
<1>6. done \in Change
  BY <1>1, <1>2 DEF Change, ChangeAt
<1>7. account' \in [Users -> Row] /\ \A v \in Users : v # u => account'[v] = account[v]
  <2>. HIDE DEF row, u
  <2>. QED
    BY <1>3, <1>5, <1>1 DEF TypeOK
<1>8. "role" \notin change[c].todo => account'[u].role = account[u].role
  BY <1>3, <1>1 DEF TypeOK
<1>9. /\ change' \in [Changes -> Change]
      /\ change'[c] = done
      /\ \A d \in Changes : d # c => change'[d] = change[d]
  <2>. HIDE DEF done
  <2>. QED
    BY <1>4, <1>6 DEF TypeOK
<1>10. "role" \notin done.todo
  OBVIOUS
<1>. QED
  BY <1>1, <1>7, <1>8, <1>9, <1>10

LEMMA TypeUpdates ==
  ASSUME TypeOK, Known, NEW c \in Changes, Updates(c)
  PROVE  TypeOK' /\ Known'
<1>1. UNCHANGED <<token, index, login, socket, disturbed>>
  BY DEF Updates
<1>2. TypeOK'
  BY <1>1, UpdatesDoes DEF TypeOK
<1>3. Known'
  BY <1>1, UpdatesDoes DEF Known
<1>. QED
  BY <1>2, <1>3

LEMMA ListsDoes ==
  ASSUME TypeOK, NEW c \in Changes, Lists(c)
  PROVE  /\ change[c].at = "updated"
         /\ change' \in [Changes -> Change]
         /\ \A d \in Changes : d # c => change'[d] = change[d]
         /\ change'[c].at = "listed" /\ change'[c].of = change[c].of
         /\ change'[c].todo = {l \in index : login[l].user = change[c].of}
<1>. DEFINE found == {l \in index : login[l].user = change[c].of}
<1>1. found \in SUBSET (Logins \union {"role", "password"})
  BY DEF TypeOK
<1>2. change' = [change EXCEPT ![c].at = "listed", ![c].todo = found] /\ change[c].at = "updated"
  BY DEF Lists
<1>. HIDE DEF found
<1>. DEFINE k1 == [change EXCEPT ![c].at = "listed"]
            k2 == [k1 EXCEPT ![c].todo = found]
<1>a. change' = k2
  BY <1>2 DEF TypeOK, Change
<1>b. k1 \in [Changes -> Change]
  BY DEF TypeOK, Change, ChangeAt
<1>. HIDE DEF k1
<1>c. k2 \in [Changes -> Change]
  BY <1>1, <1>b DEF Change
<1>3. change' \in [Changes -> Change]
  BY <1>a, <1>c
<1>4. /\ \A d \in Changes : d # c => change'[d] = change[d]
      /\ change'[c].at = "listed" /\ change'[c].of = change[c].of
      /\ change'[c].todo = found
  BY <1>2 DEF TypeOK, Change
<1>. QED
  BY <1>2, <1>3, <1>4 DEF found

LEMMA DeletesDoes ==
  ASSUME TypeOK, NEW c \in Changes, Deletes(c)
  PROVE  /\ change[c].at = "listed"
         /\ change' \in [Changes -> Change]
         /\ \A d \in Changes : d # c => change'[d] = change[d]
         /\ change'[c].at = "deleted" /\ change'[c].of = change[c].of
         /\ token' \in [Logins -> Row \union {None}]
         /\ \A l \in Logins : l \in change[c].todo => token'[l] = None
         /\ \A l \in Logins : l \notin change[c].todo => token'[l] = token[l]
         /\ \A l \in Logins : token'[l] \in {token[l], None}
<1>1. change' = [change EXCEPT ![c].at = "deleted", ![c].todo = {}] /\ change[c].at = "listed"
  BY DEF Deletes
<1>. DEFINE k1 == [change EXCEPT ![c].at = "deleted"]
            k2 == [k1 EXCEPT ![c].todo = {}]
<1>a. change' = k2
  BY <1>1 DEF TypeOK, Change
<1>b. k1 \in [Changes -> Change]
  BY DEF TypeOK, Change, ChangeAt
<1>. HIDE DEF k1
<1>c. k2 \in [Changes -> Change]
  BY <1>b DEF Change
<1>2. change' \in [Changes -> Change]
  BY <1>a, <1>c
<1>3. /\ \A d \in Changes : d # c => change'[d] = change[d]
      /\ change'[c].at = "deleted" /\ change'[c].of = change[c].of
  BY <1>1 DEF TypeOK, Change
<1>4. token' = [l \in Logins |-> IF l \in change[c].todo THEN None ELSE token[l]]
  BY DEF Deletes, Revoked
<1>5. token' \in [Logins -> Row \union {None}]
  BY <1>4 DEF TypeOK
<1>. QED
  BY <1>1, <1>2, <1>3, <1>4, <1>5

LEMMA TypeRevokes ==
  ASSUME TypeOK, Known, NEW c \in Changes, Lists(c) \/ Deletes(c)
  PROVE  TypeOK' /\ Known'
<1>1. CASE Lists(c)
  <2>1. UNCHANGED <<account, token, index, login, socket, disturbed>>
    BY <1>1 DEF Lists
  <2>2. TypeOK' /\ Known'
    BY <1>1, <2>1, ListsDoes DEF TypeOK, Known
  <2>. QED
    BY <2>2
<1>2. CASE Deletes(c)
  <2>1. UNCHANGED <<account, index, login, socket, disturbed>>
    BY <1>2 DEF Deletes
  <2>2. TypeOK' /\ Known'
    BY <1>2, <2>1, DeletesDoes DEF TypeOK, Known
  <2>. QED
    BY <2>2
<1>. QED
  BY <1>1, <1>2

LEMMA TypeDropsIndex ==
  ASSUME TypeOK, Known, NEW c \in Changes, DropsIndex(c)
  PROVE  TypeOK' /\ Known'
<1>1. change' = [change EXCEPT ![c] = Over] /\ index' \subseteq index
  BY DEF DropsIndex
<1>2. change' \in [Changes -> Change]
  BY <1>1, OverType DEF TypeOK
<1>3. TypeOK'
  BY <1>1, <1>2 DEF TypeOK, DropsIndex
<1>4. Known'
  BY <1>1, OverType DEF Known, DropsIndex, TypeOK
<1>. QED
  BY <1>3, <1>4

LEMMA TypeChangeFails ==
  ASSUME TypeOK, Known, NEW c \in Changes, ChangeFails(c)
  PROVE  TypeOK' /\ Known'
<1>1. change' = [change EXCEPT ![c] = Over]
  BY DEF ChangeFails
<1>2. change' \in [Changes -> Change]
  BY <1>1, OverType DEF TypeOK
<1>3. disturbed' \in BOOLEAN
  BY DEF ChangeFails, TypeOK
<1>4. TypeOK'
  BY <1>2, <1>3 DEF TypeOK, ChangeFails
<1>5. Known'
  BY <1>1, OverType DEF Known, ChangeFails, TypeOK
<1>. QED
  BY <1>4, <1>5

-----------------------------------------------------------------------------
(* The steps of a socket.                                                   *)

\* Every step of a socket changes `socket` alone.
LEMMA SocketOnly ==
  ASSUME NEW s \in Sockets,
         \/ \E l \in Logins : Ticket(s, l)
         \/ \E x \in Sessions : CheckQuota(s, x)
         \/ Redeem(s) \/ Track(s) \/ Leave(s)
  PROVE  UNCHANGED <<account, token, index, attempts, login, change, overlapped, unrevoked, disturbed>>
BY DEF Ticket, CheckQuota, Redeem, Track, Leave

LEMMA NoSocketType == NoSocket \in Socket /\ NoSocket.at = "idle"
BY DEF NoSocket, Socket, SocketAt

LEMMA TypeTicket ==
  ASSUME TypeOK, Known, NEW s \in Sockets, NEW l \in Logins, Ticket(s, l)
  PROVE  TypeOK' /\ Known'
<1>1. socket' \in [Sockets -> Socket]
  BY ZenonT(30) DEF Ticket, TypeOK, Socket, SocketAt
<1>2. TypeOK'
  BY <1>1 DEF TypeOK, Ticket
<1>3. Known'
  BY DEF Known, Ticket, TypeOK, Socket
<1>. QED
  BY <1>2, <1>3

LEMMA TypeRedeem ==
  ASSUME TypeOK, Known, NEW s \in Sockets, Redeem(s)
  PROVE  TypeOK' /\ Known'
<1>1. PICK k \in {NoSocket, [socket[s] EXCEPT !.at = "identified"]} :
        socket' = [socket EXCEPT ![s] = k]
  BY DEF Redeem, TypeOK
<1>2. k \in Socket /\ k.at \in {"idle", "identified"}
  BY <1>1, NoSocketType DEF TypeOK, Socket, SocketAt
<1>3. socket' \in [Sockets -> Socket]
  BY <1>1, <1>2 DEF TypeOK
<1>4. TypeOK'
  BY <1>3 DEF TypeOK, Redeem
<1>5. Known'
  BY <1>1, <1>2 DEF Known, Redeem, TypeOK
<1>. QED
  BY <1>4, <1>5

LEMMA TypeLeave ==
  ASSUME TypeOK, Known, NEW s \in Sockets, Leave(s)
  PROVE  TypeOK' /\ Known'
<1>1. socket' = [socket EXCEPT ![s] = NoSocket]
  BY DEF Leave
<1>2. socket' \in [Sockets -> Socket]
  BY <1>1, NoSocketType DEF TypeOK
<1>3. TypeOK'
  BY <1>2 DEF TypeOK, Leave
<1>4. Known'
  BY <1>1, NoSocketType DEF Known, Leave, TypeOK
<1>. QED
  BY <1>3, <1>4
\* A socket that passed the check: where it goes, and what it is told there is room for.
LEMMA CheckQuotaDoes ==
  ASSUME TypeOK, NEW s \in Sockets, NEW x \in Sessions, CheckQuota(s, x), Cardinality(Live) \in Nat
  PROVE  /\ socket' \in [Sockets -> Socket]
         /\ \A r \in Sockets : r # s => socket'[r] = socket[r]
         /\ socket[s].at = "identified"
         /\ \/ socket'[s] = NoSocket
            \/ /\ Admits(x)
               /\ socket'[s].at = "checked" /\ socket'[s].session = x
               /\ socket'[s].room = IF Cardinality(Live) < MaxSessions THEN MaxSessions ELSE Cardinality(Live)
<1>. DEFINE room == IF Cardinality(Live) < MaxSessions THEN MaxSessions ELSE Cardinality(Live)
            next == [at |-> "checked", login |-> "none", session |-> x, room |-> room]
<1>0. socket[s].at = "identified"
  BY DEF CheckQuota
<1>1. room \in Nat
  BY AccessAssumption
<1>2. CASE ~Admits(x)
  <2>1. socket' = [socket EXCEPT ![s] = NoSocket]
    BY <1>2 DEF CheckQuota
  <2>2. socket' \in [Sockets -> Socket]
    BY <2>1, NoSocketType DEF TypeOK
  <2>3. socket'[s] = NoSocket /\ \A r \in Sockets : r # s => socket'[r] = socket[r]
    BY <2>1 DEF TypeOK
  <2>. QED
    BY <1>0, <2>2, <2>3
<1>3. CASE Admits(x)
  <2>1. socket' = [socket EXCEPT ![s] = [NoSocket EXCEPT !.at = "checked", !.session = x, !.room = room]]
    BY <1>3 DEF CheckQuota
  <2>. HIDE DEF room
  <2>. DEFINE n == [at |-> "idle", login |-> "none", session |-> "none", room |-> 0]
  <2>a. [NoSocket EXCEPT !.at = "checked", !.session = x, !.room = room]
          = [n EXCEPT !.at = "checked", !.session = x, !.room = room]
    BY DEF NoSocket
  <2>b. [n EXCEPT !.at = "checked", !.session = x, !.room = room] = next
    <3>. DEFINE n1 == [n EXCEPT !.at = "checked"]
                n2 == [n1 EXCEPT !.session = x]
                n3 == [n2 EXCEPT !.room = room]
    <3>1. n1 = [at |-> "checked", login |-> "none", session |-> "none", room |-> 0]
      OBVIOUS
    <3>. HIDE DEF n1
    <3>2. n2 = [at |-> "checked", login |-> "none", session |-> x, room |-> 0]
      BY <3>1
    <3>. HIDE DEF n2
    <3>3. n3 = next
      BY <3>2
    <3>. QED
      BY <3>3, Zenon DEF n1, n2
  <2>2. [NoSocket EXCEPT !.at = "checked", !.session = x, !.room = room] = next
    BY <2>a, <2>b
  <2>3. next \in Socket
    BY <1>1 DEF Socket, SocketAt
  <2>4. /\ next.at = "checked" /\ next.session = x /\ next.room = room
    OBVIOUS
  <2>. HIDE DEF next
  <2>5. socket' = [socket EXCEPT ![s] = next]
    BY <2>1, <2>2
  <2>6. socket' \in [Sockets -> Socket]
    BY <2>3, <2>5 DEF TypeOK
  <2>7. socket'[s] = next /\ \A r \in Sockets : r # s => socket'[r] = socket[r]
    BY <2>5 DEF TypeOK
  <2>8. room = IF Cardinality(Live) < MaxSessions THEN MaxSessions ELSE Cardinality(Live)
    BY DEF room
  <2>. QED
    BY <1>0, <1>3, <2>4, <2>6, <2>7, <2>8
<1>. QED
  BY <1>2, <1>3

LEMMA TrackDoes ==
  ASSUME TypeOK, NEW s \in Sockets, Track(s), Cardinality(Sockets) \in Nat
  PROVE  /\ socket' \in [Sockets -> Socket]
         /\ socket[s].at = "checked" /\ socket'[s].at = "live"
         /\ socket'[s].session = socket[s].session
         /\ \A r \in Sockets : r # s =>
              /\ socket'[r].at = socket[r].at
              /\ socket'[r].session = socket[r].session
              /\ socket'[r].login = socket[r].login
              /\ socket[r].at = "checked" =>
                   socket'[r].room = IF socket[r].room < Cardinality(Sockets)
                                     THEN socket[r].room + 1 ELSE socket[r].room
<1>. DEFINE Next1(r) == IF r = s THEN [socket[s] EXCEPT !.at = "live"]
                        ELSE IF socket[r].at = "checked" /\ socket[r].room < Cardinality(Sockets)
                        THEN [socket[r] EXCEPT !.room = socket[r].room + 1]
                        ELSE socket[r]
<1>1. socket' = [r \in Sockets |-> Next1(r)]
  BY DEF Track
<1>2. \A r \in Sockets : socket[r] \in Socket
  BY DEF TypeOK
<1>3. \A r \in Sockets : Next1(r) \in Socket
  BY <1>2 DEF Socket, SocketAt
<1>4. Next1(s).at = "live" /\ Next1(s).session = socket[s].session
  BY <1>2 DEF Socket
<1>5. \A r \in Sockets : r # s =>
              /\ Next1(r).at = socket[r].at
              /\ Next1(r).session = socket[r].session
              /\ Next1(r).login = socket[r].login
              /\ socket[r].at = "checked" =>
                   Next1(r).room = IF socket[r].room < Cardinality(Sockets)
                                     THEN socket[r].room + 1 ELSE socket[r].room
  BY <1>2 DEF Socket
<1>. HIDE DEF Next1
<1>6. socket' \in [Sockets -> Socket]
  BY <1>1, <1>3
<1>7. \A r \in Sockets : socket'[r] = Next1(r)
  BY <1>1
<1>8. socket[s].at = "checked"
  BY DEF Track
<1>. QED
  BY <1>4, <1>5, <1>6, <1>7, <1>8

\* There are finitely many sockets, so the sessions that are live are finite, and with one that a
\* socket waits for no more than the sockets.
LEMMA LiveBounded ==
  /\ Cardinality(Sockets) \in Nat
  /\ IsFiniteSet(Live) /\ Cardinality(Live) \in Nat
  /\ \A s \in Sockets : Cardinality(Live \union {socket[s].session}) \in Nat
  /\ \A s \in Sockets : socket[s].at # "live" =>
       Cardinality(Live \union {socket[s].session}) <= Cardinality(Sockets)
<1>. DEFINE Named(S) == {socket[r].session : r \in S}
            L == {r \in Sockets : socket[r].at = "live"}
<1>1. \A S \in SUBSET Sockets : IsFiniteSet(Named(S)) /\ Cardinality(Named(S)) <= Cardinality(S)
  <2>. SUFFICES ASSUME NEW S \in SUBSET Sockets
                PROVE  IsFiniteSet(Named(S)) /\ Cardinality(Named(S)) <= Cardinality(S)
    OBVIOUS
  <2>1. IsFiniteSet(S)
    BY AccessAssumption, FS_Subset
  <2>. DEFINE f == [r \in S |-> socket[r].session]
  <2>2. f \in Surjection(S, Named(S))
    BY DEF Surjection
  <2>. HIDE DEF f
  <2>. QED
    BY <2>1, <2>2, FS_Surjection
<1>2. Live = Named(L)
  BY DEF Live
<1>3. IsFiniteSet(Live) /\ Cardinality(Live) \in Nat
  BY <1>1, <1>2, FS_CardinalityType
<1>4. Cardinality(Sockets) \in Nat
  BY AccessAssumption, FS_CardinalityType
<1>5. ASSUME NEW s \in Sockets
      PROVE  Cardinality(Live \union {socket[s].session}) \in Nat
  BY <1>3, FS_AddElement, FS_CardinalityType
<1>6. ASSUME NEW s \in Sockets, socket[s].at # "live"
      PROVE  Cardinality(Live \union {socket[s].session}) <= Cardinality(Sockets)
  <2>1. Live \union {socket[s].session} = Named(L \union {s})
    BY <1>2
  <2>2. L \union {s} \in SUBSET Sockets
    OBVIOUS
  <2>3. Cardinality(Named(L \union {s})) <= Cardinality(L \union {s})
    BY <1>1, <2>2
  <2>4. Cardinality(L \union {s}) <= Cardinality(Sockets) /\ Cardinality(L \union {s}) \in Nat
    BY <2>2, AccessAssumption, FS_Subset, FS_CardinalityType
  <2>5. Cardinality(Named(L \union {s})) \in Nat
    BY <1>1, <2>2, FS_CardinalityType
  <2>. HIDE DEF Named, L
  <2>. QED
    BY <2>1, <2>3, <2>4, <2>5, <1>4
<1>. QED
  BY <1>3, <1>4, <1>5, <1>6

\* The last fact of it, of the next state as well.
Bound == \A s \in Sockets : socket[s].at # "live" =>
           Cardinality(Live \union {socket[s].session}) <= Cardinality(Sockets)

LEMMA BoundNow == Bound
BY LiveBounded DEF Bound

LEMMA BoundNext == Bound'
BY BoundNow, PTL

LEMMA TypeQuota ==
  ASSUME TypeOK, Known, NEW s \in Sockets, Track(s) \/ \E x \in Sessions : CheckQuota(s, x)
  PROVE  TypeOK' /\ Known'
<1>0. UNCHANGED <<account, token, index, login, change, disturbed>>
  BY SocketOnly
<1>1. CASE Track(s)
  <2>1. /\ socket' \in [Sockets -> Socket]
        /\ \A r \in Sockets : socket'[r].at = "ticket" => r # s /\ socket'[r].at = socket[r].at /\ socket'[r].login = socket[r].login
    BY <1>1, TrackDoes, LiveBounded
  <2>2. TypeOK'
    BY <1>0, <2>1 DEF TypeOK
  <2>3. Known'
    BY <1>0, <2>1 DEF Known
  <2>. QED
    BY <2>2, <2>3
<1>2. ASSUME NEW x \in Sessions, CheckQuota(s, x)
      PROVE  TypeOK' /\ Known'
  <2>1. /\ socket' \in [Sockets -> Socket]
        /\ \A r \in Sockets : socket'[r].at = "ticket" => socket'[r] = socket[r]
    BY <1>2, CheckQuotaDoes, LiveBounded, NoSocketType
  <2>2. TypeOK'
    BY <1>0, <2>1 DEF TypeOK
  <2>3. Known'
    BY <1>0, <2>1 DEF Known
  <2>. QED
    BY <2>2, <2>3
<1>. QED
  BY <1>1, <1>2

LEMMA TypeWindowEnds ==
  ASSUME TypeOK, Known, NEW u \in Users, WindowEnds(u)
  PROVE  TypeOK' /\ Known'
BY DEF WindowEnds, TypeOK, Known

LEMMA TypeStep == TypeOK /\ Known /\ [Next]_vars => TypeOK' /\ Known'
<1>. SUFFICES ASSUME TypeOK, Known, [Next]_vars
              PROVE  TypeOK' /\ Known'
  OBVIOUS
<1>1. CASE \E l \in Logins : \/ \E u \in Users : LoginCounts(l, u)
                             \/ LoginExpires(l) \/ LoginReads(l) \/ LoginStores(l)
                             \/ LoginIndexes(l) \/ LoginFails(l) \/ TokenEnds(l)
  BY <1>1, TypeLoginCounts, TypeLoginExpires, TypeLoginReads, TypeLoginStores, TypeLoginIndexes,
     TypeLoginFails, TypeTokenEnds
<1>2. CASE \E u \in Users : WindowEnds(u)
  BY <1>2, TypeWindowEnds
<1>3. CASE \E c \in Changes : \/ \E l \in Logins, u \in Users, todo \in Bodies : Gate(c, l, u, todo)
                              \/ Validated(c) \/ Updates(c) \/ Lists(c) \/ Deletes(c)
                              \/ DropsIndex(c) \/ ChangeFails(c)
  BY <1>3, TypeGate, TypeValidated, TypeUpdates, TypeRevokes, TypeDropsIndex, TypeChangeFails
<1>4. CASE \E s \in Sockets : \/ \E l \in Logins : Ticket(s, l)
                              \/ \E x \in Sessions : CheckQuota(s, x)
                              \/ Redeem(s) \/ Track(s) \/ Leave(s)
  BY <1>4, TypeTicket, TypeQuota, TypeRedeem, TypeLeave
<1>5. CASE UNCHANGED vars
  BY <1>5 DEF vars, TypeOK, Known
<1>. QED
  BY <1>1, <1>2, <1>3, <1>4, <1>5 DEF Next

-----------------------------------------------------------------------------
(* The quota.                                                               *)

\* A socket that passed the check could be counted now without passing its room.
Roomy == \A s \in Sockets : socket[s].at = "checked" =>
           Cardinality(Live \union {socket[s].session}) <= socket[s].room

LEMMA RoomyInit == Init => Roomy
BY DEF Init, Roomy, NoSocket

\* Fewer live sessions, fewer with one more.
LEMMA FewerLive ==
  ASSUME TypeOK, NEW x, Live' \subseteq Live
  PROVE  Cardinality(Live' \union {x}) <= Cardinality(Live \union {x})
BY LiveBounded, FS_AddElement, FS_Subset

\* No socket went live: nor did a session.
LEMMA NoneWentLive ==
  ASSUME NEW s \in Sockets, socket'[s].at # "live",
         \A r \in Sockets : r # s => socket'[r] = socket[r]
  PROVE  Live' \subseteq Live
BY DEF Live

LEMMA RoomyStays ==
  ASSUME TypeOK, TypeOK', Roomy, NEW s \in Sockets, socket'[s].at \notin {"checked", "live"},
         \A r \in Sockets : r # s => socket'[r] = socket[r]
  PROVE  Roomy'
<1>1. Live' \subseteq Live
  BY NoneWentLive
<1>. SUFFICES ASSUME NEW r \in Sockets, socket'[r].at = "checked"
              PROVE  Cardinality(Live' \union {socket'[r].session}) <= socket'[r].room
  BY DEF Roomy
<1>2. r # s /\ socket'[r] = socket[r]
  OBVIOUS
<1>3. Cardinality(Live \union {socket[r].session}) <= socket[r].room
  BY <1>2 DEF Roomy
<1>4. Cardinality(Live' \union {socket[r].session}) <= Cardinality(Live \union {socket[r].session})
  BY <1>1, FewerLive
<1>5. Cardinality(Live \union {socket[r].session}) \in Nat
  BY LiveBounded
<1>6. Cardinality(Live' \union {socket[r].session}) \in Nat
  <2>1. IsFiniteSet(Live' \union {socket[r].session})
    BY <1>1, LiveBounded, FS_Subset, FS_AddElement
  <2>. QED
    BY <2>1, FS_CardinalityType
<1>7. socket[r].room \in Nat
  BY DEF TypeOK, Socket
<1>. QED
  BY <1>2, <1>3, <1>4, <1>5, <1>6, <1>7
\* checkQuota() grants room for the session that it admits.
LEMMA RoomyChecked ==
  ASSUME TypeOK, TypeOK', Roomy, NEW s \in Sockets, NEW x \in Sessions, CheckQuota(s, x)
  PROVE  Roomy'
<1>1. /\ \A r \in Sockets : r # s => socket'[r] = socket[r]
      /\ \/ socket'[s] = NoSocket
         \/ /\ Admits(x)
            /\ socket'[s].at = "checked" /\ socket'[s].session = x
            /\ socket'[s].room = IF Cardinality(Live) < MaxSessions THEN MaxSessions ELSE Cardinality(Live)
  BY CheckQuotaDoes, LiveBounded
<1>2. CASE socket'[s] = NoSocket
  BY <1>1, <1>2, RoomyStays, NoSocketType
<1>3. CASE /\ Admits(x)
           /\ socket'[s].at = "checked" /\ socket'[s].session = x
           /\ socket'[s].room = IF Cardinality(Live) < MaxSessions THEN MaxSessions ELSE Cardinality(Live)
  <2>1. socket[s].at = "identified"
    BY DEF CheckQuota
  <2>2. Live' = Live
    BY <1>1, <1>3, <2>1 DEF Live
  <2>3. Cardinality(Live \union {x}) <= socket'[s].room
    <3>1. Cardinality(Live \union {x}) = IF x \in Live THEN Cardinality(Live) ELSE Cardinality(Live) + 1
      BY LiveBounded, FS_AddElement
    <3>2. x \in Live \/ Cardinality(Live) < MaxSessions
      BY <1>3 DEF Admits
    <3>3. Cardinality(Live) \in Nat /\ MaxSessions \in Nat
      BY LiveBounded, AccessAssumption
    <3>. QED
      BY <3>1, <3>2, <3>3, <1>3
  <2>. SUFFICES ASSUME NEW r \in Sockets, socket'[r].at = "checked"
                PROVE  Cardinality(Live' \union {socket'[r].session}) <= socket'[r].room
    BY DEF Roomy
  <2>4. CASE r = s
    BY <2>2, <2>3, <2>4, <1>3
  <2>5. CASE r # s
    BY <2>2, <2>5, <1>1 DEF Roomy
  <2>. QED
    BY <2>4, <2>5
<1>. QED
  BY <1>1, <1>2, <1>3

\* The sessions that are live after a socket is counted.
LEMMA TrackLive ==
  ASSUME TypeOK, NEW s \in Sockets, Track(s)
  PROVE  Live' = Live \union {socket[s].session}
<1>1. /\ socket[s].at = "checked" /\ socket'[s].at = "live" /\ socket'[s].session = socket[s].session
      /\ \A r \in Sockets : r # s => socket'[r].at = socket[r].at /\ socket'[r].session = socket[r].session
  BY TrackDoes, LiveBounded
<1>. QED
  BY <1>1 DEF Live

\* An upgrade that is overtaken is told of one more; past the number of sockets there is room anyway.
LEMMA RoomyTracked ==
  ASSUME TypeOK, TypeOK', Roomy, NEW s \in Sockets, Track(s)
  PROVE  Roomy'
<1>. SUFFICES ASSUME NEW r \in Sockets, socket'[r].at = "checked"
              PROVE  Cardinality(Live' \union {socket'[r].session}) <= socket'[r].room
  BY DEF Roomy
<1>. DEFINE n == Cardinality(Live' \union {socket'[r].session})
            m == Cardinality(Live \union {socket[r].session})
<1>1. /\ r # s /\ socket[r].at = "checked" /\ socket'[r].session = socket[r].session
      /\ socket'[r].room = IF socket[r].room < Cardinality(Sockets)
                           THEN socket[r].room + 1 ELSE socket[r].room
  BY TrackDoes, LiveBounded
<1>2. n \in Nat /\ m \in Nat /\ n <= m + 1
  <2>1. Live' \union {socket'[r].session} = (Live \union {socket[r].session}) \union {socket[s].session}
    BY <1>1, TrackLive
  <2>2. IsFiniteSet(Live \union {socket[r].session})
    BY LiveBounded, FS_AddElement
  <2>3. n = IF socket[s].session \in Live \union {socket[r].session} THEN m ELSE m + 1
    BY <2>1, <2>2, FS_AddElement
  <2>. HIDE DEF n, m
  <2>4. m \in Nat
    BY LiveBounded DEF m
  <2>. QED
    BY <2>3, <2>4
<1>3. m <= socket[r].room
  BY <1>1 DEF Roomy
<1>4. n <= Cardinality(Sockets)
  BY BoundNext DEF Bound
<1>5. socket[r].room \in Nat /\ Cardinality(Sockets) \in Nat
  BY LiveBounded DEF TypeOK, Socket
<1>. QED
  BY <1>1, <1>2, <1>3, <1>4, <1>5

LEMMA RoomyStep == TypeOK /\ TypeOK' /\ Roomy /\ [Next]_vars => Roomy'
<1>. SUFFICES ASSUME TypeOK, TypeOK', Roomy, [Next]_vars
              PROVE  Roomy'
  OBVIOUS
<1>1. CASE UNCHANGED socket
  BY <1>1 DEF Roomy, Live
<1>2. ASSUME NEW s \in Sockets, NEW l \in Logins, Ticket(s, l)
      PROVE  Roomy'
  <2>1. /\ socket'[s].at = "ticket"
        /\ \A r \in Sockets : r # s => socket'[r] = socket[r]
    BY <1>2 DEF Ticket, TypeOK, Socket
  <2>. QED
    BY <2>1, RoomyStays
<1>3. ASSUME NEW s \in Sockets, Redeem(s)
      PROVE  Roomy'
  <2>1. PICK k \in {NoSocket, [socket[s] EXCEPT !.at = "identified"]} :
          socket' = [socket EXCEPT ![s] = k]
    BY <1>3 DEF Redeem, TypeOK
  <2>2. k.at \in {"idle", "identified"}
    BY <2>1, NoSocketType DEF TypeOK, Socket
  <2>3. /\ socket'[s].at \in {"idle", "identified"}
        /\ \A r \in Sockets : r # s => socket'[r] = socket[r]
    BY <2>1, <2>2 DEF TypeOK
  <2>. QED
    BY <2>3, RoomyStays
<1>4. ASSUME NEW s \in Sockets, Leave(s)
      PROVE  Roomy'
  <2>1. /\ socket'[s].at = "idle"
        /\ \A r \in Sockets : r # s => socket'[r] = socket[r]
    BY <1>4, NoSocketType DEF Leave, TypeOK
  <2>. QED
    BY <2>1, RoomyStays
<1>5. CASE \E s \in Sockets : \/ \E l \in Logins : Ticket(s, l)
                              \/ \E x \in Sessions : CheckQuota(s, x)
                              \/ Redeem(s) \/ Track(s) \/ Leave(s)
  BY <1>2, <1>3, <1>4, <1>5, RoomyChecked, RoomyTracked
<1>6. CASE \E l \in Logins : \/ \E u \in Users : LoginCounts(l, u)
                             \/ LoginExpires(l) \/ LoginReads(l) \/ LoginStores(l)
                             \/ LoginIndexes(l) \/ LoginFails(l) \/ TokenEnds(l)
  BY <1>1, <1>6 DEF LoginCounts, LoginExpires, LoginReads, LoginStores, LoginIndexes, LoginFails, TokenEnds
<1>7. CASE \E u \in Users : WindowEnds(u)
  BY <1>1, <1>7 DEF WindowEnds
<1>8. CASE \E c \in Changes : \/ \E l \in Logins, u \in Users, todo \in Bodies : Gate(c, l, u, todo)
                              \/ Validated(c) \/ Updates(c) \/ Lists(c) \/ Deletes(c)
                              \/ DropsIndex(c) \/ ChangeFails(c)
  BY <1>1, <1>8 DEF Gate, Validated, Updates, Lists, Deletes, DropsIndex, ChangeFails
<1>9. CASE UNCHANGED vars
  BY <1>1, <1>9 DEF vars
<1>. QED
  BY <1>5, <1>6, <1>7, <1>8, <1>9 DEF Next

\* Only track() takes a socket from its check to its connection.
LEMMA OnlyTrack ==
  ASSUME TypeOK, [Next]_vars, NEW s \in Sockets, socket[s].at = "checked", socket'[s].at = "live"
  PROVE  Track(s)
<1>1. ASSUME NEW r \in Sockets, r # s,
             \/ \E l \in Logins : Ticket(r, l)
             \/ \E x \in Sessions : CheckQuota(r, x)
             \/ Redeem(r) \/ Track(r) \/ Leave(r)
      PROVE  FALSE
  <2>1. CASE Track(r)
    BY <1>1, <2>1, TrackDoes, LiveBounded
  <2>2. CASE \/ \E l \in Logins : Ticket(r, l)
             \/ Redeem(r) \/ Leave(r)
    BY <1>1, <2>2 DEF Ticket, Redeem, Leave, TypeOK
  <2>3. CASE \E x \in Sessions : CheckQuota(r, x)
    BY <1>1, <2>3, CheckQuotaDoes, LiveBounded
  <2>. QED
    BY <1>1, <2>1, <2>2, <2>3
<1>2. CASE \E r \in Sockets : \/ \E l \in Logins : Ticket(r, l)
                              \/ \E x \in Sessions : CheckQuota(r, x)
                              \/ Redeem(r) \/ Track(r) \/ Leave(r)
  <2>1. \/ \E l \in Logins : Ticket(s, l)
        \/ \E x \in Sessions : CheckQuota(s, x)
        \/ Redeem(s) \/ Track(s) \/ Leave(s)
    BY <1>1, <1>2
  <2>2. ~ Leave(s)
    BY NoSocketType DEF Leave, TypeOK
  <2>. QED
    BY <2>1, <2>2 DEF Ticket, CheckQuota, Redeem
<1>3. CASE \E l \in Logins : \/ \E u \in Users : LoginCounts(l, u)
                             \/ LoginExpires(l) \/ LoginReads(l) \/ LoginStores(l)
                             \/ LoginIndexes(l) \/ LoginFails(l) \/ TokenEnds(l)
  BY <1>3 DEF LoginCounts, LoginExpires, LoginReads, LoginStores, LoginIndexes, LoginFails, TokenEnds
<1>4. CASE \E u \in Users : WindowEnds(u)
  BY <1>4 DEF WindowEnds
<1>5. CASE \E c \in Changes : \/ \E l \in Logins, u \in Users, todo \in Bodies : Gate(c, l, u, todo)
                              \/ Validated(c) \/ Updates(c) \/ Lists(c) \/ Deletes(c)
                              \/ DropsIndex(c) \/ ChangeFails(c)
  BY <1>5 DEF Gate, Validated, Updates, Lists, Deletes, DropsIndex, ChangeFails
<1>6. CASE UNCHANGED vars
  BY <1>6 DEF vars
<1>. QED
  BY <1>2, <1>3, <1>4, <1>5, <1>6 DEF Next

\* Counting a socket passes the quota, or what was live at its check, by no more than the upgrades
\* that overtook it between checkQuota() and track(), however many there are.
THEOREM QuotaKept == Spec => QuotaOvershoot
<1>. DEFINE IInv == TypeOK /\ Known /\ Roomy
            Step == \A s \in Sockets :
                      socket[s].at = "checked" /\ socket'[s].at = "live" => Cardinality(Live') <= socket[s].room
<1>1. Init => IInv
  BY TypeInit, RoomyInit
<1>2. IInv /\ [Next]_vars => IInv'
  BY TypeStep, RoomyStep
<1>3. IInv /\ [Next]_vars => Step
  <2>. SUFFICES ASSUME TypeOK, Roomy, [Next]_vars, NEW s \in Sockets,
                       socket[s].at = "checked", socket'[s].at = "live"
                PROVE  Cardinality(Live') <= socket[s].room
    OBVIOUS
  <2>1. Live' = Live \union {socket[s].session}
    BY OnlyTrack, TrackLive
  <2>. QED
    BY <2>1 DEF Roomy
<1>4. IInv /\ [Next]_vars => [Step]_vars
  BY <1>3
<1>. HIDE DEF IInv
<1>5. Spec => [][Step]_vars
  BY <1>1, <1>2, <1>4, PTL DEF Spec
<1>. QED
  BY <1>5 DEF QuotaOvershoot
-----------------------------------------------------------------------------
(* Revocation.  `Clean` are the logins that were not under way during a     *)
(* change of their user: what they hold is the account as long as nothing   *)
(* changes it, and whatever changes it finds them.                          *)

Clean == Logins \ overlapped

\* Only logins that are complete are listed, under their user.
IndexDone == \A l \in index : login[l].at = "done"
FoundDone == \A c \in Changes : change[c].at = "listed" =>
               \A l \in change[c].todo : /\ l \in Logins /\ login[l].at = "done"
                                         /\ login[l].user = change[c].of

\* A login under way holds the account, and no change of it is between its update and its end.
ReadFresh == \A l \in Clean : login[l].at = "read" =>
               login[l].read = account[login[l].user] /\ Revoking(login[l].user) = {}
StoredFresh == \A l \in Clean : login[l].at = "stored" =>
                 token[l] = account[login[l].user] /\ Revoking(login[l].user) = {}

\* A token that lives is listed, and is stale only while a change is about to delete it or failed to.
Fresh(l) == /\ l \in index
            /\ \/ token[l] = account[login[l].user]
               \/ Revoking(login[l].user) # {}
               \/ login[l].user \in unrevoked
TokensFresh == \A l \in Clean : login[l].at = "done" /\ token[l] # None => Fresh(l)

\* What a change found is all that lives, and what it deleted is all there was.
FoundAll == \A c \in Changes : change[c].at = "listed" =>
              \A l \in Clean : login[l].at = "done" /\ token[l] # None /\ login[l].user = change[c].of
                               => l \in change[c].todo
DeletedAll == \A c \in Changes : change[c].at = "deleted" =>
                \A l \in Clean : login[l].at = "done" /\ login[l].user = change[c].of => token[l] = None

Revocation == /\ IndexDone /\ FoundDone /\ ReadFresh /\ StoredFresh
              /\ TokensFresh /\ FoundAll /\ DeletedAll

LEMMA RevocationInit == Init => Revocation
<1>. SUFFICES ASSUME Init PROVE Revocation
  OBVIOUS
<1>1. index = {} /\ \A l \in Logins : login[l].at = "idle"
  BY DEF Init, NoLogin
<1>2. \A c \in Changes : change[c].at = "idle"
  BY DEF Init, NoChange
<1>3. IndexDone /\ ReadFresh /\ StoredFresh /\ TokensFresh
  BY <1>1 DEF IndexDone, ReadFresh, StoredFresh, TokensFresh, Clean
<1>4. FoundDone /\ FoundAll /\ DeletedAll
  BY <1>2 DEF FoundDone, FoundAll, DeletedAll
<1>. QED
  BY <1>3, <1>4 DEF Revocation

\* Nothing that the invariant reads changes.
LEMMA RevocationStutters ==
  ASSUME Revocation, UNCHANGED <<account, token, index, login, change, overlapped, unrevoked>>
  PROVE  Revocation'
BY DEF Revocation, IndexDone, FoundDone, ReadFresh, StoredFresh, TokensFresh, FoundAll, DeletedAll,
       Clean, Fresh, Revoking

\* A step of a login that leaves it short of what the invariant says of it.
LEMMA RevocationBegins ==
  ASSUME TypeOK, Revocation, NEW l \in Logins, login[l].at \notin {"done"},
         login'[l].at \notin {"read", "stored", "done"},
         \A m \in Logins : m # l => login'[m] = login[m],
         UNCHANGED <<account, token, index, change, overlapped, unrevoked>>
  PROVE  Revocation'
<1>0. index \subseteq Logins /\ \A u : Revoking(u)' = Revoking(u)
  BY DEF TypeOK, Revoking
<1>1. IndexDone'
  BY <1>0 DEF Revocation, IndexDone
<1>2. FoundDone'
  BY DEF Revocation, FoundDone
<1>3. ReadFresh'
  BY <1>0 DEF Revocation, ReadFresh, Clean
<1>4. StoredFresh'
  BY <1>0 DEF Revocation, StoredFresh, Clean
<1>5. TokensFresh'
  BY <1>0 DEF Revocation, TokensFresh, Clean, Fresh
<1>6. FoundAll' /\ DeletedAll'
  BY DEF Revocation, FoundAll, DeletedAll, Clean
<1>. QED
  BY <1>1, <1>2, <1>3, <1>4, <1>5, <1>6 DEF Revocation

LEMMA RevocationCounts ==
  ASSUME TypeOK, Revocation, NEW l \in Logins, NEW u \in Users, LoginCounts(l, u)
  PROVE  Revocation'
<1>1. CASE login' = login
  BY <1>1, RevocationStutters DEF LoginCounts
<1>2. CASE login' # login
  <2>1. PICK a \in {"first", "counted"} :
          login' = [login EXCEPT ![l] = [at |-> a, user |-> u, read |-> None]]
    BY <1>2 DEF LoginCounts
  <2>2. login[l].at = "idle" /\ UNCHANGED <<account, token, index, change, overlapped, unrevoked>>
    BY DEF LoginCounts
  <2>3. login'[l].at = a /\ \A m \in Logins : m # l => login'[m] = login[m]
    BY <2>1 DEF TypeOK
  <2>. QED
    BY <2>2, <2>3, RevocationBegins
<1>. QED
  BY <1>1, <1>2

LEMMA RevocationExpires ==
  ASSUME TypeOK, Revocation, NEW l \in Logins, LoginExpires(l)
  PROVE  Revocation'
<1>1. login[l].at = "first" /\ UNCHANGED <<account, token, index, change, overlapped, unrevoked>>
  BY DEF LoginExpires
<1>2. login'[l].at = "counted" /\ \A m \in Logins : m # l => login'[m] = login[m]
  BY DEF LoginExpires, TypeOK, Login
<1>. QED
  BY <1>1, <1>2, RevocationBegins

LEMMA RevocationFails ==
  ASSUME TypeOK, Revocation, NEW l \in Logins, LoginFails(l)
  PROVE  Revocation'
<1>1. login[l].at # "done" /\ UNCHANGED <<account, token, index, change, overlapped, unrevoked>>
  BY DEF LoginFails
<1>2. [NoLogin EXCEPT !.at = "failed"].at = "failed"
  BY DEF NoLogin
<1>3. login'[l].at = "failed" /\ \A m \in Logins : m # l => login'[m] = login[m]
  BY <1>2 DEF LoginFails, TypeOK
<1>. QED
  BY <1>1, <1>3, RevocationBegins

LEMMA RevocationReads ==
  ASSUME TypeOK, Revocation, NEW l \in Logins, LoginReads(l)
  PROVE  Revocation'
<1>0. login[l].at = "counted" /\ UNCHANGED <<account, token, index, change, unrevoked>>
  BY DEF LoginReads
<1>1. CASE login' = [login EXCEPT ![l] = NoLogin]
  <2>1. login'[l].at = "idle" /\ \A m \in Logins : m # l => login'[m] = login[m]
    BY <1>1 DEF TypeOK, NoLogin
  <2>2. overlapped' = overlapped
    BY <2>1 DEF LoginReads
  <2>. QED
    BY <1>0, <2>1, <2>2, RevocationBegins
<1>2. CASE login' = [login EXCEPT ![l].at = "read", ![l].read = account[login[l].user]]
  <2>1. /\ login'[l].at = "read" /\ login'[l].user = login[l].user
        /\ login'[l].read = account[login[l].user]
        /\ \A m \in Logins : m # l => login'[m] = login[m]
    BY <1>2 DEF TypeOK, Login
  <2>2. index \subseteq Logins /\ \A u : Revoking(u)' = Revoking(u)
    BY <1>0 DEF TypeOK, Revoking
  <2>3. Clean' \subseteq Clean /\ (Revoking(login[l].user) # {} => l \notin Clean')
    BY <2>1 DEF LoginReads, Clean
  <2>4. IndexDone' /\ FoundDone'
    BY <1>0, <2>1, <2>2 DEF Revocation, IndexDone, FoundDone
  <2>5. ReadFresh'
    BY <1>0, <2>1, <2>2, <2>3 DEF Revocation, ReadFresh, Clean
  <2>6. StoredFresh' /\ TokensFresh'
    BY <1>0, <2>1, <2>2, <2>3 DEF Revocation, StoredFresh, TokensFresh, Clean, Fresh
  <2>7. FoundAll' /\ DeletedAll'
    BY <1>0, <2>1, <2>3 DEF Revocation, FoundAll, DeletedAll, Clean
  <2>. QED
    BY <2>4, <2>5, <2>6, <2>7 DEF Revocation
<1>. QED
  BY <1>1, <1>2 DEF LoginReads

LEMMA RevocationStores ==
  ASSUME TypeOK, Revocation, NEW l \in Logins, LoginStores(l)
  PROVE  Revocation'
<1>0. login[l].at = "read" /\ UNCHANGED <<account, index, change, overlapped, unrevoked>>
  BY DEF LoginStores
<1>1. /\ login'[l].at = "stored" /\ login'[l].user = login[l].user
      /\ token'[l] = login[l].read
      /\ \A m \in Logins : m # l => login'[m] = login[m] /\ token'[m] = token[m]
  BY DEF LoginStores, TypeOK, Login
<1>2. index \subseteq Logins /\ (\A u : Revoking(u)' = Revoking(u)) /\ Clean' = Clean
  BY <1>0 DEF TypeOK, Revoking, Clean
<1>3. IndexDone' /\ FoundDone'
  BY <1>0, <1>1, <1>2 DEF Revocation, IndexDone, FoundDone
<1>4. ReadFresh'
  BY <1>0, <1>1, <1>2 DEF Revocation, ReadFresh, Clean
<1>5. StoredFresh'
  BY <1>0, <1>1, <1>2 DEF Revocation, ReadFresh, StoredFresh, Clean
<1>6. TokensFresh'
  BY <1>0, <1>1, <1>2 DEF Revocation, TokensFresh, Clean, Fresh
<1>7. FoundAll' /\ DeletedAll'
  BY <1>0, <1>1, <1>2 DEF Revocation, FoundAll, DeletedAll, Clean
<1>. QED
  BY <1>3, <1>4, <1>5, <1>6, <1>7 DEF Revocation

LEMMA RevocationIndexes ==
  ASSUME TypeOK, Revocation, NEW l \in Logins, LoginIndexes(l)
  PROVE  Revocation'
<1>0. /\ login[l].at = "stored" /\ index' = index \union {l}
      /\ UNCHANGED <<account, token, change, overlapped, unrevoked>>
  BY DEF LoginIndexes
<1>1. /\ login'[l].at = "done" /\ login'[l].user = login[l].user
      /\ \A m \in Logins : m # l => login'[m] = login[m]
  BY DEF LoginIndexes, TypeOK, Login
<1>2. index \subseteq Logins /\ (\A u : Revoking(u)' = Revoking(u)) /\ Clean' = Clean
  BY <1>0 DEF TypeOK, Revoking, Clean
<1>3. IndexDone'
  BY <1>0, <1>1, <1>2 DEF Revocation, IndexDone
<1>f. FoundDone'
  BY <1>0, <1>1 DEF Revocation, FoundDone
<1>4. ReadFresh' /\ StoredFresh'
  BY <1>0, <1>1, <1>2 DEF Revocation, ReadFresh, StoredFresh, Clean
<1>5. l \in Clean => token[l] = account[login[l].user] /\ Revoking(login[l].user) = {}
  BY <1>0 DEF Revocation, StoredFresh
<1>6. TokensFresh'
  BY <1>0, <1>1, <1>2, <1>5 DEF Revocation, TokensFresh, Clean, Fresh
<1>7. ASSUME NEW c \in Changes, change[c].at \in {"listed", "deleted"}, l \in Clean
      PROVE  login[l].user # change[c].of
  BY <1>5, <1>7 DEF Revoking
<1>8. FoundAll' /\ DeletedAll'
  BY <1>0, <1>1, <1>2, <1>7 DEF Revocation, FoundAll, DeletedAll, Clean
<1>. QED
  BY <1>3, <1>f, <1>4, <1>6, <1>8 DEF Revocation

LEMMA RevocationTokenEnds ==
  ASSUME TypeOK, Revocation, NEW l \in Logins, TokenEnds(l)
  PROVE  Revocation'
<1>0. login[l].at = "done" /\ UNCHANGED <<account, index, login, change, overlapped, unrevoked>>
  BY DEF TokenEnds
<1>1. token'[l] = None /\ \A m \in Logins : m # l => token'[m] = token[m]
  BY DEF TokenEnds, TypeOK
<1>2. (\A u : Revoking(u)' = Revoking(u)) /\ Clean' = Clean
  BY <1>0 DEF Revoking, Clean
<1>3. IndexDone' /\ FoundDone'
  BY <1>0 DEF Revocation, IndexDone, FoundDone
<1>4. ReadFresh' /\ StoredFresh'
  BY <1>0, <1>1, <1>2 DEF Revocation, ReadFresh, StoredFresh, Clean
<1>5. TokensFresh'
  BY <1>0, <1>1, <1>2 DEF Revocation, TokensFresh, Clean, Fresh
<1>6. FoundAll' /\ DeletedAll'
  BY <1>0, <1>1, <1>2 DEF Revocation, FoundAll, DeletedAll, Clean
<1>. QED
  BY <1>3, <1>4, <1>5, <1>6 DEF Revocation
\* A change that only starts, or that ends before it updated anything.
LEMMA RevocationApart ==
  ASSUME Revocation, NEW c \in Changes,
         change[c].at \in {"idle", "gated", "valid"}, change'[c].at \in {"gated", "valid", "done"},
         \A d \in Changes : d # c => change'[d] = change[d],
         UNCHANGED <<account, token, index, login, overlapped, unrevoked>>
  PROVE  Revocation'
<1>1. (\A u : Revoking(u)' = Revoking(u)) /\ Clean' = Clean
  BY DEF Revoking, Clean
<1>2. IndexDone' /\ FoundDone'
  BY DEF Revocation, IndexDone, FoundDone
<1>3. ReadFresh' /\ StoredFresh' /\ TokensFresh'
  BY <1>1 DEF Revocation, ReadFresh, StoredFresh, TokensFresh, Fresh
<1>4. FoundAll' /\ DeletedAll'
  BY <1>1 DEF Revocation, FoundAll, DeletedAll
<1>. QED
  BY <1>2, <1>3, <1>4 DEF Revocation

LEMMA RevocationGate ==
  ASSUME TypeOK, Revocation, NEW c \in Changes, NEW l \in Logins, NEW u \in Users,
         NEW todo \in Bodies, Gate(c, l, u, todo)
  PROVE  Revocation'
<1>1. change[c].at = "idle" /\ UNCHANGED <<account, token, index, login, overlapped, unrevoked>>
  BY DEF Gate
<1>2. change' = [change EXCEPT ![c] = [at |-> "gated", of |-> u, by |-> l, todo |-> todo]]
  BY DEF Gate
<1>3. change'[c].at = "gated" /\ \A d \in Changes : d # c => change'[d] = change[d]
  BY <1>2 DEF TypeOK
<1>. QED
  BY <1>1, <1>3, RevocationApart

LEMMA ValidatedDoes ==
  ASSUME TypeOK, NEW c \in Changes, Validated(c)
  PROVE  /\ change[c].at = "gated"
         /\ \A d \in Changes : d # c => change'[d] = change[d]
         /\ RefusesSelf(c) => change'[c].at = "done"
         /\ ~RefusesSelf(c) => /\ change'[c].at = "valid" /\ change'[c].of = change[c].of
                               /\ change'[c].todo = change[c].todo
<1>0. change[c].at = "gated"
  BY DEF Validated
<1>1. CASE RefusesSelf(c)
  BY <1>0, <1>1, OverType DEF Validated, TypeOK
<1>2. CASE ~RefusesSelf(c)
  <2>1. change' = [change EXCEPT ![c] = [change[c] EXCEPT !.at = "valid", !.by = "none"]]
    BY <1>2 DEF Validated, TypeOK
  <2>. QED
    BY <1>0, <1>2, <2>1 DEF TypeOK, Change
<1>. QED
  BY <1>1, <1>2

LEMMA RevocationValidated ==
  ASSUME TypeOK, Revocation, NEW c \in Changes, Validated(c)
  PROVE  Revocation'
<1>1. UNCHANGED <<account, token, index, login, overlapped, unrevoked>>
  BY DEF Validated
<1>2. change'[c].at \in {"valid", "done"}
  BY ValidatedDoes
<1>. QED
  BY <1>1, <1>2, ValidatedDoes, RevocationApart

\* An update finds the logins under way, which are not clean any more, and is itself a change that
\* is about to revoke.
LEMMA RevocationUpdates ==
  ASSUME TypeOK, Known, Revocation, NEW c \in Changes, Updates(c)
  PROVE  Revocation'
<1>0. /\ change[c].at \in {"valid", "updated"} /\ change[c].of \in Users
      /\ \A u \in Users : u # change[c].of => account'[u] = account[u]
      /\ \A d \in Changes : d # c => change'[d] = change[d]
      /\ change'[c].at = "updated" /\ change'[c].of = change[c].of
  BY UpdatesDoes
<1>1. UNCHANGED <<token, index, login, unrevoked>>
  BY DEF Updates
<1>2. overlapped' = overlapped \union {l \in Logins : login[l].at \in {"read", "stored"}
                                                      /\ login[l].user = change[c].of}
  BY DEF Updates
<1>3. Clean' \subseteq Clean /\ \A l \in Clean' : login[l].at \in {"read", "stored"} => login[l].user # change[c].of
  BY <1>2 DEF Clean
<1>4. /\ \A u : Revoking(u) \subseteq Revoking(u)'
      /\ \A u : u # change[c].of => Revoking(u)' = Revoking(u)
      /\ c \in Revoking(change[c].of)'
  BY <1>0 DEF Revoking
<1>5. \A l \in Logins : login[l].at \in {"read", "stored", "done"} => login[l].user \in Users
  BY DEF Known
<1>6. Clean \subseteq Logins
  BY DEF Clean
<1>7. IndexDone' /\ FoundDone'
  BY <1>0, <1>1 DEF Revocation, IndexDone, FoundDone
<1>8. ReadFresh'
  BY <1>0, <1>1, <1>3, <1>4, <1>5, <1>6 DEF Revocation, ReadFresh
<1>9. StoredFresh'
  BY <1>0, <1>1, <1>3, <1>4, <1>5, <1>6 DEF Revocation, StoredFresh
<1>10. TokensFresh'
  <2>. SUFFICES ASSUME NEW l \in Clean', login[l].at = "done", token[l] # None
                PROVE  Fresh(l)'
    BY <1>1 DEF TokensFresh
  <2>1. Fresh(l) /\ login[l].user \in Users
    BY <1>3, <1>5, <1>6 DEF Revocation, TokensFresh
  <2>2. CASE login[l].user = change[c].of
    BY <1>0, <1>1, <1>4, <2>1, <2>2 DEF Fresh
  <2>3. CASE login[l].user # change[c].of
    BY <1>0, <1>1, <1>4, <2>1, <2>3 DEF Fresh
  <2>. QED
    BY <2>2, <2>3
<1>11. FoundAll' /\ DeletedAll'
  BY <1>0, <1>1, <1>3 DEF Revocation, FoundAll, DeletedAll
<1>. QED
  BY <1>7, <1>8, <1>9, <1>10, <1>11 DEF Revocation

\* What is listed for deletion is every token that lives: they are all in the index.
LEMMA RevocationLists ==
  ASSUME TypeOK, Revocation, NEW c \in Changes, Lists(c)
  PROVE  Revocation'
<1>0. /\ change[c].at = "updated"
      /\ \A d \in Changes : d # c => change'[d] = change[d]
      /\ change'[c].at = "listed" /\ change'[c].of = change[c].of
      /\ change'[c].todo = {l \in index : login[l].user = change[c].of}
  BY ListsDoes
<1>1. UNCHANGED <<account, token, index, login, overlapped, unrevoked>>
  BY DEF Lists
<1>2. (\A u : Revoking(u)' = Revoking(u)) /\ Clean' = Clean
  BY <1>0, <1>1 DEF Revoking, Clean
<1>3. IndexDone'
  BY <1>1 DEF Revocation, IndexDone
<1>4. FoundDone'
  BY <1>0, <1>1 DEF Revocation, IndexDone, FoundDone, TypeOK
<1>5. ReadFresh' /\ StoredFresh' /\ TokensFresh'
  BY <1>1, <1>2 DEF Revocation, ReadFresh, StoredFresh, TokensFresh, Fresh
<1>6. FoundAll'
  BY <1>0, <1>1, <1>2 DEF Revocation, FoundAll, TokensFresh, Fresh
<1>7. DeletedAll'
  BY <1>0, <1>1, <1>2 DEF Revocation, DeletedAll
<1>. QED
  BY <1>3, <1>4, <1>5, <1>6, <1>7 DEF Revocation

\* What is found is deleted, and nothing else is.
LEMMA RevocationDeletes ==
  ASSUME TypeOK, Revocation, NEW c \in Changes, Deletes(c)
  PROVE  Revocation'
<1>0. /\ change[c].at = "listed"
      /\ \A d \in Changes : d # c => change'[d] = change[d]
      /\ change'[c].at = "deleted" /\ change'[c].of = change[c].of
      /\ \A l \in Logins : l \in change[c].todo => token'[l] = None
      /\ \A l \in Logins : l \notin change[c].todo => token'[l] = token[l]
      /\ \A l \in Logins : token'[l] \in {token[l], None}
  BY DeletesDoes
<1>1. UNCHANGED <<account, index, login, overlapped, unrevoked>>
  BY DEF Deletes
<1>2. (\A u : Revoking(u)' = Revoking(u)) /\ Clean' = Clean /\ Clean \subseteq Logins
  BY <1>0, <1>1 DEF Revoking, Clean
<1>3. IndexDone' /\ FoundDone' /\ ReadFresh'
  BY <1>0, <1>1, <1>2 DEF Revocation, IndexDone, FoundDone, ReadFresh
<1>4. \A l \in Clean : login[l].at = "stored" => token'[l] = token[l]
  BY <1>0, <1>2 DEF Revocation, FoundDone
<1>5. StoredFresh'
  BY <1>1, <1>2, <1>4 DEF Revocation, StoredFresh
<1>6. TokensFresh'
  BY <1>0, <1>1, <1>2 DEF Revocation, TokensFresh, Fresh
<1>7. FoundAll'
  BY <1>0, <1>1, <1>2 DEF Revocation, FoundAll
<1>8. DeletedAll'
  <2>. SUFFICES ASSUME NEW d \in Changes, change'[d].at = "deleted",
                       NEW l \in Clean, login[l].at = "done", login[l].user = change'[d].of
                PROVE  token'[l] = None
    BY <1>1, <1>2 DEF DeletedAll
  <2>1. CASE d = c
    <3>1. token[l] = None \/ l \in change[c].todo
      BY <1>0, <2>1 DEF Revocation, FoundAll
    <3>. QED
      BY <1>0, <1>2, <3>1
  <2>2. CASE d # c
    BY <1>0, <1>2, <2>2 DEF Revocation, DeletedAll
  <2>. QED
    BY <2>1, <2>2
<1>. QED
  BY <1>3, <1>5, <1>6, <1>7, <1>8 DEF Revocation

\* The index loses logins whose tokens are gone.
LEMMA RevocationDropsIndex ==
  ASSUME TypeOK, Revocation, NEW c \in Changes, DropsIndex(c)
  PROVE  Revocation'
<1>0. /\ change[c].at = "deleted" /\ index' = {l \in index : login[l].user # change[c].of}
      /\ unrevoked' = unrevoked \ {change[c].of}
      /\ UNCHANGED <<account, token, login, overlapped>>
  BY DEF DropsIndex
<1>1. /\ change'[c].at = "done"
      /\ \A d \in Changes : d # c => change'[d] = change[d]
  BY OverType DEF DropsIndex, TypeOK
<1>2. /\ \A u : Revoking(u)' \subseteq Revoking(u)
      /\ \A u : u # change[c].of => Revoking(u)' = Revoking(u)
      /\ Clean' = Clean
  BY <1>0, <1>1 DEF Revoking, Clean
<1>3. IndexDone' /\ FoundDone'
  BY <1>0, <1>1 DEF Revocation, IndexDone, FoundDone
<1>4. ReadFresh' /\ StoredFresh'
  BY <1>0, <1>2 DEF Revocation, ReadFresh, StoredFresh
<1>5. TokensFresh'
  <2>. SUFFICES ASSUME NEW l \in Clean, login[l].at = "done", token[l] # None
                PROVE  Fresh(l)'
    BY <1>0, <1>2 DEF TokensFresh
  <2>1. login[l].user # change[c].of
    BY <1>0 DEF Revocation, DeletedAll
  <2>2. Fresh(l)
    BY DEF Revocation, TokensFresh
  <2>. QED
    BY <1>0, <1>2, <2>1, <2>2 DEF Fresh
<1>6. FoundAll' /\ DeletedAll'
  BY <1>0, <1>1, <1>2 DEF Revocation, FoundAll, DeletedAll
<1>. QED
  BY <1>3, <1>4, <1>5, <1>6 DEF Revocation

\* A change that fails after an update leaves its user among the unrevoked.
LEMMA RevocationChangeFails ==
  ASSUME TypeOK, Revocation, NEW c \in Changes, ChangeFails(c)
  PROVE  Revocation'
<1>0. /\ unrevoked' = IF c \in Revoking(change[c].of) THEN unrevoked \union {change[c].of} ELSE unrevoked
      /\ UNCHANGED <<account, token, index, login, overlapped>>
  BY DEF ChangeFails
<1>1. /\ change'[c].at = "done"
      /\ \A d \in Changes : d # c => change'[d] = change[d]
  BY OverType DEF ChangeFails, TypeOK
<1>2. /\ \A u : Revoking(u)' = Revoking(u) \ {c}
      /\ \A u : c \in Revoking(u) => u = change[c].of
      /\ Clean' = Clean
  BY <1>0, <1>1 DEF Revoking, Clean
<1>3. IndexDone' /\ FoundDone'
  BY <1>0, <1>1 DEF Revocation, IndexDone, FoundDone
<1>4. ReadFresh' /\ StoredFresh'
  BY <1>0, <1>2 DEF Revocation, ReadFresh, StoredFresh
<1>5. TokensFresh'
  <2>. SUFFICES ASSUME NEW l \in Clean, login[l].at = "done", token[l] # None
                PROVE  Fresh(l)'
    BY <1>0, <1>2 DEF TokensFresh
  <2>1. Fresh(l)
    BY DEF Revocation, TokensFresh
  <2>. QED
    BY <1>0, <1>2, <2>1 DEF Fresh
<1>6. FoundAll' /\ DeletedAll'
  BY <1>0, <1>1, <1>2 DEF Revocation, FoundAll, DeletedAll
<1>. QED
  BY <1>3, <1>4, <1>5, <1>6 DEF Revocation

LEMMA RevocationStep == TypeOK /\ Known /\ Revocation /\ [Next]_vars => Revocation'
<1>. SUFFICES ASSUME TypeOK, Known, Revocation, [Next]_vars
              PROVE  Revocation'
  OBVIOUS
<1>1. CASE \E l \in Logins : \/ \E u \in Users : LoginCounts(l, u)
                             \/ LoginExpires(l) \/ LoginReads(l) \/ LoginStores(l)
                             \/ LoginIndexes(l) \/ LoginFails(l) \/ TokenEnds(l)
  BY <1>1, RevocationCounts, RevocationExpires, RevocationReads, RevocationStores, RevocationIndexes,
     RevocationFails, RevocationTokenEnds
<1>2. CASE \E u \in Users : WindowEnds(u)
  BY <1>2, RevocationStutters DEF WindowEnds
<1>3. CASE \E c \in Changes : \/ \E l \in Logins, u \in Users, todo \in Bodies : Gate(c, l, u, todo)
                              \/ Validated(c) \/ Updates(c) \/ Lists(c) \/ Deletes(c)
                              \/ DropsIndex(c) \/ ChangeFails(c)
  BY <1>3, RevocationGate, RevocationValidated, RevocationUpdates, RevocationLists, RevocationDeletes,
     RevocationDropsIndex, RevocationChangeFails
<1>4. CASE \E s \in Sockets : \/ \E l \in Logins : Ticket(s, l)
                              \/ \E x \in Sessions : CheckQuota(s, x)
                              \/ Redeem(s) \/ Track(s) \/ Leave(s)
  BY <1>4, SocketOnly, RevocationStutters
<1>5. CASE UNCHANGED vars
  BY <1>5, RevocationStutters DEF vars
<1>. QED
  BY <1>1, <1>2, <1>3, <1>4, <1>5 DEF Next

\* Only the redemption of its ticket identifies a socket.
LEMMA OnlyRedeem ==
  ASSUME TypeOK, [Next]_vars, NEW s \in Sockets, socket[s].at = "ticket", socket'[s].at = "identified"
  PROVE  Redeem(s)
<1>1. ASSUME NEW r \in Sockets, r # s,
             \/ \E l \in Logins : Ticket(r, l)
             \/ \E x \in Sessions : CheckQuota(r, x)
             \/ Redeem(r) \/ Track(r) \/ Leave(r)
      PROVE  FALSE
  <2>1. CASE Track(r)
    BY <1>1, <2>1, TrackDoes, LiveBounded
  <2>2. CASE \/ \E l \in Logins : Ticket(r, l)
             \/ Redeem(r) \/ Leave(r)
    BY <1>1, <2>2 DEF Ticket, Redeem, Leave, TypeOK
  <2>3. CASE \E x \in Sessions : CheckQuota(r, x)
    BY <1>1, <2>3, CheckQuotaDoes, LiveBounded
  <2>. QED
    BY <1>1, <2>1, <2>2, <2>3
<1>2. CASE \E r \in Sockets : \/ \E l \in Logins : Ticket(r, l)
                              \/ \E x \in Sessions : CheckQuota(r, x)
                              \/ Redeem(r) \/ Track(r) \/ Leave(r)
  <2>1. \/ \E l \in Logins : Ticket(s, l)
        \/ \E x \in Sessions : CheckQuota(s, x)
        \/ Redeem(s) \/ Track(s) \/ Leave(s)
    BY <1>1, <1>2
  <2>. QED
    BY <2>1 DEF Ticket, CheckQuota, Track, Leave
<1>3. CASE \E l \in Logins : \/ \E u \in Users : LoginCounts(l, u)
                             \/ LoginExpires(l) \/ LoginReads(l) \/ LoginStores(l)
                             \/ LoginIndexes(l) \/ LoginFails(l) \/ TokenEnds(l)
  BY <1>3 DEF LoginCounts, LoginExpires, LoginReads, LoginStores, LoginIndexes, LoginFails, TokenEnds
<1>4. CASE \E u \in Users : WindowEnds(u)
  BY <1>4 DEF WindowEnds
<1>5. CASE \E c \in Changes : \/ \E l \in Logins, u \in Users, todo \in Bodies : Gate(c, l, u, todo)
                              \/ Validated(c) \/ Updates(c) \/ Lists(c) \/ Deletes(c)
                              \/ DropsIndex(c) \/ ChangeFails(c)
  BY <1>5 DEF Gate, Validated, Updates, Lists, Deletes, DropsIndex, ChangeFails
<1>6. CASE UNCHANGED vars
  BY <1>6 DEF vars
<1>. QED
  BY <1>2, <1>3, <1>4, <1>5, <1>6 DEF Next

\* A socket let in while no change of its user is under way carries the account as it is now,
\* however many logins, changes and sockets interleave.
THEOREM RevocationWorks == Spec => ChangeRevokes
<1>. DEFINE IInv == TypeOK /\ Known /\ Revocation
            Step == \A s \in Sockets :
                      LET l == socket[s].login
                          u == login[l].user
                      IN (/\ socket[s].at = "ticket" /\ socket'[s].at = "identified"
                          /\ Revoking(u) = {} /\ u \notin unrevoked /\ l \notin overlapped)
                         => token[l] = account[u]
<1>1. Init => IInv
  BY TypeInit, RevocationInit
<1>2. IInv /\ [Next]_vars => IInv'
  BY TypeStep, RevocationStep
<1>3. ASSUME IInv, [Next]_vars, NEW s \in Sockets,
             socket[s].at = "ticket", socket'[s].at = "identified",
             Revoking(login[socket[s].login].user) = {},
             login[socket[s].login].user \notin unrevoked, socket[s].login \notin overlapped
      PROVE  token[socket[s].login] = account[login[socket[s].login].user]
  <2>1. token[socket[s].login] # None
    BY <1>3, OnlyRedeem, NoSocketType DEF Redeem, Holds, TypeOK
  <2>2. socket[s].login \in Clean /\ login[socket[s].login].at = "done"
    BY <1>3 DEF Known, Clean
  <2>3. Fresh(socket[s].login)
    BY <1>3, <2>1, <2>2 DEF Revocation, TokensFresh
  <2>. QED
    BY <1>3, <2>3 DEF Fresh
<1>4. IInv /\ [Next]_vars => [Step]_vars
  BY <1>3
<1>. HIDE DEF IInv
<1>5. Spec => [][Step]_vars
  BY <1>1, <1>2, <1>4, PTL DEF Spec
<1>. QED
  BY <1>5 DEF ChangeRevokes
-----------------------------------------------------------------------------
(* The last administrator.  As long as nothing disturbed the changes there   *)
(* is at most one at a time, asked for by a login that says what its account *)
(* says, so the administrator who asks is one that remains.                  *)

Admin == \E u \in Users : account[u].role = "admin"
OneChange == \A c, d \in Changing : c = d

\* The login that asks for a change is still what it was at the gate.
AskerIsAdmin ==
  \A c \in Changes : change[c].at = "gated" =>
    LET l == change[c].by
    IN /\ l \in Clean /\ login[l].at = "done" /\ token[l] # None
       /\ token[l] = account[login[l].user] /\ account[login[l].user].role = "admin"

\* Somebody else is an administrator when a role is about to be taken away.
AnotherAdmin ==
  \A c \in Changes : change[c].at \in {"valid", "updated"} /\ "role" \in change[c].todo =>
    \E u \in Users : u # change[c].of /\ account[u].role = "admin"

Orderly == disturbed \/ (Admin /\ OneChange /\ unrevoked = {} /\ AskerIsAdmin /\ AnotherAdmin)

LEMMA OrderlyInit == Init => Orderly
<1>. SUFFICES ASSUME Init PROVE Orderly
  OBVIOUS
<1>1. Admin
  BY AccessAssumption DEF Init, Admin
<1>2. \A c \in Changes : change[c].at = "idle"
  BY DEF Init, NoChange
<1>3. OneChange /\ AskerIsAdmin /\ AnotherAdmin
  BY <1>2 DEF OneChange, Changing, AskerIsAdmin, AnotherAdmin
<1>4. unrevoked = {}
  BY DEF Init
<1>. QED
  BY <1>1, <1>3, <1>4 DEF Orderly

\* A step of a login leaves those that are complete, and the accounts and changes, alone.
LEMMA OrderlyLogin ==
  ASSUME Orderly, disturbed' = disturbed,
         UNCHANGED <<account, change, unrevoked>>,
         \A l \in Clean : login[l].at = "done" =>
           l \in Clean' /\ login'[l] = login[l] /\ token'[l] = token[l]
  PROVE  Orderly'
<1>1. CASE disturbed
  BY <1>1 DEF Orderly
<1>2. CASE ~disturbed
  <2>1. Admin' /\ OneChange' /\ unrevoked' = {} /\ AnotherAdmin'
    BY <1>2 DEF Orderly, Admin, OneChange, Changing, AnotherAdmin
  <2>2. AskerIsAdmin'
    BY <1>2 DEF Orderly, AskerIsAdmin
  <2>. QED
    BY <2>1, <2>2 DEF Orderly
<1>. QED
  BY <1>1, <1>2

LEMMA OrderlyCounts ==
  ASSUME TypeOK, Orderly, NEW l \in Logins, NEW u \in Users, LoginCounts(l, u)
  PROVE  Orderly'
<1>1. login[l].at = "idle" /\ UNCHANGED <<account, token, change, unrevoked, overlapped, disturbed>>
  BY DEF LoginCounts
<1>2. \A m \in Logins : m # l => login'[m] = login[m]
  BY DEF LoginCounts, TypeOK
<1>. QED
  BY <1>1, <1>2, OrderlyLogin DEF Clean

LEMMA OrderlyReads ==
  ASSUME TypeOK, Orderly, NEW l \in Logins, LoginReads(l)
  PROVE  Orderly'
<1>1. login[l].at = "counted" /\ UNCHANGED <<account, token, change, unrevoked, disturbed>>
  BY DEF LoginReads
<1>2. \A m \in Logins : m # l => login'[m] = login[m]
  BY DEF LoginReads, TypeOK
<1>3. overlapped' \subseteq overlapped \union {l}
  BY DEF LoginReads
<1>. QED
  BY <1>1, <1>2, <1>3, OrderlyLogin DEF Clean

LEMMA OrderlyStores ==
  ASSUME TypeOK, Orderly, NEW l \in Logins,
         LoginExpires(l) \/ LoginStores(l) \/ LoginIndexes(l) \/ LoginFails(l)
  PROVE  Orderly'
<1>1. login[l].at # "done" /\ UNCHANGED <<account, change, unrevoked, overlapped, disturbed>>
  BY DEF LoginExpires, LoginStores, LoginIndexes, LoginFails
<1>2. \A m \in Logins : m # l => login'[m] = login[m] /\ token'[m] = token[m]
  BY DEF LoginExpires, LoginStores, LoginIndexes, LoginFails, TypeOK
<1>. QED
  BY <1>1, <1>2, OrderlyLogin DEF Clean

\* A login that ends disturbs a change it asked for.
LEMMA OrderlyTokenEnds ==
  ASSUME TypeOK, Orderly, NEW l \in Logins, TokenEnds(l)
  PROVE  Orderly'
<1>1. UNCHANGED <<account, login, change, unrevoked, overlapped>>
  BY DEF TokenEnds
<1>2. \A m \in Logins : m # l => token'[m] = token[m]
  BY DEF TokenEnds, TypeOK
<1>3. CASE disturbed'
  BY <1>3 DEF Orderly
<1>4. CASE ~disturbed'
  <2>1. ~disturbed /\ \A c \in Changes : change[c].at = "gated" => change[c].by # l
    BY <1>4 DEF TokenEnds
  <2>2. Admin' /\ OneChange' /\ unrevoked' = {} /\ AnotherAdmin'
    BY <1>1, <2>1 DEF Orderly, Admin, OneChange, Changing, AnotherAdmin
  <2>3. AskerIsAdmin'
    BY <1>1, <1>2, <2>1 DEF Orderly, AskerIsAdmin, Clean
  <2>. QED
    BY <2>2, <2>3 DEF Orderly
<1>. QED
  BY <1>3, <1>4

\* The gate lets a fresh token in, unless a change is under way or its login met one.
LEMMA OrderlyGate ==
  ASSUME TypeOK, Revocation, Orderly, NEW c \in Changes, NEW l \in Logins, NEW u \in Users,
         NEW todo \in Bodies, Gate(c, l, u, todo)
  PROVE  Orderly'
<1>1. CASE disturbed'
  BY <1>1 DEF Orderly
<1>2. CASE ~disturbed'
  <2>0. ~disturbed /\ Changing = {} /\ l \notin overlapped
    BY <1>2 DEF Gate
  <2>1. /\ login[l].at = "done" /\ token[l].role = "admin"
        /\ UNCHANGED <<account, token, login, unrevoked, overlapped>>
    BY DEF Gate
  <2>2. change' = [change EXCEPT ![c] = [at |-> "gated", of |-> u, by |-> l, todo |-> todo]]
    BY DEF Gate
  <2>3. /\ change'[c].at = "gated" /\ change'[c].by = l
        /\ \A d \in Changes : d # c => change'[d] = change[d]
    BY <2>2 DEF TypeOK
  <2>4. \A d \in Changes : change[d].at \in {"idle", "done"}
    BY <2>0 DEF Changing
  <2>5. Admin /\ unrevoked = {}
    BY <2>0 DEF Orderly
  <2>6. l \in Clean /\ Clean' = Clean
    BY <2>0, <2>1 DEF Clean
  <2>7. token[l] # None
    BY <2>1 DEF None
  <2>8. token[l] = account[login[l].user]
    <3>1. Revoking(login[l].user) = {}
      BY <2>4 DEF Revoking
    <3>. QED
      BY <2>1, <2>5, <2>6, <2>7, <3>1 DEF Revocation, TokensFresh, Fresh
  <2>9. Admin' /\ unrevoked' = {}
    BY <2>1, <2>5 DEF Admin
  <2>10. OneChange'
    BY <2>3, <2>4 DEF OneChange, Changing
  <2>11. AskerIsAdmin'
    BY <2>1, <2>3, <2>4, <2>6, <2>7, <2>8 DEF AskerIsAdmin
  <2>12. AnotherAdmin'
    BY <2>3, <2>4 DEF AnotherAdmin
  <2>. QED
    BY <2>9, <2>10, <2>11, <2>12 DEF Orderly
<1>. QED
  BY <1>1, <1>2

\* Not oneself: so the one who asks is another administrator.
LEMMA OrderlyValidated ==
  ASSUME TypeOK, Known, Orderly, NEW c \in Changes, Validated(c)
  PROVE  Orderly'
<1>0. UNCHANGED <<account, token, login, unrevoked, overlapped, disturbed>>
  BY DEF Validated
<1>1. CASE disturbed
  BY <1>0, <1>1 DEF Orderly
<1>2. CASE ~disturbed
  <2>1. Admin' /\ unrevoked' = {}
    BY <1>0, <1>2 DEF Orderly, Admin
  <2>2. /\ change[c].at = "gated" /\ change'[c].at \in {"valid", "done"}
        /\ \A d \in Changes : d # c => change'[d] = change[d]
        /\ ~RefusesSelf(c) => change'[c].of = change[c].of /\ change'[c].todo = change[c].todo
        /\ RefusesSelf(c) => change'[c].at = "done"
    BY ValidatedDoes
  <2>3. OneChange'
    BY <1>2, <2>2 DEF Orderly, OneChange, Changing
  <2>4. AskerIsAdmin'
    BY <1>0, <1>2, <2>2 DEF Orderly, AskerIsAdmin, Clean
  <2>5. AnotherAdmin'
    <3>. SUFFICES ASSUME NEW d \in Changes, change'[d].at \in {"valid", "updated"}, "role" \in change'[d].todo
                  PROVE  \E u \in Users : u # change'[d].of /\ account'[u].role = "admin"
      BY DEF AnotherAdmin
    <3>1. CASE d = c
      <4>1. ~RefusesSelf(c) /\ change'[c].of = change[c].of /\ "role" \in change[c].todo
        BY <2>2, <3>1
      <4>. DEFINE l == change[c].by
      <4>2. /\ login[l].at = "done" /\ token[l] # None /\ l \in Logins
            /\ account[login[l].user].role = "admin"
        BY <1>2, <2>2 DEF Orderly, AskerIsAdmin, Clean
      <4>3. login[l].user \in Users
        BY <4>2 DEF Known
      <4>4. login[l].user # change[c].of
        BY <4>1, <4>2 DEF RefusesSelf
      <4>. QED
        BY <1>0, <3>1, <4>1, <4>2, <4>3, <4>4
    <3>2. CASE d # c
      BY <1>0, <1>2, <2>2, <3>2 DEF Orderly, AnotherAdmin
    <3>. QED
      BY <3>1, <3>2
  <2>. QED
    BY <2>1, <2>3, <2>4, <2>5 DEF Orderly
<1>. QED
  BY <1>1, <1>2

LEMMA OrderlyUpdates ==
  ASSUME TypeOK, Known, Orderly, NEW c \in Changes, Updates(c)
  PROVE  Orderly'
<1>0. UNCHANGED <<token, login, unrevoked, disturbed>>
  BY DEF Updates
<1>1. CASE disturbed
  BY <1>0, <1>1 DEF Orderly
<1>2. CASE ~disturbed
  <2>1. /\ change[c].at \in {"valid", "updated"} /\ change[c].of \in Users
        /\ \A u \in Users : u # change[c].of => account'[u] = account[u]
        /\ "role" \notin change[c].todo => account'[change[c].of].role = account[change[c].of].role
        /\ \A d \in Changes : d # c => change'[d] = change[d]
        /\ change'[c].at = "updated" /\ change'[c].of = change[c].of
        /\ "role" \notin change'[c].todo
    BY UpdatesDoes
  <2>2. Changing = {c} /\ Changing' = {c}
    BY <1>2, <2>1 DEF Orderly, OneChange, Changing
  <2>3. OneChange'
    BY <2>2 DEF OneChange
  <2>4. Admin'
    <3>1. CASE "role" \in change[c].todo
      <4>1. PICK u \in Users : u # change[c].of /\ account[u].role = "admin"
        BY <1>2, <2>1, <3>1 DEF Orderly, AnotherAdmin
      <4>. QED
        BY <2>1, <4>1 DEF Admin
    <3>2. CASE "role" \notin change[c].todo
      BY <1>2, <2>1, <3>2 DEF Orderly, Admin
    <3>. QED
      BY <3>1, <3>2
  <2>5. \A d \in Changes : d # c => change'[d].at \in {"idle", "done"}
    BY <2>2 DEF Changing
  <2>6. AskerIsAdmin' /\ AnotherAdmin'
    BY <2>1, <2>5 DEF AskerIsAdmin, AnotherAdmin
  <2>7. unrevoked' = {}
    BY <1>0, <1>2 DEF Orderly
  <2>. QED
    BY <2>3, <2>4, <2>6, <2>7 DEF Orderly
<1>. QED
  BY <1>1, <1>2

\* The rest of a change, which is the only one.
LEMMA OrderlyRevokes ==
  ASSUME TypeOK, Orderly, NEW c \in Changes, Lists(c) \/ Deletes(c) \/ DropsIndex(c)
  PROVE  Orderly'
<1>0. UNCHANGED <<account, login, disturbed>> /\ unrevoked' \subseteq unrevoked
  BY DEF Lists, Deletes, DropsIndex
<1>1. CASE disturbed
  BY <1>0, <1>1 DEF Orderly
<1>2. CASE ~disturbed
  <2>1. /\ change[c].at \in {"updated", "listed", "deleted"}
        /\ change'[c].at \in {"listed", "deleted", "done"}
        /\ \A d \in Changes : d # c => change'[d] = change[d]
    BY ListsDoes, DeletesDoes, OverType DEF DropsIndex, TypeOK
  <2>2. Changing = {c} /\ Changing' \subseteq {c}
    BY <1>2, <2>1 DEF Orderly, OneChange, Changing
  <2>3. \A d \in Changes : d # c => change'[d].at \in {"idle", "done"}
    BY <2>2 DEF Changing
  <2>4. OneChange' /\ AskerIsAdmin' /\ AnotherAdmin'
    BY <2>1, <2>2, <2>3 DEF OneChange, AskerIsAdmin, AnotherAdmin
  <2>5. Admin' /\ unrevoked' = {}
    BY <1>0, <1>2 DEF Orderly, Admin
  <2>. QED
    BY <2>4, <2>5 DEF Orderly
<1>. QED
  BY <1>1, <1>2

LEMMA OrderlyChangeFails ==
  ASSUME TypeOK, Orderly, NEW c \in Changes, ChangeFails(c)
  PROVE  Orderly'
<1>1. CASE disturbed'
  BY <1>1 DEF Orderly
<1>2. CASE ~disturbed'
  <2>0. ~disturbed /\ unrevoked' = unrevoked /\ UNCHANGED <<account, token, login, overlapped>>
    BY <1>2 DEF ChangeFails
  <2>1. /\ change'[c].at = "done"
        /\ \A d \in Changes : d # c => change'[d] = change[d]
    BY OverType DEF ChangeFails, TypeOK
  <2>2. OneChange'
    BY <2>0, <2>1 DEF Orderly, OneChange, Changing
  <2>3. AskerIsAdmin /\ AnotherAdmin /\ Clean' = Clean
    BY <2>0 DEF Orderly, Clean
  <2>5. AskerIsAdmin'
    BY <2>0, <2>1, <2>3 DEF AskerIsAdmin
  <2>6. AnotherAdmin'
    BY <2>0, <2>1, <2>3 DEF AnotherAdmin
  <2>4. Admin' /\ unrevoked' = {}
    BY <2>0 DEF Orderly, Admin
  <2>. QED
    BY <2>2, <2>4, <2>5, <2>6 DEF Orderly
<1>. QED
  BY <1>1, <1>2

LEMMA OrderlyStep == TypeOK /\ Known /\ Revocation /\ Orderly /\ [Next]_vars => Orderly'
<1>. SUFFICES ASSUME TypeOK, Known, Revocation, Orderly, [Next]_vars
              PROVE  Orderly'
  OBVIOUS
<1>1. CASE \E l \in Logins : \/ \E u \in Users : LoginCounts(l, u)
                             \/ LoginExpires(l) \/ LoginReads(l) \/ LoginStores(l)
                             \/ LoginIndexes(l) \/ LoginFails(l) \/ TokenEnds(l)
  BY <1>1, OrderlyCounts, OrderlyReads, OrderlyStores, OrderlyTokenEnds
<1>2. CASE \E u \in Users : WindowEnds(u)
  BY <1>2, OrderlyLogin DEF WindowEnds, Clean
<1>3. CASE \E c \in Changes : \/ \E l \in Logins, u \in Users, todo \in Bodies : Gate(c, l, u, todo)
                              \/ Validated(c) \/ Updates(c) \/ Lists(c) \/ Deletes(c)
                              \/ DropsIndex(c) \/ ChangeFails(c)
  BY <1>3, OrderlyGate, OrderlyValidated, OrderlyUpdates, OrderlyRevokes, OrderlyChangeFails
<1>4. CASE \E s \in Sockets : \/ \E l \in Logins : Ticket(s, l)
                              \/ \E x \in Sessions : CheckQuota(s, x)
                              \/ Redeem(s) \/ Track(s) \/ Leave(s)
  BY <1>4, SocketOnly, OrderlyLogin DEF Clean
<1>5. CASE UNCHANGED vars
  BY <1>5, OrderlyLogin DEF vars, Clean
<1>. QED
  BY <1>1, <1>2, <1>3, <1>4, <1>5 DEF Next

\* An administrator remains, whatever administrators ask for, as long as nothing disturbs a change.
THEOREM AdministratorRemains == Spec => []AdminRemains
<1>. DEFINE IInv == TypeOK /\ Known /\ Revocation /\ Orderly
<1>1. Init => IInv
  BY TypeInit, RevocationInit, OrderlyInit
<1>2. IInv /\ [Next]_vars => IInv'
  BY TypeStep, RevocationStep, OrderlyStep
<1>3. IInv => AdminRemains
  BY DEF Orderly, Admin, AdminRemains
<1>. HIDE DEF IInv
<1>. QED
  BY <1>1, <1>2, <1>3, PTL DEF Spec

\* Types, for any number of users, logins, changes and sockets.
THEOREM TypeCorrect == Spec => []TypeOK
<1>1. TypeOK /\ Known /\ [Next]_vars => TypeOK' /\ Known'
  BY TypeStep
<1>. QED
  BY <1>1, TypeInit, PTL DEF Spec
=============================================================================
