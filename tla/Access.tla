------------------------------- MODULE Access -------------------------------
(***************************************************************************)
(* Accounts, login tokens and the admission of chat sockets                *)
(* (api/services/gateway/src/auth.ts, redis.ts, runtime/live.ts and their  *)
(* routes in index.ts).                                                    *)
(*                                                                         *)
(* A login, a change of an account by an administrator and the upgrade of  *)
(* a socket are each a handler with several awaits on MariaDB and Redis,   *)
(* so they interleave at every one of them.  A token carries the role its  *)
(* login read; nothing looks at the account again while it lives.          *)
(***************************************************************************)
EXTENDS Naturals, FiniteSets, TLC

CONSTANTS
  Users,         \* the accounts, all of them administrators at first
  Logins,        \* the login requests, and the tokens they hand out
  Changes,       \* the requests that change an account (PATCH /users/:id)
  Bodies,        \* what such a request may change: "role", "password" or both
  Sockets,       \* the upgrades of chat sockets
  Sessions,      \* the chats they ask for
  MaxAttempts,   \* config.authRateLimitMax
  MaxSessions,   \* config.maxConcurrentSessions
  MaxFaults      \* calls of Redis or MariaDB that fail (bound)

ASSUME AccessAssumption ==
  /\ Users # {} /\ IsFiniteSet(Sockets)
  /\ Bodies \subseteq (SUBSET {"role", "password"}) \ {{}}
  /\ MaxAttempts \in Nat \ {0}
  /\ MaxSessions \in Nat \ {0}
  /\ MaxFaults \in Nat

VARIABLES
  account,       \* the row of each user: its role, and how often it was updated
  token,         \* what Redis holds for each login's token, or None
  index,         \* the tokens listed under their user (fh:gwuser:<id>)
  attempts,      \* the rate-limit counter of each user: its count, and its expiry
  login, change, \* the handlers under way
  socket,        \* the upgrades; room (history): how many sessions there may be when one that
                 \* passed the check is counted, as many as there are sockets at most
  faults,        \* failed calls so far
  \* history, read by the properties only
  overlapped,    \* logins that were under way during a change of their user
  unrevoked,     \* users whose last change failed before it revoked
  disturbed      \* two changes overlapped, one failed after an update, or one was
                 \* asked for with a login of `overlapped` or one that ended meanwhile

vars == <<account, token, index, attempts, login, change, socket, faults,
          overlapped, unrevoked, disturbed>>

None == [role |-> "none", version |-> 0]
NoLogin == [at |-> "idle", user |-> "none", read |-> None]
NoChange == [at |-> "idle", of |-> "none", by |-> "none", todo |-> {}]
NoSocket == [at |-> "idle", login |-> "none", session |-> "none", room |-> 0]

Init ==
  /\ account = [u \in Users |-> [role |-> "admin", version |-> 0]]
  /\ token = [l \in Logins |-> None]
  /\ index = {}
  /\ attempts = [u \in Users |-> [count |-> 0, expires |-> FALSE]]
  /\ login = [l \in Logins |-> NoLogin]
  /\ change = [c \in Changes |-> NoChange]
  /\ socket = [s \in Sockets |-> NoSocket]
  /\ faults = 0 /\ overlapped = {} /\ unrevoked = {} /\ disturbed = FALSE

\* The changes that have updated an account and not yet revoked its logins.
Revoking(u) == {c \in Changes : /\ change[c].at \in {"updated", "listed", "deleted"}
                                /\ change[c].of = u}
\* The changes whose request has passed the gate and is not answered.
Changing == {c \in Changes : change[c].at \notin {"idle", "done"}}
\* A request that is answered.
Over == [NoChange EXCEPT !.at = "done"]
\* The sessions with a connection: the keys of `connections` in live.ts.
Live == {socket[s].session : s \in {r \in Sockets : socket[r].at = "live"}}

-----------------------------------------------------------------------------
(* POST /auth/login.                                                        *)

\* INCR: the first hit of a window goes on to set its expiry, one over the limit is refused.
\* The count stops at MaxAttempts + 1 (bound: what is over the limit makes no difference).
LoginCounts(l, u) ==
  LET n == attempts[u].count + 1 IN
  /\ login[l].at = "idle"
  /\ attempts' = [attempts EXCEPT ![u].count = IF n > MaxAttempts + 1 THEN @ ELSE n]
  /\ login' = IF n > MaxAttempts THEN login
              ELSE [login EXCEPT ![l] = [at |-> IF n = 1 THEN "first" ELSE "counted",
                                         user |-> u, read |-> None]]
  /\ UNCHANGED <<account, token, index, change, socket, faults, overlapped, unrevoked, disturbed>>

\* PEXPIRE of the first hit, whatever the counter is by then.
LoginExpires(l) ==
  /\ login[l].at = "first"
  /\ attempts' = [attempts EXCEPT ![login[l].user].expires = TRUE]
  /\ login' = [login EXCEPT ![l].at = "counted"]
  /\ UNCHANGED <<account, token, index, change, socket, faults, overlapped, unrevoked, disturbed>>

\* getUserByEmail(); verifyPassword() then refuses a wrong password.
LoginReads(l) ==
  /\ login[l].at = "counted"
  /\ \/ login' = [login EXCEPT ![l].at = "read", ![l].read = account[login[l].user]]
     \/ login' = [login EXCEPT ![l] = NoLogin]
  /\ overlapped' = IF login'[l].at = "read" /\ Revoking(login[l].user) # {} THEN overlapped \union {l} ELSE overlapped
  /\ UNCHANGED <<account, token, index, attempts, change, socket, faults, unrevoked, disturbed>>

\* storeToken(): SET of the token, then SADD to the index of its user.
LoginStores(l) ==
  /\ login[l].at = "read"
  /\ token' = [token EXCEPT ![l] = login[l].read]
  /\ login' = [login EXCEPT ![l].at = "stored"]
  /\ UNCHANGED <<account, index, attempts, change, socket, faults, overlapped, unrevoked, disturbed>>

LoginIndexes(l) ==
  /\ login[l].at = "stored"
  /\ index' = index \union {l}
  /\ login' = [login EXCEPT ![l].at = "done", ![l].read = None]
  /\ UNCHANGED <<account, token, attempts, change, socket, faults, overlapped, unrevoked, disturbed>>

LoginFails(l) ==
  /\ login[l].at \in {"first", "counted", "read", "stored"}
  /\ faults < MaxFaults
  /\ faults' = faults + 1
  /\ login' = [login EXCEPT ![l] = [NoLogin EXCEPT !.at = "failed"]]
  /\ UNCHANGED <<account, token, index, attempts, change, socket, overlapped, unrevoked, disturbed>>

\* Redis drops the counter at the end of its window.
WindowEnds(u) ==
  /\ attempts[u].expires
  /\ attempts' = [attempts EXCEPT ![u] = [count |-> 0, expires |-> FALSE]]
  /\ UNCHANGED <<account, token, index, login, change, socket, faults, overlapped, unrevoked, disturbed>>

\* The token's time runs out, or its user logs out (revokeToken: the index keeps it).
TokenEnds(l) ==
  /\ login[l].at = "done" /\ token[l] # None
  /\ token' = [token EXCEPT ![l] = None]
  /\ disturbed' = (disturbed \/ \E c \in Changes : change[c].at = "gated" /\ change[c].by = l)
  /\ UNCHANGED <<account, index, attempts, login, change, socket, faults, overlapped, unrevoked>>

-----------------------------------------------------------------------------
(* PATCH /users/:id: `todo` is what is still to be changed.  Administrators  *)
(* only take roles away here, which is what the properties are about.        *)

\* adminGate(): the role is the token's, not the account's.
Gate(c, l, u, todo) ==
  /\ change[c].at = "idle"
  /\ login[l].at = "done" /\ token[l].role = "admin"
  /\ change' = [change EXCEPT ![c] = [at |-> "gated", of |-> u, by |-> l, todo |-> todo]]
  /\ disturbed' = (disturbed \/ Changing # {} \/ l \in overlapped)
  /\ UNCHANGED <<account, token, index, attempts, login, socket, faults, overlapped, unrevoked>>

\* Mutant: administrators may demote themselves.
RefusesSelfNever(c) == FALSE

\* The route resolves the token again: one revoked meanwhile has no user id to compare.
RefusesSelf(c) ==
  LET l == change[c].by IN
  token[l] # None /\ login[l].user = change[c].of /\ "role" \in change[c].todo

Validated(c) ==
  /\ change[c].at = "gated"
  /\ change' = [change EXCEPT ![c] = IF RefusesSelf(c) THEN Over
                                      ELSE [@ EXCEPT !.at = "valid", !.by = "none"]]
  /\ UNCHANGED <<account, token, index, attempts, login, socket, faults, overlapped, unrevoked, disturbed>>

\* updateUserRole(), then updateUserPassword().
Updates(c) ==
  LET what == IF "role" \in change[c].todo THEN "role" ELSE "password"
      u == change[c].of
  IN
  /\ change[c].at \in {"valid", "updated"} /\ change[c].todo # {}
  /\ account' = [account EXCEPT ![u].version = @ + 1,
                                ![u].role = IF what = "role" THEN "user" ELSE @]
  /\ change' = [change EXCEPT ![c].at = "updated", ![c].todo = @ \ {what}]
  /\ overlapped' = overlapped \union {l \in Logins : /\ login[l].at \in {"read", "stored"}
                                                      /\ login[l].user = u}
  /\ UNCHANGED <<token, index, attempts, login, socket, faults, unrevoked, disturbed>>

\* revokeUserTokens(): SMEMBERS; `todo` now holds the tokens it found.
Lists(c) ==
  /\ change[c].at = "updated" /\ change[c].todo = {}
  /\ change' = [change EXCEPT ![c].at = "listed",
                              ![c].todo = {l \in index : login[l].user = change[c].of}]
  /\ UNCHANGED <<account, token, index, attempts, login, socket, faults, overlapped, unrevoked, disturbed>>

\* Mutant: only the newest login is revoked.
RevokedOne(found) == IF found = {} THEN {} ELSE {CHOOSE l \in found : TRUE}

\* DEL of every token found.
Revoked(found) == found

Deletes(c) ==
  /\ change[c].at = "listed"
  /\ token' = [l \in Logins |-> IF l \in Revoked(change[c].todo) THEN None ELSE token[l]]
  /\ change' = [change EXCEPT ![c].at = "deleted", ![c].todo = {}]
  /\ UNCHANGED <<account, index, attempts, login, socket, faults, overlapped, unrevoked, disturbed>>

\* DEL of the index, with whatever was added to it meanwhile.
DropsIndex(c) ==
  /\ change[c].at = "deleted"
  /\ index' = {l \in index : login[l].user # change[c].of}
  /\ change' = [change EXCEPT ![c] = Over]
  /\ unrevoked' = unrevoked \ {change[c].of}
  /\ UNCHANGED <<account, token, attempts, login, socket, faults, overlapped, disturbed>>

ChangeFails(c) ==
  /\ change[c].at \in {"valid", "updated", "listed", "deleted"}
  /\ faults < MaxFaults
  /\ faults' = faults + 1
  /\ change' = [change EXCEPT ![c] = Over]
  /\ unrevoked' = IF c \in Revoking(change[c].of) THEN unrevoked \union {change[c].of} ELSE unrevoked
  /\ disturbed' = (disturbed \/ c \in Revoking(change[c].of))
  /\ UNCHANGED <<account, token, index, attempts, login, socket, overlapped>>

-----------------------------------------------------------------------------
(* POST /auth/ws-ticket and the upgrade of a socket.                        *)

\* A ticket stands for the token, not for what the token says.
Ticket(s, l) ==
  /\ socket[s].at = "idle"
  /\ login[l].at = "done" /\ token[l] # None
  /\ socket' = [socket EXCEPT ![s].at = "ticket", ![s].login = l]
  /\ UNCHANGED <<account, token, index, attempts, login, change, faults, overlapped, unrevoked, disturbed>>

\* The ticket's login is looked up when the ticket is used.
Holds(s) == token[socket[s].login] # None

\* takeWsTicket(): 401 unless the token is still there.
Redeem(s) ==
  /\ socket[s].at = "ticket"
  /\ socket' = [socket EXCEPT ![s] = IF Holds(s) THEN [@ EXCEPT !.at = "identified"] ELSE NoSocket]
  /\ UNCHANGED <<account, token, index, attempts, login, change, faults, overlapped, unrevoked, disturbed>>

\* Mutant: one connection more is admitted.
AdmitsOneMore(x) == x \in Live \/ Cardinality(Live) <= MaxSessions

\* checkQuota(): a session that is live already adds nothing.
Admits(x) == x \in Live \/ Cardinality(Live) < MaxSessions

CheckQuota(s, x) ==
  /\ socket[s].at = "identified"
  /\ socket' = [socket EXCEPT ![s] = IF ~Admits(x) THEN NoSocket
       ELSE [NoSocket EXCEPT !.at = "checked", !.session = x,
                             !.room = IF Cardinality(Live) < MaxSessions THEN MaxSessions ELSE Cardinality(Live)]]
  /\ UNCHANGED <<account, token, index, attempts, login, change, faults, overlapped, unrevoked, disturbed>>

\* track(), after the restore, the placement, the runtime's target and the database.
Track(s) ==
  /\ socket[s].at = "checked"
  /\ socket' = [r \in Sockets |->
       IF r = s THEN [socket[s] EXCEPT !.at = "live"]
       ELSE IF socket[r].at = "checked" /\ socket[r].room < Cardinality(Sockets)
       THEN [socket[r] EXCEPT !.room = @ + 1]
       ELSE socket[r]]
  /\ UNCHANGED <<account, token, index, attempts, login, change, faults, overlapped, unrevoked, disturbed>>

\* The runtime cannot be reached (502), or the browser's socket closes.
Leave(s) ==
  /\ socket[s].at \in {"checked", "live"}
  /\ socket' = [socket EXCEPT ![s] = NoSocket]
  /\ UNCHANGED <<account, token, index, attempts, login, change, faults, overlapped, unrevoked, disturbed>>

-----------------------------------------------------------------------------
Next ==
  \/ \E l \in Logins : \/ \E u \in Users : LoginCounts(l, u)
                       \/ LoginExpires(l) \/ LoginReads(l) \/ LoginStores(l)
                       \/ LoginIndexes(l) \/ LoginFails(l) \/ TokenEnds(l)
  \/ \E u \in Users : WindowEnds(u)
  \/ \E c \in Changes : \/ \E l \in Logins, u \in Users, todo \in Bodies :
                             Gate(c, l, u, todo)
                        \/ Validated(c) \/ Updates(c) \/ Lists(c) \/ Deletes(c)
                        \/ DropsIndex(c) \/ ChangeFails(c)
  \/ \E s \in Sockets : \/ \E l \in Logins : Ticket(s, l)
                        \/ \E x \in Sessions : CheckQuota(s, x)
                        \/ Redeem(s) \/ Track(s) \/ Leave(s)

Spec == Init /\ [][Next]_vars

\* The properties are about safety and treat all names of a kind alike.
Symmetry == Permutations(Users) \union Permutations(Logins) \union Permutations(Changes)
            \union Permutations(Sockets) \union Permutations(Sessions)

\* State constraint: a socket past its ticket touches nothing an account's change reads or writes,
\* so the quota is explored before the first change and only one socket after it.
Focus ==
  Changing = {} \/ Cardinality({s \in Sockets : socket[s].at # "idle"}) <= 1

-----------------------------------------------------------------------------
(* Properties.                                                              *)

\* A socket that is let in when no change of its user is under way carries the account as it is
\* now (auth.ts:97-100), whatever token and ticket it came with; only a login that was itself under
\* way during some change, and a change that failed before it revoked, leave older tokens behind.
ChangeRevokes ==
  [][\A s \in Sockets :
       LET l == socket[s].login
           u == login[l].user
       IN (/\ socket[s].at = "ticket" /\ socket'[s].at = "identified"
           /\ Revoking(u) = {} /\ u \notin unrevoked /\ l \notin overlapped)
          => token[l] = account[u]]_vars

\* An administrator remains ("it would lock the last admin out by accident", index.ts:635): the
\* check of one's own id is enough as long as no two changes overlap, none fails half way, and the
\* administrator's own login did not overlap a change and does not end while it asks for one.
AdminRemains == (\E u \in Users : account[u].role = "admin") \/ disturbed

\* Counting a socket takes the sessions that are live past the quota, or past what they were when
\* it was checked, by no more than the upgrades that overtook it in between (index.ts:1878 to 1906).
QuotaOvershoot ==
  [][\A s \in Sockets :
       socket[s].at = "checked" /\ socket'[s].at = "live" => Cardinality(Live') <= socket[s].room]_vars
=============================================================================
