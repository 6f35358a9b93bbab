-------------------------- MODULE RuntimeHub_proofs ---------------------------
(***************************************************************************)
(* Theorems about the transport of one session, for any set of connections *)
(* and roles and any number of frames.                                     *)
(***************************************************************************)
EXTENDS RuntimeHub, TLAPS

\* The inductive invariant: an open in flight excludes a registered agent, the
\* handle is there exactly while nobody disposes of the agent, and only a
\* registered agent has the driver that running tells of.
HubInv == OneOwnedAgent /\ running \in BOOLEAN /\ (running => Registered)

\* A step of a driver whose agent is gone.
OldSteps == \E o \in old : OldEnds(o) \/ \E ok \in BOOLEAN : OldFlushSettles(o, ok)

LEMMA OnMessageAgent ==
  ASSUME NEW cs, NEW c, NEW frames, OnMessage(cs, c, frames), running \in BOOLEAN
  PROVE  /\ UNCHANGED <<flushes, life, lives, old>>
         /\ running' \in BOOLEAN
         /\ \/ UNCHANGED running
            \/ Registered /\ ~running /\ running'
<1>1. CASE Registered
  BY <1>1 DEF OnMessage
<1>2. CASE ~Registered
  BY <1>2 DEF OnMessage
<1>. QED
  BY <1>1, <1>2

\* What a client does, and a continuation of ensure(), leaves of the agent.
LEMMA ClientAgent ==
  ASSUME running \in BOOLEAN, Client \/ \E c \in Conns : Attach(c)
  PROVE  /\ UNCHANGED <<flushes, life, lives, old, handle>>
         /\ running' \in BOOLEAN
         /\ \/ UNCHANGED running
            \/ Registered /\ ~running /\ running'
         /\ UNCHANGED opening \/ ~Registered
<1>1. ASSUME NEW c \in Conns, NEW r \in Roles, Connect(c, r)
      PROVE  UNCHANGED <<agentVars, handle>> /\ (UNCHANGED opening \/ ~Registered)
  BY <1>1 DEF Connect
<1>2. ASSUME NEW c \in Conns, Attach(c)
      PROVE  /\ UNCHANGED <<opening, handle>>
             /\ \E cs : OnMessage(cs, c, conns[c].queued)
  BY <1>2 DEF Attach
<1>3. ASSUME NEW c \in Conns, Frame(c)
      PROVE  /\ UNCHANGED <<opening, handle>>
             /\ \/ UNCHANGED agentVars
                \/ \E cs, frames : OnMessage(cs, c, frames)
  BY <1>3 DEF Frame
<1>4. ASSUME NEW c \in Conns, Close(c)
      PROVE  UNCHANGED <<agentVars, handle, opening>>
  BY <1>4 DEF Close
<1>. QED
  BY <1>1, <1>2, <1>3, <1>4, OnMessageAgent DEF Client, agentVars

LEMMA NextInv == HubInv /\ [Next]_vars => HubInv'
<1>. SUFFICES ASSUME HubInv, [Next]_vars
              PROVE  HubInv'
  OBVIOUS
<1>. USE DEF HubInv, OneOwnedAgent, Registered
<1>1. CASE Client \/ \E c \in Conns : Attach(c)
  BY <1>1, ClientAgent
<1>2. CASE OpenRead
  BY <1>2 DEF OpenRead, agentVars
<1>3. CASE Opened
  BY <1>3 DEF Opened
<1>4. CASE OpenFails
  BY <1>4 DEF OpenFails, agentVars
<1>5. CASE GoIdle
  BY <1>5 DEF GoIdle
<1>6. CASE Settle
  BY <1>6 DEF Settle, FlushSettles
<1>7. CASE TornDown
  BY <1>7 DEF TornDown
<1>8. CASE DisposeIdle
  BY <1>8 DEF DisposeIdle, Dispose
<1>9. CASE Drop
  BY <1>9 DEF Drop, Dispose
<1>10. CASE DropTimesOut \/ DeleteFiles
  BY <1>10 DEF DropTimesOut, DeleteFiles, agentVars
<1>11. CASE UNCHANGED vars
  BY <1>11 DEF vars
<1>12. CASE OldSteps
  BY <1>12 DEF OldSteps, OldEnds, OldFlushSettles
<1>. QED
  BY <1>1, <1>2, <1>3, <1>4, <1>5, <1>6, <1>7, <1>8, <1>9, <1>10, <1>11, <1>12
     DEF Next, Open, OldSteps

LEMMA AlwaysInv == Spec => []HubInv
<1>1. Init => HubInv
  BY DEF Init, HubInv, OneOwnedAgent, Registered
<1>. QED
  BY <1>1, NextInv, PTL DEF Spec

\* A session has one registered agent at most, none is opened beside it, and it
\* can be disposed of while nobody does, with any number of clients connecting,
\* leaving and being dropped while it is opened, and with drivers of earlier
\* agents that still run.
THEOREM OwnedAgent == Spec => []OneOwnedAgent
BY AlwaysInv, PTL DEF HubInv

-----------------------------------------------------------------------------
(* Types, and what the viewers see.                                         *)

\* A connection with one field set anew.
LEMMA SetField ==
  ASSUME NEW k \in Conn
  PROVE  /\ \A x \in ConnState : [k EXCEPT !.state = x] \in Conn
         /\ \A x \in Seq(Entry) : [k EXCEPT !.queued = x] \in Conn
         /\ \A x \in Seq(Entry) : [k EXCEPT !.view = x] \in Conn
         /\ \A x \in 0 .. MaxFrames : [k EXCEPT !.sent = x] \in Conn
         /\ \A x \in Nat : [k EXCEPT !.errors = x] \in Conn
         /\ \A x \in Nat : [k EXCEPT !.attachedTo = x] \in Conn
BY DEF Conn

LEMMA NoEntries == <<>> \in Seq(Entry)
OBVIOUS

LEMMA FanOutType ==
  ASSUME NEW cs \in [Conns -> Conn], NEW entries \in Seq(Entry)
  PROVE  FanOut(cs, entries) \in [Conns -> Conn]
<1>1. ASSUME NEW c \in Conns
      PROVE  [cs[c] EXCEPT !.view = @ \o entries] \in Conn
  <2>1. cs[c] \in Conn /\ cs[c].view \o entries \in Seq(Entry)
    BY DEF Conn
  <2>. QED
    BY <2>1 DEF Conn
<1>. QED
  BY <1>1 DEF FanOut

LEMMA OnMessageType ==
  ASSUME TypeOK, NEW cs \in [Conns -> Conn], NEW c \in Conns, NEW frames \in Seq(Entry),
         OnMessage(cs, c, frames)
  PROVE  /\ conns' \in [Conns -> Conn] /\ log' \in Seq(Entry)
         /\ UNCHANGED <<flushes, life, lives, old>>
<1>1. CASE Registered
  <2>1. FanOut(cs, frames) \in [Conns -> Conn] /\ log \o frames \in Seq(Entry)
    BY FanOutType DEF TypeOK
  <2>. QED
    BY <1>1, <2>1 DEF OnMessage
<1>2. CASE ~Registered
  <2>1. [cs[c] EXCEPT !.errors = @ + Len(frames)] \in Conn
    <3>1. cs[c] \in Conn /\ Len(frames) \in Nat
      OBVIOUS
    <3>2. cs[c].errors + Len(frames) \in Nat
      BY <3>1 DEF Conn
    <3>. QED
      BY <3>1, <3>2 DEF Conn
  <2>. QED
    BY <1>2, <2>1 DEF OnMessage, TypeOK
<1>. QED
  BY <1>1, <1>2

LEMMA OverType ==
  ASSUME TypeOK, NEW c \in Conns
  PROVE  Over(c) \in Conn
<1> DEFINE k0 == conns[c]
           k1 == [k0 EXCEPT !.state = "closed"]
           k2 == [k1 EXCEPT !.queued = <<>>]
           k3 == [k2 EXCEPT !.view = <<>>]
           k4 == [k3 EXCEPT !.sent = 0]
           k5 == [k4 EXCEPT !.errors = 0]
           k6 == [k5 EXCEPT !.attachedTo = 0]
<1>1. Over(c) = k6
  BY DEF Over
<1>2. /\ k0 \in Conn /\ "closed" \in ConnState /\ 0 \in 0 .. MaxFrames /\ 0 \in Nat
      /\ <<>> \in Seq(Entry)
  BY HubBounds, NoEntries DEF TypeOK, ConnState
<1>. HIDE DEF k0
<1>3. k1 \in Conn
  BY <1>2, SetField
<1>. HIDE DEF k1
<1>4. k2 \in Conn
  BY <1>2, <1>3, SetField
<1>. HIDE DEF k2
<1>5. k3 \in Conn
  BY <1>2, <1>4, SetField
<1>. HIDE DEF k3
<1>6. k4 \in Conn
  BY <1>2, <1>5, SetField
<1>. HIDE DEF k4
<1>7. k5 \in Conn
  BY <1>2, <1>6, SetField
<1>. HIDE DEF k5
<1>8. k6 \in Conn
  BY <1>2, <1>7, SetField
<1>. HIDE DEF k6
<1>. QED
  BY <1>1, <1>8

LEMMA InitType == Init => TypeOK
<1>. SUFFICES ASSUME Init
              PROVE  TypeOK
  OBVIOUS
<1>1. conns \in [Conns -> Conn] /\ role \in Roles
  BY HubBounds, NoEntries DEF Init, Conn, ConnState
<1>2. log \in Seq(Entry) /\ disk \subseteq Seq(Entry)
  BY NoEntries DEF Init
<1>3. handle \in BOOLEAN /\ running \in BOOLEAN
  BY DEF Init
<1>. QED
  BY <1>1, <1>2, <1>3, HubBounds DEF Init, TypeOK

\* A connection that joins, and one that has sent a frame.
LEMMA JoinedType ==
  ASSUME TypeOK, NEW c \in Conns
  PROVE  [conns EXCEPT ![c].state = "live", ![c].view = log,
                       ![c].queued = <<>>, ![c].attachedTo = lives] \in [Conns -> Conn]
<1> DEFINE k0 == conns[c]
           k1 == [k0 EXCEPT !.state = "live"]
           k2 == [k1 EXCEPT !.view = log]
           k3 == [k2 EXCEPT !.queued = <<>>]
           k4 == [k3 EXCEPT !.attachedTo = lives]
           joined == [conns EXCEPT ![c].state = "live", ![c].view = log,
                                   ![c].queued = <<>>, ![c].attachedTo = lives]
<1>1. joined = [conns EXCEPT ![c] = k4]
  BY DEF TypeOK
<1>2. /\ k0 \in Conn /\ "live" \in ConnState /\ log \in Seq(Entry) /\ lives \in Nat
      /\ <<>> \in Seq(Entry)
  BY HubBounds, NoEntries DEF TypeOK, ConnState
<1>. HIDE DEF k0, joined
<1>3. k1 \in Conn
  BY <1>2, SetField
<1>. HIDE DEF k1
<1>4. k2 \in Conn
  BY <1>2, <1>3, SetField
<1>. HIDE DEF k2
<1>5. k3 \in Conn
  BY <1>2, <1>4, SetField
<1>. HIDE DEF k3
<1>6. k4 \in Conn
  BY <1>2, <1>5, SetField
<1>. HIDE DEF k4
<1>7. joined \in [Conns -> Conn]
  BY <1>1, <1>6 DEF TypeOK
<1>. QED
  BY <1>7 DEF joined

LEMMA CountedType ==
  ASSUME TypeOK, NEW c \in Conns, conns[c].sent + 1 \in 1 .. MaxFrames
  PROVE  [conns EXCEPT ![c].sent = @ + 1] \in [Conns -> Conn]
<1>1. conns[c] \in Conn /\ conns[c].sent + 1 \in 0 .. MaxFrames
  BY HubBounds DEF TypeOK, Conn
<1>2. [conns[c] EXCEPT !.sent = @ + 1] \in Conn
  BY <1>1 DEF Conn
<1>. QED
  BY <1>2 DEF TypeOK

LEMMA ClientTypes ==
  ASSUME TypeOK, HubInv, Client \/ \E c \in Conns : Attach(c)
  PROVE  TypeOK'
<1>1. ASSUME NEW c \in Conns, NEW r \in Roles, Connect(c, r)
      PROVE  TypeOK'
  <2>1. /\ [conns[c] EXCEPT !.role = r, !.state = "ready"] \in Conn
        /\ [conns[c] EXCEPT !.role = r, !.state = "closed"] \in Conn
        /\ [conns[c] EXCEPT !.role = r, !.state = "waiting"] \in Conn
    BY DEF TypeOK, Conn, ConnState
  <2>2. conns' \in [Conns -> Conn]
    BY <1>1, <2>1 DEF Connect, TypeOK
  <2>3. opening' \in {"no", "reading", "mounting"} /\ role' \in Roles
    BY <1>1 DEF Connect, TypeOK
  <2>. QED
    BY <1>1, <2>2, <2>3 DEF Connect, TypeOK, agentVars
<1>2. ASSUME NEW c \in Conns, Attach(c)
      PROVE  TypeOK'
  <2> DEFINE joined == [conns EXCEPT ![c].state = "live", ![c].view = log,
                                     ![c].queued = <<>>, ![c].attachedTo = lives]
  <2>1. conns[c] \in Conn /\ log \in Seq(Entry) /\ lives \in Nat
    BY HubBounds DEF TypeOK
  <2>3. joined \in [Conns -> Conn]
    BY JoinedType
  <2>4. conns[c].queued \in Seq(Entry) /\ OnMessage(joined, c, conns[c].queued)
    BY <1>2, <2>1 DEF Attach, Conn
  <2>5. conns' \in [Conns -> Conn] /\ log' \in Seq(Entry) /\ UNCHANGED <<flushes, life, lives, old>>
    BY <2>3, <2>4, OnMessageType
  <2>6. running' \in BOOLEAN
    BY <1>2, ClientAgent DEF HubInv
  <2>. QED
    BY <1>2, <2>5, <2>6 DEF Attach, TypeOK
<1>3. ASSUME NEW c \in Conns, Frame(c)
      PROVE  TypeOK'
  <2> DEFINE frame == [conn |-> c, n |-> conns[c].sent + 1]
             counted == [conns EXCEPT ![c].sent = @ + 1]
  <2>1. /\ conns[c] \in Conn /\ conns[c].sent + 1 \in 1 .. MaxFrames
        /\ conns[c].sent + 1 \in 0 .. MaxFrames
    BY <1>3, HubBounds DEF Frame, TypeOK, Conn
  <2>2. frame \in Entry /\ <<frame>> \in Seq(Entry)
    BY <2>1 DEF Entry
  <2>4. counted \in [Conns -> Conn]
    BY <2>1, CountedType
  <2>5. running' \in BOOLEAN
    BY <1>3, ClientAgent DEF HubInv, Client
  <2>6. CASE conns[c].state = "waiting"
    <3>1. Append(counted[c].queued, frame) \in Seq(Entry)
      BY <2>1, <2>2, <2>4 DEF Conn
    <3>2. [counted[c] EXCEPT !.queued = Append(counted[c].queued, frame)] \in Conn
      BY <2>4, <3>1 DEF Conn
    <3>3. conns' = [counted EXCEPT ![c] = [counted[c] EXCEPT !.queued = Append(counted[c].queued, frame)]]
      BY <1>3, <2>6 DEF Frame, Queue
    <3>4. conns' \in [Conns -> Conn]
      BY <2>4, <3>2, <3>3
    <3>. QED
      BY <1>3, <2>6, <3>4 DEF Frame, TypeOK, agentVars
  <2>7. CASE conns[c].state # "waiting"
    <3>1. OnMessage(counted, c, <<frame>>)
      BY <1>3, <2>7 DEF Frame
    <3>2. conns' \in [Conns -> Conn] /\ log' \in Seq(Entry) /\ UNCHANGED <<flushes, life, lives, old>>
      BY <2>2, <2>4, <3>1, OnMessageType
    <3>. QED
      BY <1>3, <2>5, <3>2 DEF Frame, TypeOK
  <2>. QED
    BY <2>6, <2>7
<1>4. ASSUME NEW c \in Conns, Close(c)
      PROVE  TypeOK'
  BY <1>4, OverType DEF Close, TypeOK, agentVars
<1>. QED
  BY <1>1, <1>2, <1>3, <1>4 DEF Client

LEMMA ResolveType ==
  ASSUME TypeOK, NEW found \in BOOLEAN
  PROVE  Resolve(found) \in [Conns -> Conn]
<1>1. ASSUME NEW c \in Conns
      PROVE  conns[c] \in Conn /\ [conns[c] EXCEPT !.state = "ready"] \in Conn
  BY DEF TypeOK, Conn, ConnState
<1>. QED
  BY <1>1, OverType DEF Resolve

\* An open that has read the log is within the bound on the agents.
RoomForOne == opening = "mounting" => lives < MaxLives

LEMMA NextRoom == TypeOK /\ RoomForOne /\ HubInv /\ [Next]_vars => RoomForOne'
<1>. SUFFICES ASSUME TypeOK, RoomForOne, HubInv, [Next]_vars, opening' = "mounting"
              PROVE  lives' < MaxLives
  BY DEF RoomForOne
<1>1. CASE OpenRead
  BY <1>1 DEF OpenRead, agentVars
<1>2. CASE ~OpenRead
  <2>1. lives' = lives \/ Opened
    BY <1>2, ClientAgent DEF Next, Open, GoIdle, Settle, FlushSettles, TornDown, DisposeIdle,
       Drop, DropTimesOut, DeleteFiles, OpenFails, OldEnds, OldFlushSettles, vars, agentVars, HubInv
  <2>2. ~Opened
    BY DEF Opened
  <2>3. opening = "mounting"
    <3>1. ASSUME NEW c \in Conns, NEW r \in Roles, Connect(c, r)
          PROVE  opening = "mounting"
      BY <3>1 DEF Connect
    <3>2. ASSUME NEW c \in Conns, Attach(c) \/ Frame(c) \/ Close(c)
          PROVE  opening = "mounting"
      BY <3>2 DEF Attach, Frame, Close
    <3>. QED
      BY <1>2, <2>2, <3>1, <3>2 DEF Next, Client, Open, GoIdle, Settle, FlushSettles, TornDown,
         DisposeIdle, Drop, DropTimesOut, DeleteFiles, OpenFails, OldEnds, OldFlushSettles, vars
  <2>. QED
    BY <2>1, <2>2, <2>3 DEF RoomForOne
<1>. QED
  BY <1>1, <1>2

LEMMA NextTypes == TypeOK /\ RoomForOne /\ HubInv /\ [Next]_vars => TypeOK'
<1>. SUFFICES ASSUME TypeOK, RoomForOne, HubInv, [Next]_vars
              PROVE  TypeOK'
  OBVIOUS
<1>1. CASE Client \/ \E c \in Conns : Attach(c)
  BY <1>1, ClientTypes
<1>2. CASE OpenRead
  BY <1>2 DEF OpenRead, TypeOK, agentVars
<1>3. CASE Opened
  <2>1. Resolve(TRUE) \in [Conns -> Conn]
    BY ResolveType
  <2>2. lives + 1 \in 0 .. MaxLives
    BY <1>3, HubBounds DEF Opened, RoomForOne, TypeOK
  <2>. QED
    BY <1>3, <2>1, <2>2 DEF Opened, TypeOK
<1>4. CASE OpenFails
  <2>1. Resolve(FALSE) \in [Conns -> Conn]
    BY ResolveType
  <2>. QED
    BY <1>4, <2>1, NoEntries DEF OpenFails, TypeOK, agentVars
<1>5. CASE GoIdle
  <2>1. Answer \in Entry /\ <<Answer>> \in Seq(Entry) /\ Append(log, Answer) \in Seq(Entry)
    BY DEF Answer, Entry, TypeOK
  <2>2. conns' \in [Conns -> Conn]
    BY <1>5, <2>1, FanOutType DEF GoIdle, TypeOK
  <2>. QED
    BY <1>5, <2>1, <2>2 DEF GoIdle, TypeOK
<1>6. CASE Settle
  BY <1>6 DEF Settle, FlushSettles, Saves, TypeOK
<1>7. CASE TornDown
  <2>1. old' \subseteq Old
    BY <1>7 DEF TornDown, TypeOK, Old
  <2>. QED
    BY <1>7, <2>1, NoEntries DEF TornDown, TypeOK
<1>8. CASE DisposeIdle
  BY <1>8 DEF DisposeIdle, Dispose, TypeOK
<1>9. CASE Drop
  <2>1. \A c \in Conns : [conns[c] EXCEPT !.state = "closing"] \in Conn
    BY DEF TypeOK, Conn, ConnState
  <2>2. conns' \in [Conns -> Conn]
    BY <1>9, <2>1 DEF Drop, TypeOK
  <2>. QED
    BY <1>9, <2>2 DEF Drop, Dispose, TypeOK
<1>10. CASE DropTimesOut \/ DeleteFiles
  BY <1>10 DEF DropTimesOut, DeleteFiles, TypeOK, agentVars
<1>11. CASE UNCHANGED vars
  BY <1>11 DEF vars, TypeOK
<1>12. ASSUME NEW o \in old, OldEnds(o)
       PROVE  TypeOK'
  <2>1. o \in Old /\ Answer \in Entry
    BY DEF TypeOK, Answer, Entry
  <2>2. Append(o.log, Answer) \in Seq(Entry)
    BY <2>1 DEF Old
  <2>3. [log |-> Append(o.log, Answer), state |-> "flushing"] \in Old
    BY <2>2 DEF Old
  <2>. QED
    BY <1>12, <2>3 DEF OldEnds, TypeOK
<1>13. ASSUME NEW o \in old, NEW ok \in BOOLEAN, OldFlushSettles(o, ok)
       PROVE  TypeOK'
  <2>1. o.log \in Seq(Entry)
    BY DEF TypeOK, Old
  <2>. QED
    BY <1>13, <2>1 DEF OldFlushSettles, Saves, TypeOK
<1>. QED
  BY <1>1, <1>2, <1>3, <1>4, <1>5, <1>6, <1>7, <1>8, <1>9, <1>10, <1>11, <1>12, <1>13
     DEF Next, Open

\* The transport's state keeps its types, whatever the connections do.
THEOREM TypeCorrect == Spec => []TypeOK
<1>1. Init => RoomForOne
  BY DEF Init, RoomForOne
<1>. QED
  BY <1>1, InitType, NextTypes, NextRoom, AlwaysInv, PTL DEF Spec

\* What one connection sees, and that it is attached to no agent still to come.
SeesLog(k) ==
  /\ k.attachedTo <= lives
  /\ k.state = "live" /\ Registered /\ k.attachedTo = lives => k.view = log

ViewInv == \A c \in Conns : SeesLog(conns[c])

LEMMA FanOutView ==
  ASSUME TypeOK, NEW cs \in [Conns -> Conn], NEW entries \in Seq(Entry),
         \A c \in Conns : SeesLog(cs[c]),
         conns' = FanOut(cs, entries), log' = log \o entries, UNCHANGED <<life, lives>>
  PROVE  ViewInv'
<1>. SUFFICES ASSUME NEW c \in Conns
              PROVE  SeesLog(conns[c])'
  BY DEF ViewInv
<1>1. CASE cs[c].state = "live"
  <2>1. conns'[c] = [cs[c] EXCEPT !.view = @ \o entries]
    BY <1>1 DEF FanOut
  <2>2. cs[c] \in Conn
    OBVIOUS
  <2>3. /\ conns'[c].view = cs[c].view \o entries /\ conns'[c].state = "live"
        /\ conns'[c].attachedTo = cs[c].attachedTo
    BY <1>1, <2>1, <2>2 DEF Conn
  <2>. QED
    BY <1>1, <2>3 DEF SeesLog, Registered
<1>2. CASE cs[c].state # "live"
  BY <1>2 DEF FanOut, SeesLog, Registered
<1>. QED
  BY <1>1, <1>2

LEMMA OnMessageView ==
  ASSUME TypeOK, NEW cs \in [Conns -> Conn], NEW c \in Conns, NEW frames \in Seq(Entry),
         \A d \in Conns : SeesLog(cs[d]), OnMessage(cs, c, frames)
  PROVE  ViewInv'
<1>1. CASE Registered
  BY <1>1, FanOutView DEF OnMessage
<1>2. CASE ~Registered
  <2>. SUFFICES ASSUME NEW d \in Conns
                PROVE  conns'[d].attachedTo <= lives
    BY <1>2 DEF OnMessage, ViewInv, SeesLog, Registered
  <2>1. cs[d] \in Conn /\ cs[d].attachedTo <= lives
    BY DEF SeesLog
  <2>2. CASE d # c
    BY <1>2, <2>1, <2>2 DEF OnMessage
  <2>3. CASE d = c
    <3>1. [cs[c] EXCEPT !.errors = @ + Len(frames)].attachedTo = cs[c].attachedTo
      BY <2>1, <2>3 DEF Conn
    <3>2. conns'[c] = [cs[c] EXCEPT !.errors = @ + Len(frames)]
      BY <1>2 DEF OnMessage
    <3>. QED
      BY <2>1, <2>3, <3>1, <3>2
  <2>. QED
    BY <2>2, <2>3
<1>. QED
  BY <1>1, <1>2

LEMMA ClientView ==
  ASSUME TypeOK, HubInv, ViewInv, Client \/ \E c \in Conns : Attach(c)
  PROVE  ViewInv'
<1>1. ASSUME NEW c \in Conns, NEW r \in Roles, Connect(c, r)
      PROVE  ViewInv'
  <2>1. UNCHANGED <<log, life, lives>>
    BY <1>1 DEF Connect, agentVars
  <2>2. conns[c] \in Conn
    BY DEF TypeOK
  <2>3. PICK x \in {"ready", "closed", "waiting"} :
          conns' = [conns EXCEPT ![c] = [conns[c] EXCEPT !.role = r, !.state = x]]
    BY <1>1 DEF Connect, TypeOK
  <2>4. conns'[c].state # "live" /\ conns'[c].attachedTo = conns[c].attachedTo
    BY <2>2, <2>3 DEF TypeOK, Conn
  <2>5. \A d \in Conns \ {c} : conns'[d] = conns[d]
    BY <2>3 DEF TypeOK
  <2>. QED
    BY <2>1, <2>4, <2>5 DEF ViewInv, SeesLog, Registered
<1>2. ASSUME NEW c \in Conns, Attach(c)
      PROVE  ViewInv'
  <2> DEFINE joined == [conns EXCEPT ![c].state = "live", ![c].view = log,
                                     ![c].queued = <<>>, ![c].attachedTo = lives]
  <2>1. joined \in [Conns -> Conn] /\ conns[c].queued \in Seq(Entry)
    BY JoinedType DEF TypeOK, Conn
  <2>2. OnMessage(joined, c, conns[c].queued)
    BY <1>2 DEF Attach
  <2>3. conns[c] \in Conn /\ lives \in Nat
    BY HubBounds DEF TypeOK
  <2>4. joined[c].view = log /\ joined[c].attachedTo = lives
    BY <2>3 DEF TypeOK, Conn
  <2>5. \A d \in Conns : SeesLog(joined[d])
    <3>1. \A d \in Conns \ {c} : joined[d] = conns[d]
      BY DEF TypeOK
    <3>. HIDE DEF joined
    <3>2. SUFFICES ASSUME NEW d \in Conns
                   PROVE  SeesLog(joined[d])
      OBVIOUS
    <3>3. CASE d = c
      BY <2>3, <2>4, <3>3 DEF SeesLog
    <3>4. CASE d # c
      <4>1. joined[d] = conns[d]
        BY <3>1, <3>4
      <4>2. SeesLog(conns[d])
        BY DEF ViewInv
      <4>. QED
        BY <4>1, <4>2
    <3>. QED
      BY <3>3, <3>4
  <2>. HIDE DEF joined
  <2>. QED
    BY <2>1, <2>2, <2>5, OnMessageView
<1>3. ASSUME NEW c \in Conns, Frame(c)
      PROVE  ViewInv'
  <2> DEFINE frame == [conn |-> c, n |-> conns[c].sent + 1]
             counted == [conns EXCEPT ![c].sent = @ + 1]
  <2>1. conns[c] \in Conn /\ conns[c].sent + 1 \in 1 .. MaxFrames
    BY <1>3, HubBounds DEF Frame, TypeOK, Conn
  <2>2. <<frame>> \in Seq(Entry) /\ counted \in [Conns -> Conn]
    BY <2>1, CountedType DEF Entry
  <2>3. /\ counted[c].view = conns[c].view /\ counted[c].state = conns[c].state
        /\ counted[c].attachedTo = conns[c].attachedTo
        /\ \A d \in Conns \ {c} : counted[d] = conns[d]
    BY <2>1 DEF TypeOK, Conn
  <2>4. \A d \in Conns : SeesLog(counted[d])
    <3>. HIDE DEF counted
    <3>. QED
      BY <2>3 DEF ViewInv, SeesLog
  <2>5. CASE conns[c].state = "waiting"
    <3>1. /\ conns' = [counted EXCEPT ![c].queued = Append(counted[c].queued, frame)]
          /\ UNCHANGED <<log, life, lives>>
      BY <1>3, <2>5 DEF Frame, Queue, agentVars
    <3>. HIDE DEF counted, frame
    <3>2. counted[c] \in Conn
      BY <2>2
    <3>3. /\ conns'[c].view = counted[c].view /\ conns'[c].state = counted[c].state
          /\ conns'[c].attachedTo = counted[c].attachedTo
          /\ \A d \in Conns \ {c} : conns'[d] = counted[d]
      BY <2>2, <3>1, <3>2 DEF Conn
    <3>. QED
      BY <2>4, <3>1, <3>3 DEF ViewInv, SeesLog, Registered
  <2>6. CASE conns[c].state # "waiting"
    <3>1. OnMessage(counted, c, <<frame>>)
      BY <1>3, <2>6 DEF Frame
    <3>. HIDE DEF counted, frame
    <3>. QED
      BY <2>2, <2>4, <3>1, OnMessageView
  <2>. QED
    BY <2>5, <2>6
<1>4. ASSUME NEW c \in Conns, Close(c)
      PROVE  ViewInv'
  <2>1. conns' = [conns EXCEPT ![c] = Over(c)] /\ UNCHANGED <<log, life, lives>>
    BY <1>4 DEF Close, agentVars
  <2>2. conns[c] \in Conn /\ lives \in Nat
    BY HubBounds DEF TypeOK
  <2>3. Over(c).state = "closed" /\ Over(c).attachedTo = 0
    BY <2>2 DEF Over, Conn
  <2>4. conns'[c] = Over(c) /\ \A d \in Conns \ {c} : conns'[d] = conns[d]
    BY <2>1 DEF TypeOK
  <2>. QED
    BY <2>1, <2>2, <2>3, <2>4 DEF ViewInv, SeesLog, Registered
<1>. QED
  BY <1>1, <1>2, <1>3, <1>4 DEF Client

LEMMA NextView == TypeOK /\ HubInv /\ ViewInv /\ [Next]_vars => ViewInv'
<1>. SUFFICES ASSUME TypeOK, HubInv, ViewInv, [Next]_vars
              PROVE  ViewInv'
  OBVIOUS
<1>1. CASE Client \/ \E c \in Conns : Attach(c)
  BY <1>1, ClientView
<1>2. CASE OpenRead
  <2>1. ~Registered /\ ~Registered' /\ UNCHANGED <<conns, lives>>
    BY <1>2 DEF OpenRead, agentVars, HubInv, OneOwnedAgent, Registered
  <2>. QED
    BY <2>1 DEF ViewInv, SeesLog
<1>3. CASE Opened \/ OpenFails
  <2>1. PICK found \in BOOLEAN : conns' = Resolve(found)
    BY <1>3 DEF Opened, OpenFails
  <2>0. opening # "no"
    BY <1>3 DEF Opened, OpenFails
  <2>2. lives \in Nat /\ ~Registered
    <3>1. lives \in Nat
      BY HubBounds DEF TypeOK
    <3>2. ~Registered
      BY <2>0 DEF HubInv, OneOwnedAgent
    <3>. QED
      BY <3>1, <3>2
  <2>3. ASSUME NEW c \in Conns
        PROVE  conns'[c].attachedTo <= lives /\ lives \in Nat /\ conns'[c].attachedTo \in Nat
    <3>1. conns[c] \in Conn /\ conns[c].attachedTo <= lives
      BY DEF TypeOK, ViewInv, SeesLog
    <3>2. Over(c).attachedTo = 0 /\ [conns[c] EXCEPT !.state = "ready"].attachedTo = conns[c].attachedTo
      BY <3>1 DEF Over, Conn
    <3>3. conns'[c] \in {conns[c], Over(c), [conns[c] EXCEPT !.state = "ready"]}
      BY <2>1 DEF Resolve
    <3>. QED
      BY <2>2, <3>1, <3>2, <3>3 DEF Conn
  <2>4. CASE Opened
    <3>1. lives' = lives + 1
      BY <2>4 DEF Opened
    <3>. QED
      BY <2>3, <3>1 DEF ViewInv, SeesLog
  <2>5. CASE OpenFails
    <3>1. lives' = lives /\ ~Registered'
      BY <2>2, <2>5 DEF OpenFails, agentVars, Registered
    <3>. QED
      BY <2>3, <3>1 DEF ViewInv, SeesLog
  <2>. QED
    BY <1>3, <2>4, <2>5
<1>4. CASE GoIdle
  <2>1. <<Answer>> \in Seq(Entry) /\ Append(log, Answer) = log \o <<Answer>>
    BY DEF Answer, Entry, TypeOK
  <2>. QED
    BY <1>4, <2>1, FanOutView DEF GoIdle, TypeOK, ViewInv
<1>5. CASE Settle
  BY <1>5 DEF Settle, FlushSettles, ViewInv, SeesLog, Registered
<1>6. CASE TornDown
  BY <1>6 DEF TornDown, ViewInv, SeesLog, Registered
<1>7. CASE DisposeIdle
  BY <1>7 DEF DisposeIdle, Dispose, ViewInv, SeesLog, Registered, HubInv, OneOwnedAgent
<1>8. CASE Drop
  <2>1. UNCHANGED <<log, lives>> /\ (Registered' => Registered)
    BY <1>8 DEF Drop, Dispose, Registered, HubInv, OneOwnedAgent
  <2>2. ASSUME NEW c \in Conns
        PROVE  conns'[c] = conns[c] \/ (conns'[c].state # "live" /\ conns'[c].attachedTo = conns[c].attachedTo)
    <3>1. conns[c] \in Conn
      BY DEF TypeOK
    <3>. QED
      BY <1>8, <3>1 DEF Drop, Conn
  <2>. QED
    BY <2>1, <2>2 DEF ViewInv, SeesLog
<1>9. CASE DropTimesOut \/ DeleteFiles
  BY <1>9 DEF DropTimesOut, DeleteFiles, agentVars, ViewInv, SeesLog, Registered
<1>10. CASE UNCHANGED vars
  BY <1>10 DEF vars, ViewInv, SeesLog, Registered
<1>11. CASE OldSteps
  BY <1>11 DEF OldSteps, OldEnds, OldFlushSettles, ViewInv, SeesLog, Registered
<1>. QED
  BY <1>1, <1>2, <1>3, <1>4, <1>5, <1>6, <1>7, <1>8, <1>9, <1>10, <1>11
     DEF Next, Open, OldSteps

\* A client that is attached to the agent has the whole log, each event once
\* and in order, however many clients attach, send and leave while it grows.
THEOREM ViewsAreWhole == Spec => []ViewIsLog
<1>1. Init => ViewInv
  <2>. SUFFICES ASSUME Init, NEW c \in Conns
                PROVE  SeesLog(conns[c])
    BY DEF ViewInv
  <2>1. lives = 0 /\ conns[c].attachedTo = 0 /\ conns[c].state = "out"
    BY DEF Init
  <2>. QED
    BY <2>1 DEF SeesLog
<1>2. ViewInv => ViewIsLog
  BY DEF ViewInv, SeesLog, ViewIsLog
<1>. QED
  BY <1>1, <1>2, NextView, TypeCorrect, AlwaysInv, PTL DEF Spec

-----------------------------------------------------------------------------
(* The frames of a connection.                                              *)

\* A connection that has handed nothing to the agent yet.
Early == {"out", "waiting", "ready"}

\* The frames of each connection are in this log in the order they were sent.
InOrder(l) ==
  \A i, j \in DOMAIN l :
     i < j /\ l[i] # Answer /\ l[j] # Answer /\ l[i].conn = l[j].conn
       => l[i].n < l[j].n

\* What is in this log was sent: nothing by a connection that still queues, and
\* nothing beyond what a connection counts.
SentBefore(l, cs) ==
  \A i \in DOMAIN l : l[i] # Answer =>
     /\ cs[l[i].conn].state \notin Early
     /\ cs[l[i].conn].state \in {"live", "closing"} => l[i].n <= cs[l[i].conn].sent

\* A connection that is early queues all that it has sent.
QueuesAll(k, c) ==
  k.state \in Early =>
    Len(k.queued) = k.sent /\ \A i \in 1 .. k.sent : k.queued[i] = [conn |-> c, n |-> i]

\* The first m frames of c are in its view.
Seen(k, c, m) == \A n \in 1 .. m : \E i \in DOMAIN k.view : k.view[i] = [conn |-> c, n |-> n]

Heard(k, c) == k.state = "live" /\ k.errors = 0 => Seen(k, c, k.sent)

GoodLog(l, cs) == l \in Seq(Entry) /\ InOrder(l) /\ SentBefore(l, cs)

\* The logs there are: in memory, on disk, on the way there, and those that the
\* drivers of earlier agents still have.
Logs == {log} \cup disk \cup flushes \cup {o.log : o \in old}

\* The inductive invariant.
FrameInv ==
  /\ \A l \in Logs : GoodLog(l, conns)
  /\ \A c \in Conns : QueuesAll(conns[c], c) /\ Heard(conns[c], c)

LEMMA TheLog == log \in Logs
BY DEF Logs

\* Only the log in memory changes, to one without entries if at all.
LEMMA NoNewLogs ==
  ASSUME UNCHANGED <<disk, flushes, old>>, log' = log \/ log' = <<>>
  PROVE  \A l \in Logs' : l \in Logs \/ l = <<>>
BY DEF Logs

LEMMA EntryFacts ==
  ASSUME NEW l \in Seq(Entry), NEW i \in DOMAIN l, l[i] # Answer
  PROVE  l[i].conn \in Conns /\ l[i].n \in Nat
<1>1. l[i] \in Entry
  OBVIOUS
<1>. QED
  BY <1>1 DEF Entry, Answer

\* Where the entries of two logs, one after the other, come from.
LEMMA Joined ==
  ASSUME NEW s \in Seq(Entry), NEW t \in Seq(Entry)
  PROVE  /\ s \o t \in Seq(Entry) /\ Len(s) \in Nat /\ Len(t) \in Nat
         /\ \A i \in DOMAIN (s \o t) :
              \/ i \in DOMAIN s /\ (s \o t)[i] = s[i]
              \/ /\ i - Len(s) \in DOMAIN t /\ i > Len(s)
                 /\ (s \o t)[i] = t[i - Len(s)]
         /\ \A i \in DOMAIN s : i \in DOMAIN (s \o t) /\ i \in 1 .. Len(s) /\ (s \o t)[i] = s[i]
         /\ \A i \in DOMAIN t : i + Len(s) \in DOMAIN (s \o t) /\ (s \o t)[i + Len(s)] = t[i]
<1>. DEFINE u == s \o t
<1>1. /\ u \in Seq(Entry) /\ Len(u) = Len(s) + Len(t) /\ Len(s) \in Nat /\ Len(t) \in Nat
      /\ DOMAIN u = 1 .. Len(u) /\ DOMAIN s = 1 .. Len(s) /\ DOMAIN t = 1 .. Len(t)
  OBVIOUS
<1>2. \A i \in 1 .. Len(s) : u[i] = s[i]
  OBVIOUS
<1>3. \A i \in 1 .. Len(t) : u[i + Len(s)] = t[i]
  OBVIOUS
<1>. HIDE DEF u
<1>4. ASSUME NEW i \in DOMAIN u
      PROVE  \/ i \in DOMAIN s /\ u[i] = s[i]
             \/ i - Len(s) \in DOMAIN t /\ i > Len(s) /\ u[i] = t[i - Len(s)]
  <2>1. CASE i <= Len(s)
    BY <1>1, <1>2, <2>1
  <2>2. CASE i > Len(s)
    <3>1. i - Len(s) \in 1 .. Len(t) /\ (i - Len(s)) + Len(s) = i
      BY <1>1, <2>2
    <3>. QED
      BY <1>1, <1>3, <2>2, <3>1
  <2>. QED
    BY <1>1, <2>1, <2>2
<1>5. \A i \in DOMAIN s : i \in DOMAIN u /\ i \in 1 .. Len(s) /\ u[i] = s[i]
  BY <1>1, <1>2
<1>6. \A i \in DOMAIN t : i + Len(s) \in DOMAIN u /\ u[i + Len(s)] = t[i]
  BY <1>1, <1>3
<1>7. u = s \o t
  BY DEF u
<1>. QED
  BY <1>1, <1>4, <1>5, <1>6, <1>7

\* A connection that goes on: whatever the logs have of it stays what it sent.
GoesOn(k, m) ==
  \/ m.state = k.state /\ m.sent = k.sent
  \/ k.state \in Early
  \/ m.state = "closed"
  \/ /\ k.state \in {"live", "closing"} /\ m.state \in {"live", "closing"}
     /\ k.sent <= m.sent /\ k.sent \in Nat /\ m.sent \in Nat

LEMMA GoesOnKeeps ==
  ASSUME NEW l, NEW cs, NEW ds, GoodLog(l, cs),
         \A c \in Conns : GoesOn(cs[c], ds[c])
  PROVE  GoodLog(l, ds)
<1>. SUFFICES ASSUME NEW i \in DOMAIN l, l[i] # Answer
              PROVE  /\ ds[l[i].conn].state \notin Early
                     /\ ds[l[i].conn].state \in {"live", "closing"} => l[i].n <= ds[l[i].conn].sent
  BY DEF GoodLog, SentBefore
<1>1. l[i].conn \in Conns /\ l[i].n \in Nat
  BY EntryFacts DEF GoodLog
<1>. DEFINE k == cs[l[i].conn]
            m == ds[l[i].conn]
<1>2. k.state \notin Early /\ (k.state \in {"live", "closing"} => l[i].n <= k.sent) /\ GoesOn(k, m)
  BY <1>1 DEF GoodLog, SentBefore
<1>. HIDE DEF k, m
<1>3. m.state \notin Early /\ (m.state \in {"live", "closing"} => l[i].n <= m.sent)
  BY <1>1, <1>2 DEF GoesOn, Early
<1>. QED
  BY <1>3 DEF m

LEMMA EmptyGood == ASSUME NEW cs PROVE GoodLog(<<>>, cs)
BY DEF GoodLog, InOrder, SentBefore

\* The agent's answer is no frame.
LEMMA AnswerGood ==
  ASSUME NEW l, NEW cs, GoodLog(l, cs)
  PROVE  GoodLog(l \o <<Answer>>, cs)
<1>. DEFINE t == <<Answer>>
            u == l \o t
<1>1. l \in Seq(Entry) /\ t \in Seq(Entry) /\ \A i \in DOMAIN t : t[i] = Answer
  BY DEF GoodLog, Answer, Entry
<1>. HIDE DEF t
<1>2. u \in Seq(Entry) /\ \A i \in DOMAIN u : u[i] # Answer => i \in DOMAIN l /\ u[i] = l[i]
  BY <1>1, Joined
<1>. HIDE DEF u
<1>3. InOrder(u)
  BY <1>2 DEF GoodLog, InOrder
<1>4. SentBefore(u, cs)
  BY <1>2 DEF GoodLog, SentBefore
<1>5. GoodLog(u, cs)
  BY <1>2, <1>3, <1>4 DEF GoodLog
<1>. QED
  BY <1>5 DEF u, t

\* Frames of c, numbered on from m, after a log that has none beyond m.
Numbered(fs, c, m) == \A i \in DOMAIN fs : fs[i] = [conn |-> c, n |-> m + i]
UpTo(l, c, m) == \A i \in DOMAIN l : l[i] # Answer /\ l[i].conn = c => l[i].n <= m

LEMMA FramesGood ==
  ASSUME NEW l, NEW cs, GoodLog(l, cs), NEW c \in Conns, NEW m \in Nat, NEW fs \in Seq(Entry),
         Numbered(fs, c, m), UpTo(l, c, m),
         cs[c].state \in {"live", "closing"}, cs[c].sent = m + Len(fs)
  PROVE  GoodLog(l \o fs, cs)
<1>. DEFINE u == l \o fs
<1>0. l \in Seq(Entry)
  BY DEF GoodLog
<1>1. /\ u \in Seq(Entry) /\ Len(l) \in Nat /\ Len(fs) \in Nat
      /\ DOMAIN l = 1 .. Len(l) /\ DOMAIN fs = 1 .. Len(fs)
  BY <1>0, Joined
<1>2. ASSUME NEW i \in DOMAIN u
      PROVE  \/ i \in DOMAIN l /\ u[i] = l[i]
             \/ /\ i - Len(l) \in 1 .. Len(fs) /\ i > Len(l)
                /\ u[i].conn = c /\ u[i].n = m + (i - Len(l))
  <2>1. \/ i \in DOMAIN l /\ u[i] = l[i]
        \/ i - Len(l) \in DOMAIN fs /\ i > Len(l) /\ u[i] = fs[i - Len(l)]
    BY <1>0, <1>2, Joined
  <2>. HIDE DEF u
  <2>. QED
    BY <1>1, <2>1 DEF Numbered
<1>. HIDE DEF u
<1>3. \A i \in DOMAIN u : i \in Nat
  BY <1>1
<1>4. ASSUME NEW i \in DOMAIN u, NEW j \in DOMAIN u, i < j, u[i] # Answer, u[j] # Answer,
             u[i].conn = u[j].conn
      PROVE  u[i].n < u[j].n
  <2>1. CASE i \in DOMAIN l /\ u[i] = l[i] /\ j \in DOMAIN l /\ u[j] = l[j]
    BY <1>4, <2>1 DEF GoodLog, InOrder
  <2>2. CASE /\ i \in DOMAIN l /\ u[i] = l[i]
             /\ j - Len(l) \in 1 .. Len(fs) /\ u[j].conn = c /\ u[j].n = m + (j - Len(l))
    <3>1. l[i].n <= m /\ l[i].n \in Nat
      BY <1>0, <1>4, <2>2, EntryFacts DEF UpTo
    <3>. QED
      BY <1>1, <2>2, <3>1
  <2>3. CASE /\ i > Len(l) /\ u[i].n = m + (i - Len(l))
             /\ j > Len(l) /\ u[j].n = m + (j - Len(l))
    BY <1>1, <1>3, <1>4, <2>3
  <2>4. CASE i > Len(l) /\ j \in DOMAIN l
    BY <1>1, <1>3, <1>4, <2>4
  <2>. QED
    BY <1>2, <2>1, <2>2, <2>3, <2>4
<1>5. InOrder(u)
  BY <1>4 DEF InOrder
<1>6. SentBefore(u, cs)
  <2>. SUFFICES ASSUME NEW i \in DOMAIN u, u[i] # Answer
                PROVE  /\ cs[u[i].conn].state \notin Early
                       /\ cs[u[i].conn].state \in {"live", "closing"} => u[i].n <= cs[u[i].conn].sent
    BY DEF SentBefore
  <2>1. CASE i \in DOMAIN l /\ u[i] = l[i]
    BY <2>1 DEF GoodLog, SentBefore
  <2>2. CASE i - Len(l) \in 1 .. Len(fs) /\ u[i].conn = c /\ u[i].n = m + (i - Len(l))
    BY <1>1, <1>3, <2>2 DEF Early
  <2>. QED
    BY <1>2, <2>1, <2>2
<1>7. GoodLog(u, cs)
  BY <1>1, <1>5, <1>6 DEF GoodLog
<1>. QED
  BY <1>7 DEF u

LEMMA FanOutFields ==
  ASSUME NEW cs \in [Conns -> Conn], NEW es \in Seq(Entry), NEW c \in Conns
  PROVE  LET k == FanOut(cs, es)[c] IN
         /\ k.state = cs[c].state /\ k.sent = cs[c].sent /\ k.errors = cs[c].errors
         /\ k.queued = cs[c].queued
         /\ cs[c].state = "live" => k.view = cs[c].view \o es
<1>1. cs[c] \in Conn
  OBVIOUS
<1>2. CASE cs[c].state = "live"
  <2>1. FanOut(cs, es)[c] = [cs[c] EXCEPT !.view = @ \o es]
    BY <1>2 DEF FanOut
  <2>. QED
    BY <1>1, <2>1 DEF Conn
<1>3. CASE cs[c].state # "live"
  <2>1. FanOut(cs, es)[c] = cs[c]
    BY <1>3 DEF FanOut
  <2>. QED
    BY <1>3, <2>1
<1>. QED
  BY <1>2, <1>3

\* A view that grows still shows what it showed, and what it was sent.
LEMMA SeenGrows ==
  ASSUME NEW k, NEW h, NEW c, NEW m, NEW es \in Seq(Entry), k.view \in Seq(Entry),
         h.view = k.view \o es, Seen(k, c, m)
  PROVE  Seen(h, c, m)
<1>. SUFFICES ASSUME NEW n \in 1 .. m
              PROVE  \E i \in DOMAIN h.view : h.view[i] = [conn |-> c, n |-> n]
  BY DEF Seen
<1>1. PICK i \in DOMAIN k.view : k.view[i] = [conn |-> c, n |-> n]
  BY DEF Seen
<1>2. i \in DOMAIN (k.view \o es) /\ (k.view \o es)[i] = k.view[i]
  BY Joined
<1>. QED
  BY <1>1, <1>2

LEMMA SeenSent ==
  ASSUME NEW k, NEW h, NEW c, NEW m \in Nat, NEW fs \in Seq(Entry), k.view \in Seq(Entry),
         h.view = k.view \o fs, Numbered(fs, c, m), Seen(k, c, m)
  PROVE  Seen(h, c, m + Len(fs))
<1>1. Len(fs) \in Nat /\ DOMAIN fs = 1 .. Len(fs)
  OBVIOUS
<1>. SUFFICES ASSUME NEW n \in 1 .. (m + Len(fs))
              PROVE  \E i \in DOMAIN h.view : h.view[i] = [conn |-> c, n |-> n]
  BY DEF Seen
<1>2. CASE n <= m
  <2>1. n \in 1 .. m
    BY <1>1, <1>2
  <2>2. Seen(h, c, m)
    BY SeenGrows
  <2>. QED
    BY <2>1, <2>2 DEF Seen
<1>3. CASE n > m
  <2>1. n - m \in 1 .. Len(fs) /\ m + (n - m) = n
    BY <1>1, <1>3
  <2>2. fs[n - m] = [conn |-> c, n |-> n]
    BY <1>1, <2>1 DEF Numbered
  <2>3. /\ (n - m) + Len(k.view) \in DOMAIN (k.view \o fs)
        /\ (k.view \o fs)[(n - m) + Len(k.view)] = fs[n - m]
    BY <1>1, <2>1, Joined
  <2>. QED
    BY <2>2, <2>3
<1>. QED
  BY <1>1, <1>2, <1>3

LEMMA FanOutHeard ==
  ASSUME NEW cs \in [Conns -> Conn], NEW es \in Seq(Entry), NEW c \in Conns,
         Heard(cs[c], c), QueuesAll(cs[c], c)
  PROVE  Heard(FanOut(cs, es)[c], c) /\ QueuesAll(FanOut(cs, es)[c], c)
<1>. DEFINE k == FanOut(cs, es)[c]
<1>1. /\ k.state = cs[c].state /\ k.sent = cs[c].sent /\ k.errors = cs[c].errors
      /\ k.queued = cs[c].queued
      /\ cs[c].state = "live" => k.view = cs[c].view \o es
  BY FanOutFields
<1>2. cs[c].view \in Seq(Entry)
  BY DEF Conn
<1>. HIDE DEF k
<1>3. Heard(k, c)
  BY <1>1, <1>2, SeenGrows DEF Heard
<1>4. QueuesAll(k, c)
  BY <1>1 DEF QueuesAll
<1>. QED
  BY <1>3, <1>4 DEF k

\* onMessage for frames that c has sent: they are logged and seen, or refused.
LEMMA Delivers ==
  ASSUME TypeOK, NEW cs \in [Conns -> Conn], NEW c \in Conns, NEW fs \in Seq(Entry), NEW m \in Nat,
         Numbered(fs, c, m), UpTo(log, c, m),
         cs[c].state \in {"live", "closing"}, cs[c].sent = m + Len(fs),
         \A l \in Logs : GoodLog(l, cs),
         \A d \in Conns : QueuesAll(cs[d], d),
         \A d \in Conns \ {c} : Heard(cs[d], d),
         cs[c].state = "live" /\ cs[c].errors = 0 => Seen(cs[c], c, m),
         OnMessage(cs, c, fs), UNCHANGED disk
  PROVE  FrameInv'
<1>1. CASE Registered
  <2>1. conns' = FanOut(cs, fs) /\ log' = log \o fs /\ UNCHANGED <<disk, flushes, old>>
    BY <1>1 DEF OnMessage
  <2>2. ASSUME NEW d \in Conns
        PROVE  GoesOn(cs[d], conns'[d])
    BY <2>1, <2>2, FanOutFields DEF GoesOn
  <2>3. GoodLog(log \o fs, cs)
    BY FramesGood, TheLog
  <2>4. \A l \in Logs' : GoodLog(l, conns')
    <3>1. \A l \in Logs : GoodLog(l, conns')
      BY <2>2, GoesOnKeeps
    <3>2. GoodLog(log', conns')
      BY <2>1, <2>2, <2>3, GoesOnKeeps
    <3>3. Logs' \subseteq Logs \cup {log'}
      BY <2>1 DEF Logs
    <3>. QED
      BY <3>1, <3>2, <3>3
  <2>5. ASSUME NEW d \in Conns \ {c}
        PROVE  QueuesAll(conns'[d], d) /\ Heard(conns'[d], d)
    BY <2>1, FanOutHeard
  <2>6. QueuesAll(conns'[c], c) /\ Heard(conns'[c], c)
    <3>. DEFINE k == conns'[c]
    <3>1. /\ k.state = cs[c].state /\ k.sent = cs[c].sent /\ k.errors = cs[c].errors
          /\ cs[c].state = "live" => k.view = cs[c].view \o fs
      BY <2>1, FanOutFields
    <3>2. cs[c].view \in Seq(Entry)
      BY DEF Conn
    <3>. HIDE DEF k
    <3>3. Heard(k, c)
      BY <3>1, <3>2, SeenSent DEF Heard
    <3>4. QueuesAll(k, c)
      BY <3>1 DEF QueuesAll, Early
    <3>. QED
      BY <3>3, <3>4 DEF k
  <2>. QED
    BY <2>4, <2>5, <2>6 DEF FrameInv, GoodLog
<1>2. CASE ~Registered
  <2>. DEFINE k == [cs[c] EXCEPT !.errors = @ + Len(fs)]
  <2>1. conns' = [cs EXCEPT ![c] = k] /\ UNCHANGED <<log, disk, flushes, old>>
    BY <1>2 DEF OnMessage
  <2>2. cs[c] \in Conn /\ Len(fs) \in Nat
    OBVIOUS
  <2>3. /\ k.state = cs[c].state /\ k.sent = cs[c].sent /\ k.errors = cs[c].errors + Len(fs)
        /\ k.view = cs[c].view
    BY <2>2 DEF Conn
  <2>4. cs[c].errors \in Nat
    BY <2>2 DEF Conn
  <2>. HIDE DEF k
  <2>5. Heard(k, c)
    <3>. SUFFICES ASSUME k.state = "live", k.errors = 0
                  PROVE  Seen(k, c, k.sent)
      BY DEF Heard
    <3>1. cs[c].errors = 0 /\ Len(fs) = 0
      BY <2>2, <2>3, <2>4
    <3>2. Seen(cs[c], c, m) /\ k.sent = m
      BY <2>3, <3>1
    <3>. QED
      BY <2>3, <3>2 DEF Seen
  <2>6. QueuesAll(k, c)
    BY <2>3 DEF QueuesAll, Early
  <2>7. conns'[c] = k /\ \A d \in Conns \ {c} : conns'[d] = cs[d]
    BY <2>1
  <2>8. ASSUME NEW d \in Conns
        PROVE  GoesOn(cs[d], conns'[d])
    BY <2>3, <2>7 DEF GoesOn
  <2>9. \A l \in Logs' : GoodLog(l, conns')
    <3>1. \A l \in Logs : GoodLog(l, conns')
      BY <2>8, GoesOnKeeps
    <3>2. Logs' = Logs
      BY <2>1 DEF Logs
    <3>. QED
      BY <3>1, <3>2
  <2>10. \A d \in Conns : QueuesAll(conns'[d], d) /\ Heard(conns'[d], d)
    BY <2>5, <2>6, <2>7
  <2>. QED
    BY <2>9, <2>10 DEF FrameInv, GoodLog
<1>. QED
  BY <1>1, <1>2

\* A step that hands no frame over: every log was one before, or is empty.
LEMMA TakesNone ==
  ASSUME FrameInv,
         \A l \in Logs' : l \in Logs \/ l = <<>>,
         \A c \in Conns : /\ GoesOn(conns[c], conns'[c])
                          /\ QueuesAll(conns'[c], c) /\ Heard(conns'[c], c)
  PROVE  FrameInv'
<1>1. \A l \in Logs' : GoodLog(l, conns')
  BY GoesOnKeeps, EmptyGood DEF FrameInv
<1>. QED
  BY <1>1 DEF FrameInv, GoodLog

\* The connections that do not move.
LEMMA StaysHeard ==
  ASSUME FrameInv, NEW c \in Conns, conns'[c] = conns[c]
  PROVE  GoesOn(conns[c], conns'[c]) /\ QueuesAll(conns'[c], c) /\ Heard(conns'[c], c)
BY DEF FrameInv, GoesOn

LEMMA OverHeard ==
  ASSUME TypeOK, NEW c \in Conns
  PROVE  GoesOn(conns[c], Over(c)) /\ QueuesAll(Over(c), c) /\ Heard(Over(c), c)
<1>1. conns[c] \in Conn
  BY DEF TypeOK
<1>2. Over(c).state = "closed"
  BY <1>1 DEF Over, Conn
<1>. QED
  BY <1>2 DEF GoesOn, QueuesAll, Heard, Early

\* Only a connection that is early has sent nothing to the agent.
LEMMA NoneYet ==
  ASSUME FrameInv, NEW c \in Conns, conns[c].state \in Early
  PROVE  UpTo(log, c, 0)
BY TheLog DEF FrameInv, GoodLog, SentBefore, UpTo

LEMMA SoFar ==
  ASSUME FrameInv, NEW c \in Conns, conns[c].state \in {"live", "closing"}
  PROVE  UpTo(log, c, conns[c].sent)
BY TheLog DEF FrameInv, GoodLog, SentBefore, UpTo

LEMMA ConnectFrames ==
  ASSUME TypeOK, FrameInv, NEW c \in Conns, NEW r \in Roles, Connect(c, r)
  PROVE  FrameInv'
<1>1. conns[c] \in Conn /\ conns[c].state = "out" /\ UNCHANGED <<log, disk, flushes, old>>
  BY DEF Connect, TypeOK, agentVars
<1>2. PICK x \in {"ready", "closed", "waiting"} :
        conns' = [conns EXCEPT ![c] = [conns[c] EXCEPT !.role = r, !.state = x]]
  BY DEF Connect, TypeOK
<1>. DEFINE k == conns'[c]
<1>3. /\ k.state = x /\ k.sent = conns[c].sent /\ k.queued = conns[c].queued
      /\ \A d \in Conns \ {c} : conns'[d] = conns[d]
  BY <1>1, <1>2 DEF TypeOK, Conn
<1>. HIDE DEF k
<1>4. GoesOn(conns[c], k) /\ Heard(k, c)
  BY <1>1, <1>3 DEF GoesOn, Early, Heard
<1>5. QueuesAll(k, c)
  BY <1>1, <1>3 DEF FrameInv, QueuesAll, Early
<1>6. \A d \in Conns : /\ GoesOn(conns[d], conns'[d])
                       /\ QueuesAll(conns'[d], d) /\ Heard(conns'[d], d)
  BY <1>3, <1>4, <1>5, StaysHeard DEF k
<1>. QED
  BY <1>1, <1>6, NoNewLogs, TakesNone

\* The connection that joins hands over all that it has queued, in order.
LEMMA AttachFrames ==
  ASSUME TypeOK, FrameInv, NEW c \in Conns, Attach(c)
  PROVE  FrameInv'
<1>. DEFINE joined == [conns EXCEPT ![c].state = "live", ![c].view = log,
                                    ![c].queued = <<>>, ![c].attachedTo = lives]
            fs == conns[c].queued
<1>1. /\ conns[c] \in Conn /\ conns[c].state = "ready" /\ OnMessage(joined, c, fs)
      /\ disk' = disk /\ fs \in Seq(Entry) /\ conns[c].sent \in Nat
  BY HubBounds DEF Attach, TypeOK, Conn
<1>2. joined \in [Conns -> Conn]
  BY JoinedType
<1>3. /\ joined[c].state = "live" /\ joined[c].sent = conns[c].sent
      /\ \A d \in Conns \ {c} : joined[d] = conns[d]
  BY <1>1 DEF TypeOK, Conn
<1>4. Len(fs) = conns[c].sent /\ Numbered(fs, c, 0)
  <2>1. Len(fs) = conns[c].sent /\ \A i \in 1 .. conns[c].sent : fs[i] = [conn |-> c, n |-> i]
    BY <1>1 DEF FrameInv, QueuesAll, Early
  <2>2. DOMAIN fs = 1 .. Len(fs)
    BY <1>1
  <2>3. \A i \in 1 .. Len(fs) : 0 + i = i
    BY <1>1, <2>1
  <2>. HIDE DEF fs
  <2>. QED
    BY <2>1, <2>2, <2>3 DEF Numbered
<1>. HIDE DEF joined, fs
<1>5. UpTo(log, c, 0)
  BY <1>1, NoneYet DEF Early
<1>6. \A l \in Logs : GoodLog(l, joined)
  <2>1. \A d \in Conns : GoesOn(conns[d], joined[d])
    BY <1>1, <1>3 DEF GoesOn, Early
  <2>. QED
    BY <2>1, GoesOnKeeps DEF FrameInv
<1>7. \A d \in Conns : QueuesAll(joined[d], d)
  BY <1>3 DEF FrameInv, QueuesAll, Early
<1>8. \A d \in Conns \ {c} : Heard(joined[d], d)
  BY <1>3 DEF FrameInv
<1>9. Seen(joined[c], c, 0)
  BY DEF Seen
<1>10. joined[c].sent = 0 + Len(fs) /\ 0 \in Nat
  BY <1>1, <1>3, <1>4
<1>. QED
  BY <1>1, <1>2, <1>3, <1>4, <1>5, <1>6, <1>7, <1>8, <1>9, <1>10, Delivers

LEMMA FrameFrames ==
  ASSUME TypeOK, FrameInv, NEW c \in Conns, Frame(c)
  PROVE  FrameInv'
<1>. DEFINE m == conns[c].sent
            frame == [conn |-> c, n |-> m + 1]
            counted == [conns EXCEPT ![c].sent = @ + 1]
            fs == <<frame>>
<1>1. /\ conns[c] \in Conn /\ m \in Nat /\ m + 1 \in 1 .. MaxFrames /\ disk' = disk
      /\ conns[c].state \in {"waiting", "live", "closing"}
  BY HubBounds DEF Frame, TypeOK, Conn
<1>2. fs \in Seq(Entry) /\ frame \in Entry /\ counted \in [Conns -> Conn]
  BY <1>1, CountedType DEF Entry
<1>3. /\ counted[c].state = conns[c].state /\ counted[c].sent = m + 1
      /\ counted[c].queued = conns[c].queued /\ counted[c].view = conns[c].view
      /\ counted[c].errors = conns[c].errors
      /\ \A d \in Conns \ {c} : counted[d] = conns[d]
  BY <1>1 DEF TypeOK, Conn
<1>4. CASE conns[c].state = "waiting"
  <2>. DEFINE q == Append(counted[c].queued, frame)
              k == [counted[c] EXCEPT !.queued = q]
  <2>1. conns' = [counted EXCEPT ![c] = k] /\ UNCHANGED <<log, disk, flushes, old>>
    BY <1>1, <1>4 DEF Frame, Queue, agentVars
  <2>2. conns[c].queued \in Seq(Entry) /\ Len(conns[c].queued) = m
        /\ \A i \in 1 .. m : conns[c].queued[i] = [conn |-> c, n |-> i]
    <3>1. conns[c].queued \in Seq(Entry)
      BY <1>1 DEF Conn
    <3>. QED
      BY <1>4, <3>1 DEF FrameInv, QueuesAll, Early
  <2>. HIDE DEF counted, m, frame
  <2>3. /\ Len(q) = m + 1 /\ q[m + 1] = frame
        /\ \A i \in 1 .. m : q[i] = [conn |-> c, n |-> i]
    BY <1>1, <1>2, <1>3, <2>2
  <2>. HIDE DEF q
  <2>4. k.state = "waiting" /\ k.sent = m + 1 /\ k.queued = q
    BY <1>2, <1>3, <1>4 DEF Conn
  <2>5. \A i \in 1 .. (m + 1) : q[i] = [conn |-> c, n |-> i]
    <3>1. m \in Nat /\ frame = [conn |-> c, n |-> m + 1]
      BY <1>1 DEF frame
    <3>2. \A i \in 1 .. (m + 1) : i \in 1 .. m \/ i = m + 1
      BY <3>1
    <3>. QED
      BY <2>3, <3>1, <3>2
  <2>. HIDE DEF k
  <2>6. /\ GoesOn(conns[c], k) /\ QueuesAll(k, c) /\ Heard(k, c)
    BY <1>4, <2>3, <2>4, <2>5 DEF GoesOn, QueuesAll, Heard, Early
  <2>7. conns'[c] = k /\ \A d \in Conns \ {c} : conns'[d] = conns[d]
    BY <1>2, <1>3, <2>1
  <2>8. \A d \in Conns : /\ GoesOn(conns[d], conns'[d])
                         /\ QueuesAll(conns'[d], d) /\ Heard(conns'[d], d)
    BY <2>6, <2>7, StaysHeard
  <2>. QED
    BY <2>1, <2>8, NoNewLogs, TakesNone
<1>5. CASE conns[c].state # "waiting"
  <2>1. OnMessage(counted, c, fs)
    BY <1>1, <1>5 DEF Frame
  <2>2. Len(fs) = 1 /\ Numbered(fs, c, m)
    BY DEF Numbered
  <2>. HIDE DEF counted, fs, frame
  <2>3. UpTo(log, c, m)
    BY <1>1, <1>5, SoFar
  <2>. HIDE DEF m
  <2>4. \A d \in Conns : GoesOn(conns[d], counted[d])
    <3>1. m = conns[c].sent /\ m + 1 \in Nat /\ m <= m + 1
      BY <1>1 DEF m
    <3>2. GoesOn(conns[c], counted[c])
      BY <1>1, <1>3, <1>5, <3>1 DEF GoesOn
    <3>. QED
      BY <1>3, <3>2 DEF GoesOn
  <2>5. \A l \in Logs : GoodLog(l, counted)
    BY <2>4, GoesOnKeeps DEF FrameInv
  <2>6. \A d \in Conns : QueuesAll(counted[d], d)
    BY <1>1, <1>3, <1>5 DEF FrameInv, QueuesAll, Early
  <2>7. \A d \in Conns \ {c} : Heard(counted[d], d)
    BY <1>3 DEF FrameInv
  <2>8. counted[c].state = "live" /\ counted[c].errors = 0 => Seen(counted[c], c, m)
    <3>1. conns[c].state = "live" /\ conns[c].errors = 0 => Seen(conns[c], c, m)
      BY DEF FrameInv, Heard, m
    <3>2. Seen(conns[c], c, m) => Seen(counted[c], c, m)
      BY <1>3 DEF Seen
    <3>. QED
      BY <1>3, <3>1, <3>2
  <2>9. counted[c].sent = m + Len(fs) /\ counted[c].state \in {"live", "closing"}
    BY <1>1, <1>3, <1>5, <2>2
  <2>. QED
    BY <1>1, <1>2, <2>1, <2>2, <2>3, <2>5, <2>6, <2>7, <2>8, <2>9, Delivers
<1>. QED
  BY <1>4, <1>5

LEMMA NextFrames == TypeOK /\ HubInv /\ FrameInv /\ [Next]_vars => FrameInv'
<1>. SUFFICES ASSUME TypeOK, HubInv, FrameInv, [Next]_vars
              PROVE  FrameInv'
  OBVIOUS
<1>1. ASSUME NEW c \in Conns, NEW r \in Roles, Connect(c, r)
      PROVE  FrameInv'
  BY <1>1, ConnectFrames
<1>2. ASSUME NEW c \in Conns, Attach(c) \/ Frame(c)
      PROVE  FrameInv'
  BY <1>2, AttachFrames, FrameFrames
<1>3. ASSUME NEW c \in Conns, Close(c)
      PROVE  FrameInv'
  <2>1. /\ conns'[c] = Over(c) /\ \A d \in Conns \ {c} : conns'[d] = conns[d]
        /\ UNCHANGED <<log, disk, flushes, old>>
    BY <1>3 DEF Close, agentVars, TypeOK
  <2>2. \A d \in Conns : /\ GoesOn(conns[d], conns'[d])
                         /\ QueuesAll(conns'[d], d) /\ Heard(conns'[d], d)
    BY <2>1, OverHeard, StaysHeard
  <2>. QED
    BY <2>1, <2>2, NoNewLogs, TakesNone
<1>4. CASE OpenRead \/ Settle \/ TornDown \/ DisposeIdle \/ DropTimesOut \/ DeleteFiles
           \/ UNCHANGED vars
  <2>1. conns' = conns
    BY <1>4 DEF OpenRead, Settle, FlushSettles, TornDown, DisposeIdle, DropTimesOut, DeleteFiles, vars
  <2>2. \A l \in Logs' : l \in Logs \/ l = <<>>
    BY <1>4 DEF OpenRead, Settle, FlushSettles, TornDown, DisposeIdle, DropTimesOut, DeleteFiles,
       vars, agentVars, Logs, Saves
  <2>. QED
    BY <2>1, <2>2, StaysHeard, TakesNone
<1>5. CASE Opened \/ OpenFails
  <2>1. PICK found \in BOOLEAN : conns' = Resolve(found)
    BY <1>5 DEF Opened, OpenFails
  <2>2. UNCHANGED <<disk, flushes, old>> /\ (log' = log \/ log' = <<>>)
    BY <1>5 DEF Opened, OpenFails, agentVars
  <2>3. ASSUME NEW c \in Conns
        PROVE  /\ GoesOn(conns[c], conns'[c])
               /\ QueuesAll(conns'[c], c) /\ Heard(conns'[c], c)
    <3>1. CASE conns'[c] = conns[c]
      BY <3>1, StaysHeard
    <3>2. CASE conns'[c] = Over(c)
      BY <3>2, OverHeard
    <3>3. CASE conns[c].state = "waiting" /\ conns'[c] = [conns[c] EXCEPT !.state = "ready"]
      <4>. DEFINE k == conns'[c]
      <4>1. conns[c] \in Conn
        BY DEF TypeOK
      <4>2. k.state = "ready" /\ k.sent = conns[c].sent /\ k.queued = conns[c].queued
        BY <3>3, <4>1 DEF Conn
      <4>. HIDE DEF k
      <4>3. GoesOn(conns[c], k) /\ Heard(k, c)
        BY <3>3, <4>2 DEF GoesOn, Early, Heard
      <4>4. QueuesAll(k, c)
        BY <3>3, <4>2 DEF FrameInv, QueuesAll, Early
      <4>. QED
        BY <4>3, <4>4 DEF k
    <3>. QED
      <4>1. conns'[c] = CASE conns[c].state # "waiting" -> conns[c]
                          [] conns[c].state = "waiting" /\ found -> [conns[c] EXCEPT !.state = "ready"]
                          [] OTHER -> Over(c)
        BY <2>1 DEF Resolve
      <4>2. CASE conns[c].state # "waiting"
        <5>1. conns'[c] = conns[c]
          BY <4>1, <4>2
        <5>. QED
          BY <3>1, <5>1
      <4>4. CASE conns[c].state = "waiting" /\ ~found
        <5>1. conns'[c] = Over(c)
          BY <4>1, <4>4
        <5>. QED
          BY <3>2, <5>1
      <4>3. CASE conns[c].state = "waiting" /\ found
        BY <3>3, <4>1, <4>3
      <4>. QED
        BY <4>2, <4>3, <4>4
  <2>. QED
    BY <2>2, <2>3, NoNewLogs, TakesNone
<1>6. CASE GoIdle
  <2>1. /\ conns' = FanOut(conns, <<Answer>>) /\ disk' = disk
        /\ log' = Append(log, Answer) /\ flushes' = flushes \cup {Append(log, Answer)}
    BY <1>6 DEF GoIdle
  <2>2. <<Answer>> \in Seq(Entry) /\ Append(log, Answer) = log \o <<Answer>> /\ conns \in [Conns -> Conn]
    BY SMTT(20) DEF Answer, Entry, TypeOK
  <2>3. \A c \in Conns : /\ GoesOn(conns[c], conns'[c])
                         /\ QueuesAll(conns'[c], c) /\ Heard(conns'[c], c)
    <3>. SUFFICES ASSUME NEW c \in Conns
                  PROVE  /\ GoesOn(conns[c], conns'[c])
                         /\ QueuesAll(conns'[c], c) /\ Heard(conns'[c], c)
      OBVIOUS
    <3>1. GoesOn(conns[c], conns'[c])
      BY <2>1, <2>2, FanOutFields DEF GoesOn
    <3>2. Heard(conns[c], c) /\ QueuesAll(conns[c], c)
      BY DEF FrameInv
    <3>. QED
      BY <2>1, <2>2, <3>1, <3>2, FanOutHeard
  <2>4. GoodLog(log \o <<Answer>>, conns)
    BY AnswerGood, TheLog DEF FrameInv
  <2>5. \A l \in Logs' : GoodLog(l, conns')
    <3>1. \A l \in Logs : GoodLog(l, conns')
      BY <2>3, GoesOnKeeps DEF FrameInv
    <3>2. GoodLog(log', conns')
      BY <2>1, <2>2, <2>3, <2>4, GoesOnKeeps
    <3>3. Logs' \subseteq Logs \cup {log'}
      BY <1>6 DEF GoIdle, Logs
    <3>. QED
      BY <3>1, <3>2, <3>3
  <2>. QED
    BY <2>3, <2>5 DEF FrameInv, GoodLog
<1>7. CASE Drop
  <2>1. UNCHANGED <<log, disk, flushes, old>>
    BY <1>7 DEF Drop
  <2>2. ASSUME NEW c \in Conns
        PROVE  /\ GoesOn(conns[c], conns'[c])
               /\ QueuesAll(conns'[c], c) /\ Heard(conns'[c], c)
    <3>1. CASE conns'[c] = conns[c]
      BY <3>1, StaysHeard
    <3>2. CASE conns[c].state = "live" /\ conns'[c] = [conns[c] EXCEPT !.state = "closing"]
      <4>. DEFINE k == conns'[c]
      <4>1. conns[c] \in Conn
        BY DEF TypeOK
      <4>2. k.state = "closing" /\ k.sent = conns[c].sent /\ k.sent \in Nat
        BY <3>2, <4>1, HubBounds DEF Conn
      <4>. HIDE DEF k
      <4>3. GoesOn(conns[c], k) /\ Heard(k, c) /\ QueuesAll(k, c)
        BY <3>2, <4>2 DEF GoesOn, Early, Heard, QueuesAll
      <4>. QED
        BY <4>3 DEF k
    <3>. QED
      BY <1>7, <3>1, <3>2 DEF Drop, Subscribers
  <2>. QED
    BY <2>1, <2>2, NoNewLogs, TakesNone
<1>8. ASSUME NEW o \in old, OldEnds(o)
      PROVE  FrameInv'
  <2>1. o.log \in Logs
    BY DEF Logs
  <2>2. GoodLog(o.log \o <<Answer>>, conns)
    BY <2>1, AnswerGood DEF FrameInv
  <2>3. o.log \in Seq(Entry) /\ Answer \in Entry
    BY DEF TypeOK, Old, Answer, Entry
  <2>4. Append(o.log, Answer) = o.log \o <<Answer>>
    BY <2>3
  <2>5. conns' = conns /\ Logs' \subseteq Logs \cup {Append(o.log, Answer)}
    BY <1>8 DEF OldEnds, Logs
  <2>6. \A l \in Logs' : GoodLog(l, conns')
    BY <2>2, <2>4, <2>5 DEF FrameInv
  <2>. QED
    BY <2>5, <2>6 DEF FrameInv, GoodLog
<1>9. ASSUME NEW o \in old, NEW ok \in BOOLEAN, OldFlushSettles(o, ok)
      PROVE  FrameInv'
  <2>1. conns' = conns /\ Logs' \subseteq Logs
    BY <1>9 DEF OldFlushSettles, Saves, Logs
  <2>. QED
    BY <2>1, StaysHeard, TakesNone
<1>. QED
  BY <1>1, <1>2, <1>3, <1>4, <1>5, <1>6, <1>7, <1>8, <1>9 DEF Next, Open, Client

LEMMA InitFrames == Init => FrameInv
<1>. SUFFICES ASSUME Init
              PROVE  FrameInv
  OBVIOUS
<1>1. log = <<>> /\ disk = {<<>>} /\ flushes = {} /\ old = {}
  BY DEF Init
<1>2. ASSUME NEW c \in Conns
      PROVE  QueuesAll(conns[c], c) /\ Heard(conns[c], c)
  <2>1. conns[c].state = "out" /\ conns[c].sent = 0 /\ conns[c].queued = <<>>
    BY DEF Init
  <2>. QED
    BY <2>1 DEF QueuesAll, Heard
<1>. QED
  BY <1>1, <1>2, EmptyGood DEF FrameInv, Logs

LEMMA FrameInvTaken == FrameInv => FramesTaken
<1>1. ASSUME FrameInv
      PROVE  \A i, j \in DOMAIN log :
               i < j /\ log[i] # Answer /\ log[j] # Answer /\ log[i].conn = log[j].conn
                 => log[i].n < log[j].n
  BY <1>1, TheLog DEF FrameInv, GoodLog, InOrder
<1>2. ASSUME FrameInv
      PROVE  \A c \in Subscribers : conns[c].errors = 0 =>
               \A n \in 1 .. conns[c].sent : \E i \in DOMAIN conns[c].view :
                  conns[c].view[i] = [conn |-> c, n |-> n]
  BY <1>2 DEF FrameInv, Heard, Seen, Subscribers
<1>. QED
  BY <1>1, <1>2 DEF FramesTaken

\* The agent takes the frames of a connection in the order they were sent, each
\* once, and a client that was told of no error sees them all, also those it sent
\* while the session was being opened: whatever other clients do, however often
\* the session is opened anew from its log, and whichever flushes fail.
THEOREM FramesInOrder == Spec => []FramesTaken
BY FrameInvTaken, InitFrames, NextFrames, TypeCorrect, AlwaysInv, PTL DEF Spec
=============================================================================
