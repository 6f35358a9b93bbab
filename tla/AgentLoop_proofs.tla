--------------------------- MODULE AgentLoop_proofs ---------------------------
(***************************************************************************)
(* Theorems about one agent, for any number of messages, steps, calls and  *)
(* kills.  The pieces of turn() (BeginStep, OpenTurn, EndTurn, ...) get a  *)
(* lemma each; an action then follows from the piece it ends with.         *)
(***************************************************************************)
EXTENDS AgentLoop, SequenceTheorems, WellFoundedInduction, TLAPS

-----------------------------------------------------------------------------
(* Least and greatest elements of sets of numbers, for LastTurn.            *)

\* Less-than on the naturals, as a set of pairs, is well founded.
LEMMA LessThanIsWellFounded ==
  IsWellFoundedOn({ss \in Nat \X Nat : ss[1] < ss[2]}, Nat)
BY NatLessThanWellFounded DEF OpToRel

\* Every nonempty set of naturals has a least element.
LEMMA LeastNatural ==
  ASSUME NEW S \in SUBSET Nat, S # {}
  PROVE  \E least \in S : \A n \in S : least <= n
<1>. DEFINE R == {ss \in Nat \X Nat : ss[1] < ss[2]}
<1>1. IsWellFoundedOn(R, Nat)
  BY LessThanIsWellFounded
<1>. HIDE DEF R
<1>2. PICK least \in S : \A n \in S : ~(<<n, least>> \in R)
  BY <1>1, WFMin
<1>3. ASSUME NEW n \in S
      PROVE  least <= n
  <2>1. ~(n < least)
    BY <1>2 DEF R
  <2>. QED
    BY <2>1
<1>. QED
  BY <1>3

\* A nonempty set of naturals with an upper bound has a greatest element.
LEMMA GreatestNatural ==
  ASSUME NEW bound \in Nat, NEW S \in SUBSET (0 .. bound), S # {}
  PROVE  \E greatest \in S : \A n \in S : greatest >= n
<1>. DEFINE down == {bound - n : n \in S}
<1>1. PICK d \in down : \A e \in down : d <= e
  <2>1. \A n \in S : n \in 0 .. bound /\ bound - n \in Nat
    OBVIOUS
  <2>2. down \in SUBSET Nat /\ down # {}
    BY <2>1
  <2>. QED
    BY <2>2, LeastNatural
<1>2. PICK greatest \in S : d = bound - greatest
  OBVIOUS
<1>3. ASSUME NEW n \in S
      PROVE  greatest >= n
  BY <1>1, <1>2
<1>. QED
  BY <1>3

-----------------------------------------------------------------------------
(* Type correctness.                                                        *)

\* The part of TypeOK that the pieces of turn() assign.
DriverTypeOK ==
  /\ nextTurn \in Seq(Msg)
  /\ nextStep \in Seq(Msg)
  /\ events \in Seq(Event)
  /\ pc \in PC
  /\ turn \in Turn
  /\ flushes \subseteq Saved

LEMMA EvType ==
  ASSUME NEW t \in Turn, NEW type \in EventType
  PROVE  Ev(type, t) \in Event
BY DEF Ev, Turn, Event

LEMMA UserMessageType ==
  ASSUME NEW t \in Turn, NEW m \in Msg
  PROVE  UserMessage(t, m) \in Event
BY DEF UserMessage, Ev, Turn, Event, EventType

LEMMA TurnEndType ==
  ASSUME NEW t \in Turn, NEW r \in Reason
  PROVE  TurnEnd(t, r) \in Event
BY DEF TurnEnd, Ev, Turn, Event, EventType

LEMMA FreshTurnType ==
  ASSUME NEW n \in Nat
  PROVE  FreshTurn(n) \in Turn
BY DEF FreshTurn, Turn, Reason

LEMMA ClaimingTurnType ==
  ASSUME NEW t \in Turn, NEW c \in Seq(Msg), NEW n \in Nat
  PROVE  [t EXCEPT !.step = n, !.claimed = c] \in Turn
<1>1. [t EXCEPT !.step = n] \in Turn
  BY DEF Turn
<1>2. [[t EXCEPT !.step = n] EXCEPT !.claimed = c] \in Turn
  BY <1>1 DEF Turn
<1>3. [[t EXCEPT !.step = n] EXCEPT !.claimed = c]
        = [t EXCEPT !.step = n, !.claimed = c]
  BY DEF Turn
<1>. QED
  BY <1>2, <1>3

LEMMA EmptiedTurnType ==
  ASSUME NEW t \in Turn
  PROVE  [t EXCEPT !.claimed = <<>>] \in Turn
<1>1. <<>> \in Seq(Msg)
  OBVIOUS
<1>. DEFINE c == <<>>
<1>2. c \in Seq(Msg)
  OBVIOUS
<1>. HIDE DEF c
<1>3. [t EXCEPT !.claimed = c] \in Turn
  BY <1>2 DEF Turn
<1>. QED
  BY <1>3 DEF c

LEMMA BeginStepType ==
  ASSUME NEW nt \in Seq(Msg), NEW ns \in Seq(Msg), NEW log \in Seq(Event),
         NEW t \in Turn, flushes \subseteq Saved,
         BeginStep(nt, ns, log, t)
  PROVE  DriverTypeOK'
<1>1. Claimed(t, nt, ns) \in Seq(Msg)
  BY DEF Claimed, TakesQueued
<1>2. LeftQueued(t, nt) \in Seq(Msg)
  BY DEF LeftQueued, TakesQueued
<1>3. turn' \in Turn
  <2>1. t.step + 1 \in Nat
    BY DEF Turn
  <2>. QED
    BY <1>1, <2>1, ClaimingTurnType DEF BeginStep
<1>. QED
  BY <1>2, <1>3 DEF BeginStep, DriverTypeOK, PC

LEMMA OpenTurnType ==
  ASSUME NEW nt \in Seq(Msg), NEW ns \in Seq(Msg), NEW log \in Seq(Event),
         NEW n \in Nat, flushes \subseteq Saved,
         OpenTurn(nt, ns, log, n)
  PROVE  DriverTypeOK'
<1>. DEFINE t == FreshTurn(n + 1)
<1>1. t \in Turn
  BY FreshTurnType
<1>2. Append(log, Ev("turn/start", t)) \in Seq(Event)
  BY <1>1, EvType DEF EventType
<1>3. BeginStep(nt, ns, Append(log, Ev("turn/start", t)), t)
  BY DEF OpenTurn
<1>. QED
  BY <1>1, <1>2, <1>3, BeginStepType

LEMMA EndTurnType ==
  ASSUME NEW nt \in Seq(Msg), NEW ns \in Seq(Msg), NEW log \in Seq(Event),
         NEW t \in Turn, NEW r \in Reason, flushes \subseteq Saved,
         EndTurn(nt, ns, log, t, r)
  PROVE  DriverTypeOK'
<1>. DEFINE log2 == Append(log, TurnEnd(t, r))
<1>1. log2 \in Seq(Event)
  BY TurnEndType
<1>2. t.seq \in Nat
  BY DEF Turn
<1>3. CASE HasPending(nt, ns)
  <2>1. OpenTurn(nt, ns, log2, t.seq)
    BY <1>3 DEF EndTurn
  <2>. QED
    BY <1>1, <1>2, <2>1, OpenTurnType
<1>4. CASE ~HasPending(nt, ns)
  <2>1. FreshTurn(t.seq) \in Turn
    BY <1>2, FreshTurnType
  <2>2. FlushAtEnd(log2, nt, ns) \subseteq Saved
    BY <1>1 DEF FlushAtEnd, Saved
  <2>. QED
    BY <1>1, <1>4, <2>1, <2>2 DEF EndTurn, DriverTypeOK, PC
<1>. QED
  BY <1>3, <1>4

LEMMA FailTurnType ==
  ASSUME NEW nt \in Seq(Msg), NEW ns \in Seq(Msg), NEW log \in Seq(Event),
         NEW t \in Turn, flushes \subseteq Saved,
         FailTurn(nt, ns, log, t)
  PROVE  DriverTypeOK'
<1>1. (IF Aborted(t) THEN "aborted" ELSE "error") \in Reason
  BY DEF Reason
<1>. QED
  BY <1>1, EndTurnType DEF FailTurn

LEMMA NextRoundType ==
  ASSUME NEW nt \in Seq(Msg), NEW ns \in Seq(Msg), NEW log \in Seq(Event),
         NEW t \in Turn, flushes \subseteq Saved,
         NextRound(nt, ns, log, t)
  PROVE  DriverTypeOK'
<1>1. CASE (~t.closed \/ ns # <<>>) /\ Aborted(t)
  <2>1. EndTurn(nt, ns, log, t, "aborted")
    BY <1>1 DEF NextRound
  <2>. QED
    BY <2>1, EndTurnType DEF Reason
<1>2. CASE (~t.closed \/ ns # <<>>) /\ ~Aborted(t)
  <2>1. BeginStep(nt, ns, log, t)
    BY <1>2 DEF NextRound
  <2>. QED
    BY <2>1, BeginStepType
<1>3. CASE ~(~t.closed \/ ns # <<>>)
  BY <1>3 DEF NextRound, DriverTypeOK, PC
<1>. QED
  BY <1>1, <1>2, <1>3

LEMMA EndStepType ==
  ASSUME nextTurn \in Seq(Msg), flushes \subseteq Saved,
         NEW ns \in Seq(Msg), NEW log \in Seq(Event),
         NEW t \in Turn, NEW closed \in BOOLEAN,
         EndStep(ns, log, t, closed)
  PROVE  DriverTypeOK'
<1>1. Append(log, Ev("step/end", t)) \in Seq(Event)
  BY EvType DEF EventType
<1>2. [t EXCEPT !.closed = closed] \in Turn
  BY DEF Turn
<1>. QED
  BY <1>1, <1>2, NextRoundType DEF EndStep

LEMMA RunCallsType ==
  ASSUME nextTurn \in Seq(Msg), flushes \subseteq Saved,
         NEW ns \in Seq(Msg), NEW log \in Seq(Event),
         NEW t \in Turn, NEW n \in Nat, NEW bad \in Nat, bad <= n,
         RunCalls(ns, log, t, n, bad)
  PROVE  DriverTypeOK'
<1>. DEFINE failed == [i \in 1 .. 2 * bad |->
                         Ev(IF i % 2 = 1 THEN "tool/call" ELSE "tool/result", t)]
<1>1. failed \in Seq(Event)
  <2>1. \A i \in 1 .. 2 * bad : failed[i] \in Event
    BY EvType DEF EventType
  <2>2. failed \in [1 .. 2 * bad -> Event]
    BY <2>1
  <2>. QED
    BY <2>2, 2 * bad \in Nat
<1>. HIDE DEF failed
<1>2. CASE bad < n
  <2>1. events' = log \o failed \o <<Ev("tool/call", t)>>
    BY <1>2 DEF RunCalls, failed
  <2>2. events' \in Seq(Event)
    BY <1>1, <2>1, EvType DEF EventType
  <2>3. turn' \in Turn
    <3>1. n - bad \in Nat
      BY <1>2
    <3>2. turn' = [t EXCEPT !.calls = n - bad]
      BY <1>2 DEF RunCalls
    <3>. QED
      BY <3>1, <3>2 DEF Turn
  <2>. QED
    BY <1>2, <2>2, <2>3 DEF RunCalls, DriverTypeOK, PC
<1>3. CASE ~(bad < n)
  <2>1. EndStep(ns, log \o failed, [t EXCEPT !.calls = 0], t.concludes)
    BY <1>3 DEF RunCalls, failed
  <2>2. [t EXCEPT !.calls = 0] \in Turn /\ t.concludes \in BOOLEAN
    BY DEF Turn
  <2>3. log \o failed \in Seq(Event)
    BY <1>1
  <2>. QED
    BY <2>1, <2>2, <2>3, EndStepType
<1>. QED
  BY <1>2, <1>3

\* The last turn/start of a log exists when there is one at all.
LEMMA LastStart ==
  ASSUME NEW log \in Seq(Event),
         NEW starts, starts = {i \in DOMAIN log : log[i].type = "turn/start"},
         starts # {}
  PROVE  Max(starts) \in starts /\ \A i \in starts : Max(starts) >= i
<1>1. starts \in SUBSET (0 .. Len(log)) /\ Len(log) \in Nat
  OBVIOUS
<1>2. \E last \in starts : \A i \in starts : last >= i
  BY <1>1, GreatestNatural
<1>. QED
  BY <1>2 DEF Max

LEMMA LastTurnType ==
  ASSUME NEW log \in Seq(Event)
  PROVE  LastTurn(log) \in Nat
<1>. DEFINE starts == {i \in DOMAIN log : log[i].type = "turn/start"}
<1>1. CASE starts = {}
  BY <1>1 DEF LastTurn
<1>2. CASE starts # {}
  <2>1. Max(starts) \in starts
    BY <1>2, LastStart
  <2>2. log[Max(starts)] \in Event
    BY <2>1
  <2>. QED
    BY <1>2, <2>2 DEF LastTurn, Event
<1>. QED
  BY <1>1, <1>2

LEMMA InitType == Init => TypeOK
<1>. SUFFICES ASSUME Init
              PROVE  TypeOK
  OBVIOUS
<1>1. FreshTurn(0) \in Turn
  BY FreshTurnType
<1>2. disk \in Saved
  BY DEF Init, Saved
<1>3. 0 \in 0 .. MaxMsgs /\ 0 \in 0 .. MaxCrashes
  BY BoundsAssumption
<1>4. nextTurn \in Seq(Msg) /\ nextStep \in Seq(Msg) /\ events \in Seq(Event)
  BY DEF Init
<1>5. pc \in PC /\ disposal \in Disposal /\ flushFailed \in BOOLEAN
  BY DEF Init, PC, Disposal
<1>6. turn \in Turn /\ flushes \subseteq Saved
  BY <1>1 DEF Init
<1>7. sent \in 0 .. MaxMsgs /\ crashes \in 0 .. MaxCrashes
  BY <1>3 DEF Init
<1>. QED
  BY <1>2, <1>4, <1>5, <1>6, <1>7 DEF TypeOK

\* A step of the driver, the disposal untouched.
LEMMA DriverType ==
  ASSUME TypeOK, Driver
  PROVE  TypeOK'
<1>. USE DEF DriverUnchanged
<1>0. /\ nextTurn \in Seq(Msg) /\ nextStep \in Seq(Msg) /\ events \in Seq(Event)
      /\ turn \in Turn /\ flushes \subseteq Saved /\ turn.claimed \in Seq(Msg)
      /\ turn.calls \in Nat /\ turn.reason \in Reason /\ sent \in 0 .. MaxMsgs
  BY DEF TypeOK, Turn
<1>1. ASSUME Assembled
      PROVE  TypeOK'
  <2>1. CASE Aborted(turn)
    <3>1. EndTurn(nextTurn, nextStep, events, turn, "aborted")
      BY <1>1, <2>1 DEF Assembled
    <3>2. DriverTypeOK'
      BY <1>0, <3>1, EndTurnType DEF Reason
    <3>. QED
      BY <1>1, <3>2 DEF Assembled, DriverTypeOK, TypeOK
  <2>2. CASE ~Aborted(turn)
    BY <1>1, <2>2 DEF Assembled, TypeOK, PC
  <2>. QED
    BY <2>1, <2>2
<1>2. ASSUME Enter
      PROVE  TypeOK'
  <2>. DEFINE msgs == [i \in 1 .. Len(turn.claimed) |->
                         UserMessage(turn, turn.claimed[i])]
  <2>1. \A i \in 1 .. Len(turn.claimed) : msgs[i] \in Event
    BY <1>0, UserMessageType
  <2>2. msgs \in Seq(Event)
    <3>1. msgs \in [1 .. Len(turn.claimed) -> Event]
      BY <2>1
    <3>2. Len(turn.claimed) \in Nat
      BY <1>0
    <3>. QED
      BY <3>1, <3>2
  <2>3. Append(events, Ev("step/start", turn)) \in Seq(Event)
    BY <1>0, EvType DEF EventType
  <2>. HIDE DEF msgs
  <2>4. Append(events, Ev("step/start", turn)) \o msgs \in Seq(Event)
    BY <2>2, <2>3
  <2>5. events' \in Seq(Event)
    BY <1>2, <2>4 DEF Enter, msgs
  <2>6. turn' \in Turn
    BY <1>0, <1>2, EmptiedTurnType DEF Enter
  <2>. QED
    BY <1>2, <2>5, <2>6 DEF Enter, TypeOK, PC
<1>3. ASSUME Reject
      PROVE  TypeOK'
  <2>1. turn' \in Turn
    <3>1. [turn EXCEPT !.claimed = <<>>] \in Turn
      BY <1>0, EmptiedTurnType
    <3>2. [[turn EXCEPT !.claimed = <<>>] EXCEPT !.closed = TRUE] \in Turn
      BY <3>1 DEF Turn
    <3>3. [[[turn EXCEPT !.claimed = <<>>] EXCEPT !.closed = TRUE]
             EXCEPT !.reason = "blocked"] \in Turn
      BY <3>2 DEF Turn, Reason
    <3>. QED
      BY <1>0, <1>3, <3>3 DEF Reject, Turn
  <2>. QED
    BY <1>3, <2>1 DEF Reject, TypeOK, PC
<1>4. ASSUME PrepareThrows
      PROVE  TypeOK'
  <2>1. DriverTypeOK'
    BY <1>0, <1>4, FailTurnType DEF PrepareThrows
  <2>. QED
    BY <1>4, <2>1 DEF PrepareThrows, DriverTypeOK, TypeOK
<1>5. ASSUME NEW n \in 0 .. MaxCalls, NEW bad \in 0 .. n, ModelAnswers(n, bad)
      PROVE  TypeOK'
  <2>. DEFINE log == Append(events, Ev("assistant/message", turn))
  <2>1. log \in Seq(Event)
    BY <1>0, EvType DEF EventType
  <2>2. CASE n = 0
    <3>1. EndStep(nextStep, log, turn, TRUE)
      BY <1>5, <2>2 DEF ModelAnswers
    <3>2. DriverTypeOK'
      BY <1>0, <2>1, <3>1, EndStepType
    <3>. QED
      BY <1>5, <3>2 DEF ModelAnswers, DriverTypeOK, TypeOK
  <2>3. CASE n # 0
    <3>1. RunCalls(nextStep, log, [turn EXCEPT !.concludes = FALSE], n, bad)
      BY <1>5, <2>3 DEF ModelAnswers
    <3>2. [turn EXCEPT !.concludes = FALSE] \in Turn
      BY <1>0 DEF Turn
    <3>3. n \in Nat /\ bad \in Nat /\ bad <= n
      BY BoundsAssumption
    <3>4. DriverTypeOK'
      BY <1>0, <2>1, <3>1, <3>2, <3>3, RunCallsType
    <3>. QED
      BY <1>5, <3>4 DEF ModelAnswers, DriverTypeOK, TypeOK
  <2>. QED
    BY <2>2, <2>3
<1>6. ASSUME NEW text \in BOOLEAN, ModelThrows(text)
      PROVE  TypeOK'
  <2>. DEFINE log == IF text THEN Append(events, Ev("assistant/interrupted", turn))
                    ELSE events
  <2>1. Append(log, Ev("step/end", turn)) \in Seq(Event)
    BY <1>0, EvType DEF EventType
  <2>2. FailTurn(nextTurn, nextStep, Append(log, Ev("step/end", turn)), turn)
    BY <1>6 DEF ModelThrows
  <2>3. DriverTypeOK'
    BY <1>0, <2>1, <2>2, FailTurnType
  <2>. QED
    BY <1>6, <2>3 DEF ModelThrows, DriverTypeOK, TypeOK
<1>7. ASSUME NEW concludes \in BOOLEAN, NEW context \in BOOLEAN,
             NEW bad \in 0 .. MaxCalls, ToolReturns(concludes, context, bad)
      PROVE  TypeOK'
  <2>. DEFINE t  == [turn EXCEPT !.concludes = @ \/ concludes]
              m  == [id |-> sent + 1, via |-> "inject"]
              ns == IF context THEN Append(nextStep, m) ELSE nextStep
              log == Append(events, Ev("tool/result", t))
  <2>1. t \in Turn /\ t.calls = turn.calls
    BY <1>0 DEF Turn
  <2>2. log \in Seq(Event)
    BY <1>0, <2>1, EvType DEF EventType
  <2>3. sent' \in 0 .. MaxMsgs
    BY <1>0, <1>7, BoundsAssumption DEF ToolReturns
  <2>4. ns \in Seq(Msg)
    <3>1. context => m \in Msg
      BY <1>0, <1>7, BoundsAssumption DEF ToolReturns, Msg, Via
    <3>. QED
      BY <1>0, <3>1
  <2>5. bad < t.calls /\ RunCalls(ns, log, t, t.calls - 1, bad)
    BY <1>7 DEF ToolReturns
  <2>6. t.calls - 1 \in Nat /\ bad \in Nat /\ bad <= t.calls - 1
    BY <1>0, <2>1, <2>5, BoundsAssumption
  <2>. HIDE DEF t, ns, log
  <2>7. DriverTypeOK'
    BY <1>0, <2>1, <2>2, <2>4, <2>5, <2>6, RunCallsType
  <2>. QED
    BY <1>7, <2>3, <2>7 DEF ToolReturns, DriverTypeOK, TypeOK
<1>8. ASSUME ToolThrows
      PROVE  TypeOK'
  <2>1. Append(events, Ev("step/end", turn)) \in Seq(Event)
    BY <1>0, EvType DEF EventType
  <2>2. DriverTypeOK'
    BY <1>0, <1>8, <2>1, FailTurnType DEF ToolThrows
  <2>. QED
    BY <1>8, <2>2 DEF ToolThrows, DriverTypeOK, TypeOK
<1>9. ASSUME Stopped
      PROVE  TypeOK'
  <2>1. CASE nextStep = <<>>
    <3>1. EndTurn(nextTurn, nextStep, events, turn, turn.reason)
      BY <1>9, <2>1 DEF Stopped
    <3>2. DriverTypeOK'
      BY <1>0, <3>1, EndTurnType
    <3>. QED
      BY <1>9, <3>2 DEF Stopped, DriverTypeOK, TypeOK
  <2>2. CASE nextStep # <<>>
    <3>1. NextRound(nextTurn, nextStep, events, [turn EXCEPT !.closed = FALSE])
      BY <1>9, <2>2 DEF Stopped
    <3>2. [turn EXCEPT !.closed = FALSE] \in Turn
      BY <1>0 DEF Turn
    <3>3. DriverTypeOK'
      BY <1>0, <3>1, <3>2, NextRoundType
    <3>. QED
      BY <1>9, <3>3 DEF Stopped, DriverTypeOK, TypeOK
  <2>. QED
    BY <2>1, <2>2
<1>10. ASSUME StoppingThrows
       PROVE  TypeOK'
  <2>1. DriverTypeOK'
    BY <1>0, <1>10, FailTurnType DEF StoppingThrows
  <2>. QED
    BY <1>10, <2>1 DEF StoppingThrows, DriverTypeOK, TypeOK
<1>. QED
  BY <1>1, <1>2, <1>3, <1>4, <1>5, <1>6, <1>7, <1>8, <1>9, <1>10 DEF Driver

LEMMA SendType ==
  ASSUME TypeOK, NEW via \in Via, Send(via)
  PROVE  TypeOK'
<1>. DEFINE m  == [id |-> sent + 1, via |-> via]
            nt == IF via = "followup" THEN Enqueue(nextTurn, m) ELSE nextTurn
            ns == IF via = "followup" THEN nextStep ELSE Enqueue(nextStep, m)
<1>1. m \in Msg
  BY BoundsAssumption DEF TypeOK, Send, Msg
<1>2. nt \in Seq(Msg) /\ ns \in Seq(Msg)
  BY <1>1 DEF TypeOK, Enqueue
<1>3. sent' \in 0 .. MaxMsgs
  BY BoundsAssumption DEF TypeOK, Send
<1>. HIDE DEF nt, ns
<1>4. CASE via # "inject" /\ ~Driving
  <2>1. OpenTurn(nt, ns, events, turn.seq)
    BY <1>4 DEF Send, nt, ns
  <2>2. DriverTypeOK'
    BY <1>2, <2>1, OpenTurnType DEF TypeOK, Turn
  <2>. QED
    BY <1>3, <2>2 DEF Send, TypeOK, DriverTypeOK
<1>5. CASE ~(via # "inject" /\ ~Driving)
  <2>1. nextTurn' = nt /\ nextStep' = ns /\ UNCHANGED <<events, pc, turn, flushes>>
    BY <1>5 DEF Send, nt, ns
  <2>. QED
    BY <1>2, <1>3, <2>1 DEF Send, TypeOK
<1>. QED
  BY <1>4, <1>5

LEMMA AbortType ==
  ASSUME turn \in Turn, NEW cause \in {"user", "disposed"}, Abort(cause)
  PROVE  turn' \in Turn
BY DEF Abort, Turn

LEMMA NextType == TypeOK /\ [Next]_vars => TypeOK'
<1>. SUFFICES ASSUME TypeOK, [Next]_vars
              PROVE  TypeOK'
  OBVIOUS
<1>1. CASE Driver
  BY <1>1, DriverType
<1>2. ASSUME NEW via \in Via, Send(via)
      PROVE  TypeOK'
  BY <1>2, SendType
<1>3. CASE Cancel
  <2>1. turn' \in Turn
    BY <1>3, AbortType DEF Cancel, TypeOK
  <2>. QED
    BY <1>3, <2>1 DEF Cancel, TypeOK
<1>4. CASE Dispose
  <2>1. turn' \in Turn
    BY <1>4, AbortType DEF Dispose, TypeOK
  <2>. QED
    BY <1>4, <2>1 DEF Dispose, WhenIdle, TypeOK, Disposal
<1>5. CASE TornDown
  BY <1>5 DEF TornDown, TypeOK, Disposal
<1>6. ASSUME NEW f \in flushes, NEW ok \in BOOLEAN, FlushSettles(f, ok)
      PROVE  TypeOK'
  <2>1. f \in Saved
    BY DEF TypeOK
  <2>2. disk' \in Saved
    BY <1>6, <2>1 DEF FlushSettles, TypeOK
  <2>3. disposal' \in Disposal
    BY <1>6 DEF FlushSettles, ResolveWaiters, TypeOK, Disposal
  <2>4. flushFailed' \in BOOLEAN
    BY <1>6 DEF FlushSettles, TypeOK
  <2>. QED
    BY <1>6, <2>2, <2>3, <2>4 DEF FlushSettles, TypeOK
<1>7. CASE Checkpoint
  BY <1>7 DEF Checkpoint, TypeOK, Saved
<1>8. CASE CrashAndResume
  <2>1. disk.events \in Seq(Event) /\ disk.nextTurn \in Seq(Msg)
        /\ disk.nextStep \in Seq(Msg)
    BY DEF TypeOK, Saved
  <2>2. turn' \in Turn
    BY <1>8, <2>1, LastTurnType, FreshTurnType DEF CrashAndResume
  <2>3. crashes' \in 0 .. MaxCrashes
    BY <1>8, BoundsAssumption DEF CrashAndResume, TypeOK
  <2>. QED
    BY <1>8, <2>1, <2>2, <2>3 DEF CrashAndResume, TypeOK, PC, Disposal
<1>9. CASE UNCHANGED vars
  BY <1>9 DEF vars, TypeOK
<1>. QED
  BY <1>1, <1>2, <1>3, <1>4, <1>5, <1>6, <1>7, <1>8, <1>9 DEF Next, Settle

\* Every variable of an agent keeps its type, whatever interleaving of sends,
\* cancels, disposal, flushes and kills the loop runs through.
THEOREM TypeCorrect == Spec => []TypeOK
BY InitType, NextType, PTL DEF Spec

-----------------------------------------------------------------------------
(* How a driver stops.                                                      *)

\* Wherever a piece of turn() leaves the driver: if it stopped, the inbox is
\* empty and a flush is under way.
StopsCleanly ==
  /\ Driving' => UNCHANGED flushes
  /\ ~Driving' => /\ inbox' = <<<<>>, <<>>>>
                  /\ flushes \subseteq flushes' /\ flushes' # {}

LEMMA BeginStepGoesOn ==
  ASSUME NEW nt, NEW ns, NEW log, NEW t, BeginStep(nt, ns, log, t)
  PROVE  Driving' /\ UNCHANGED flushes
BY DEF BeginStep, Driving

LEMMA EndTurnStops ==
  ASSUME NEW nt, NEW ns, NEW log, NEW t, NEW r, EndTurn(nt, ns, log, t, r)
  PROVE  StopsCleanly
<1>1. CASE HasPending(nt, ns)
  BY <1>1, BeginStepGoesOn DEF EndTurn, OpenTurn, StopsCleanly
<1>2. CASE ~HasPending(nt, ns)
  <2>1. nextTurn' = nt /\ nextStep' = ns
    BY <1>2 DEF EndTurn
  <2>2. flushes \subseteq flushes' /\ flushes' # {}
    BY <1>2 DEF EndTurn, FlushAtEnd
  <2>3. ~Driving'
    BY <1>2 DEF EndTurn, Driving
  <2>. QED
    BY <1>2, <2>1, <2>2, <2>3 DEF StopsCleanly, HasPending, inbox
<1>. QED
  BY <1>1, <1>2

LEMMA NextRoundStops ==
  ASSUME NEW nt, NEW ns, NEW log, NEW t, NextRound(nt, ns, log, t)
  PROVE  StopsCleanly
<1>1. CASE (~t.closed \/ ns # <<>>) /\ Aborted(t)
  BY <1>1, EndTurnStops DEF NextRound
<1>2. CASE (~t.closed \/ ns # <<>>) /\ ~Aborted(t)
  BY <1>2, BeginStepGoesOn DEF NextRound, StopsCleanly
<1>3. CASE ~(~t.closed \/ ns # <<>>)
  BY <1>3 DEF NextRound, StopsCleanly, Driving
<1>. QED
  BY <1>1, <1>2, <1>3

LEMMA RunCallsStops ==
  ASSUME NEW ns, NEW log, NEW t, NEW n, NEW bad, RunCalls(ns, log, t, n, bad)
  PROVE  StopsCleanly
<1>1. CASE bad < n
  BY <1>1 DEF RunCalls, StopsCleanly, Driving
<1>2. CASE ~(bad < n)
  BY <1>2, NextRoundStops DEF RunCalls, EndStep
<1>. QED
  BY <1>1, <1>2

LEMMA DriverStops ==
  ASSUME Driver
  PROVE  StopsCleanly /\ Driving /\ UNCHANGED <<disposal, crashes>>
<1>. USE DEF DriverUnchanged
<1>1. CASE Assembled
  <2>1. CASE Aborted(turn)
    BY <1>1, <2>1, EndTurnStops DEF Assembled, Driving
  <2>2. CASE ~Aborted(turn)
    BY <1>1, <2>2 DEF Assembled, StopsCleanly, Driving
  <2>. QED
    BY <2>1, <2>2
<1>2. CASE Enter \/ Reject
  BY <1>2 DEF Enter, Reject, StopsCleanly, Driving
<1>3. CASE PrepareThrows
  BY <1>3, EndTurnStops DEF PrepareThrows, FailTurn, Driving
<1>4. ASSUME NEW n, NEW bad, ModelAnswers(n, bad)
      PROVE  StopsCleanly /\ Driving /\ UNCHANGED <<disposal, crashes>>
  BY <1>4, NextRoundStops, RunCallsStops DEF ModelAnswers, EndStep, Driving
<1>5. ASSUME NEW text, ModelThrows(text)
      PROVE  StopsCleanly /\ Driving /\ UNCHANGED <<disposal, crashes>>
  BY <1>5, EndTurnStops DEF ModelThrows, FailTurn, Driving
<1>6. ASSUME NEW concludes, NEW context, NEW bad, ToolReturns(concludes, context, bad)
      PROVE  StopsCleanly /\ Driving /\ UNCHANGED <<disposal, crashes>>
  BY <1>6, RunCallsStops DEF ToolReturns, Driving
<1>7. CASE ToolThrows \/ StoppingThrows
  BY <1>7, EndTurnStops DEF ToolThrows, StoppingThrows, FailTurn, Driving
<1>8. CASE Stopped
  BY <1>8, EndTurnStops, NextRoundStops DEF Stopped, Driving
<1>. QED
  BY <1>1, <1>2, <1>3, <1>4, <1>5, <1>6, <1>7, <1>8 DEF Driver

LEMMA SendKeepsDriving ==
  ASSUME NEW via \in Via, Send(via)
  PROVE  /\ UNCHANGED <<disposal, crashes>>
         /\ Driving' \/ (~Driving /\ UNCHANGED flushes)
<1>1. CASE via # "inject" /\ ~Driving
  BY <1>1, BeginStepGoesOn DEF Send, OpenTurn
<1>2. CASE ~(via # "inject" /\ ~Driving)
  BY <1>2 DEF Send, Driving
<1>. QED
  BY <1>1, <1>2

\* A disposal that waits for the agent to be idle is never forgotten: at every
\* moment a driver or a flush is under way whose end resolves it.  NoLostWaiter
\* is inductive by itself: a driver ends by starting a flush, and a flush ends
\* by resolving the waiters.
THEOREM WaiterCovered == Spec => []NoLostWaiter
<1>1. Init => NoLostWaiter
  BY DEF Init, NoLostWaiter
<1>2. NoLostWaiter /\ [Next]_vars => NoLostWaiter'
  <2>. SUFFICES ASSUME NoLostWaiter, [Next]_vars
               PROVE  NoLostWaiter'
    OBVIOUS
  <2>1. CASE Driver
    BY <2>1, DriverStops DEF StopsCleanly, NoLostWaiter
  <2>2. ASSUME NEW via \in Via, Send(via)
        PROVE  NoLostWaiter'
    BY <2>2, SendKeepsDriving DEF NoLostWaiter
  <2>3. CASE Cancel
    BY <2>3 DEF Cancel, NoLostWaiter, Driving
  <2>4. CASE Dispose
    BY <2>4 DEF Dispose, WhenIdle, NoLostWaiter, Driving
  <2>5. CASE TornDown
    BY <2>5 DEF TornDown, NoLostWaiter
  <2>6. CASE Settle
    BY <2>6 DEF Settle, FlushSettles, ResolveWaiters, NoLostWaiter
  <2>7. CASE Checkpoint
    BY <2>7 DEF Checkpoint, NoLostWaiter, Driving
  <2>8. CASE CrashAndResume
    BY <2>8 DEF CrashAndResume, NoLostWaiter
  <2>9. CASE UNCHANGED vars
    BY <2>9 DEF vars, NoLostWaiter, Driving
  <2>. QED
    BY <2>1, <2>2, <2>3, <2>4, <2>5, <2>6, <2>7, <2>8, <2>9 DEF Next
<1>. QED
  BY <1>1, <1>2, PTL DEF Spec

-----------------------------------------------------------------------------
(* Turn numbers.                                                            *)

Starts(log, n) == \E j \in 1 .. Len(log) : log[j].type = "turn/start" /\ log[j].turn = n

\* The numbering of a log: it never decreases, a turn/start increases it, and
\* every event is preceded by the turn/start of its turn.
Numbered(log) ==
  /\ \A i, j \in 1 .. Len(log) : i < j => log[i].turn <= log[j].turn
  /\ \A i, j \in 1 .. Len(log) :
       i < j /\ log[j].type = "turn/start" => log[i].turn < log[j].turn
  /\ \A i \in 1 .. Len(log) : \E j \in 1 .. i :
       log[j].type = "turn/start" /\ log[j].turn = log[i].turn

UpTo(log, n) == \A i \in 1 .. Len(log) : log[i].turn <= n

\* A log the turn n writes to.
InTurn(log, n) == Numbered(log) /\ UpTo(log, n) /\ Starts(log, n)

\* The inductive invariant: the log in memory is numbered up to the driver's
\* counter, which a running turn has already logged; what is on disk or on the
\* way there is numbered too, so a resume can continue from it.
TurnsInv ==
  /\ Numbered(events)
  /\ UpTo(events, turn.seq)
  /\ Driving => Starts(events, turn.seq)
  /\ Numbered(disk.events)
  /\ \A f \in flushes : Numbered(f.events)

\* What a piece of turn() has to leave behind.
TurnsStepInv ==
  /\ Numbered(events)
  /\ UpTo(events, turn.seq)
  /\ Driving => Starts(events, turn.seq)
  /\ \A f \in flushes : Numbered(f.events)

LEMMA TurnsTyped ==
  ASSUME NEW log \in Seq(Event)
  PROVE  \A i \in 1 .. Len(log) : log[i].turn \in Nat
<1>. SUFFICES ASSUME NEW i \in 1 .. Len(log)
             PROVE  log[i].turn \in Nat
  OBVIOUS
<1>1. log[i] \in Event
  OBVIOUS
<1>. QED
  BY <1>1 DEF Event

LEMMA AppendInTurn ==
  ASSUME NEW log \in Seq(Event), NEW n \in Nat, InTurn(log, n),
         NEW e \in Event, e.turn = n, e.type # "turn/start"
  PROVE  InTurn(Append(log, e), n)
<1>. DEFINE new == Append(log, e)
<1>1. /\ Len(new) = Len(log) + 1 /\ Len(log) \in Nat
      /\ \A i \in 1 .. Len(log) : new[i] = log[i]
      /\ new[Len(log) + 1] = e
  OBVIOUS
<1>2. \A i \in 1 .. Len(log) : log[i].turn \in Nat
  BY TurnsTyped
<1>. HIDE DEF new
<1>3. UpTo(new, n)
  BY <1>1 DEF UpTo, InTurn
<1>4. Starts(new, n)
  BY <1>1 DEF Starts, InTurn
<1>5. Numbered(new)
  <2>1. ASSUME NEW i \in 1 .. Len(new), NEW j \in 1 .. Len(new), i < j
        PROVE  /\ new[i].turn <= new[j].turn
               /\ new[j].type = "turn/start" => new[i].turn < new[j].turn
    <3>1. CASE j \in 1 .. Len(log)
      <4>1. i \in 1 .. Len(log) /\ new[i] = log[i] /\ new[j] = log[j]
        BY <1>1, <2>1, <3>1
      <4>. QED
        BY <2>1, <3>1, <4>1 DEF InTurn, Numbered
    <3>2. CASE j = Len(log) + 1
      <4>1. new[j].turn = n /\ new[j].type # "turn/start"
        BY <1>1, <3>2
      <4>2. new[i].turn <= n
        BY <1>3 DEF UpTo
      <4>. QED
        BY <4>1, <4>2
    <3>. QED
      BY <1>1, <3>1, <3>2
  <2>3. \A i \in 1 .. Len(new) : \E j \in 1 .. i :
          new[j].type = "turn/start" /\ new[j].turn = new[i].turn
    <3>. SUFFICES ASSUME NEW i \in 1 .. Len(new)
                 PROVE  \E j \in 1 .. i : new[j].type = "turn/start"
                                       /\ new[j].turn = new[i].turn
      OBVIOUS
    <3>1. CASE i \in 1 .. Len(log)
      <4>1. PICK j \in 1 .. i : log[j].type = "turn/start" /\ log[j].turn = log[i].turn
        BY <3>1 DEF InTurn, Numbered
      <4>2. j \in 1 .. Len(log)
        BY <1>1, <3>1
      <4>. QED
        BY <1>1, <3>1, <4>1, <4>2
    <3>2. CASE i = Len(log) + 1
      <4>1. PICK j \in 1 .. Len(log) : log[j].type = "turn/start" /\ log[j].turn = n
        BY DEF InTurn, Starts
      <4>2. j \in 1 .. i /\ new[j] = log[j] /\ new[i].turn = n
        BY <1>1, <3>2, <4>1
      <4>. QED
        BY <4>1, <4>2
    <3>. QED
      BY <1>1, <3>1, <3>2
  <2>. QED
    BY <2>1, <2>3 DEF Numbered
<1>. QED
  BY <1>3, <1>4, <1>5 DEF InTurn, new

LEMMA AppendStart ==
  ASSUME NEW log \in Seq(Event), NEW n \in Nat, Numbered(log), UpTo(log, n),
         NEW e \in Event, e.turn = n + 1, e.type = "turn/start"
  PROVE  InTurn(Append(log, e), n + 1)
<1>. DEFINE new == Append(log, e)
<1>1. /\ Len(new) = Len(log) + 1 /\ Len(log) \in Nat
      /\ \A i \in 1 .. Len(log) : new[i] = log[i]
      /\ new[Len(log) + 1] = e
  OBVIOUS
<1>2. \A i \in 1 .. Len(log) : log[i].turn \in Nat
  BY TurnsTyped
<1>. HIDE DEF new
<1>3. UpTo(new, n + 1)
  BY <1>1, <1>2 DEF UpTo
<1>4. Starts(new, n + 1)
  BY <1>1 DEF Starts
<1>5. Numbered(new)
  <2>1. ASSUME NEW i \in 1 .. Len(new), NEW j \in 1 .. Len(new), i < j
        PROVE  /\ new[i].turn <= new[j].turn
               /\ new[j].type = "turn/start" => new[i].turn < new[j].turn
    <3>1. i \in 1 .. Len(log) /\ new[i] = log[i]
      BY <1>1, <2>1
    <3>2. CASE j \in 1 .. Len(log)
      <4>1. new[j] = log[j]
        BY <1>1, <3>2
      <4>. QED
        BY <2>1, <3>1, <3>2, <4>1 DEF Numbered
    <3>3. CASE j = Len(log) + 1
      <4>1. new[j].turn = n + 1
        BY <1>1, <3>3
      <4>2. log[i].turn <= n /\ log[i].turn \in Nat
        BY <1>2, <3>1 DEF UpTo
      <4>. QED
        BY <3>1, <4>1, <4>2
    <3>. QED
      BY <1>1, <3>2, <3>3
  <2>3. \A i \in 1 .. Len(new) : \E j \in 1 .. i :
          new[j].type = "turn/start" /\ new[j].turn = new[i].turn
    <3>. SUFFICES ASSUME NEW i \in 1 .. Len(new)
                 PROVE  \E j \in 1 .. i : new[j].type = "turn/start"
                                       /\ new[j].turn = new[i].turn
      OBVIOUS
    <3>1. CASE i \in 1 .. Len(log)
      <4>1. PICK j \in 1 .. i : log[j].type = "turn/start" /\ log[j].turn = log[i].turn
        BY <3>1 DEF Numbered
      <4>2. j \in 1 .. Len(log)
        BY <1>1, <3>1
      <4>. QED
        BY <1>1, <3>1, <4>1, <4>2
    <3>2. CASE i = Len(log) + 1
      BY <1>1, <3>2
    <3>. QED
      BY <1>1, <3>1, <3>2
  <2>. QED
    BY <2>1, <2>3 DEF Numbered
<1>. QED
  BY <1>3, <1>4, <1>5 DEF InTurn, new

\* Appending several events of the turn.
LEMMA ConcatInTurn ==
  ASSUME NEW log \in Seq(Event), NEW n \in Nat, InTurn(log, n),
         NEW more \in Seq(Event),
         \A i \in 1 .. Len(more) : more[i].turn = n /\ more[i].type # "turn/start"
  PROVE  InTurn(log \o more, n)
<1>. DEFINE new == log \o more
<1>1. /\ Len(new) = Len(log) + Len(more) /\ Len(log) \in Nat /\ Len(more) \in Nat
      /\ \A i \in 1 .. Len(log) : new[i] = log[i]
      /\ \A i \in 1 .. Len(new) : i > Len(log) => new[i] = more[i - Len(log)]
  OBVIOUS
<1>2. \A i \in 1 .. Len(log) : log[i].turn \in Nat
  BY TurnsTyped
<1>3. \A i \in 1 .. Len(new) : i > Len(log) =>
        new[i].turn = n /\ new[i].type # "turn/start"
  BY <1>1
<1>. HIDE DEF new
<1>4. UpTo(new, n)
  BY <1>1, <1>3 DEF UpTo, InTurn
<1>5. Starts(new, n)
  BY <1>1 DEF Starts, InTurn
<1>6. Numbered(new)
  <2>1. ASSUME NEW i \in 1 .. Len(new), NEW j \in 1 .. Len(new), i < j
        PROVE  /\ new[i].turn <= new[j].turn
               /\ new[j].type = "turn/start" => new[i].turn < new[j].turn
    <3>1. CASE j \in 1 .. Len(log)
      <4>1. i \in 1 .. Len(log) /\ new[i] = log[i] /\ new[j] = log[j]
        BY <1>1, <2>1, <3>1
      <4>. QED
        BY <2>1, <3>1, <4>1 DEF InTurn, Numbered
    <3>2. CASE j > Len(log)
      <4>1. new[j].turn = n /\ new[j].type # "turn/start"
        BY <1>3, <3>2
      <4>2. new[i].turn <= n
        BY <1>4 DEF UpTo
      <4>. QED
        BY <4>1, <4>2
    <3>. QED
      BY <1>1, <3>1, <3>2
  <2>3. \A i \in 1 .. Len(new) : \E j \in 1 .. i :
          new[j].type = "turn/start" /\ new[j].turn = new[i].turn
    <3>. SUFFICES ASSUME NEW i \in 1 .. Len(new)
                 PROVE  \E j \in 1 .. i : new[j].type = "turn/start"
                                       /\ new[j].turn = new[i].turn
      OBVIOUS
    <3>1. CASE i \in 1 .. Len(log)
      <4>1. PICK j \in 1 .. i : log[j].type = "turn/start" /\ log[j].turn = log[i].turn
        BY <3>1 DEF InTurn, Numbered
      <4>2. j \in 1 .. Len(log)
        BY <1>1, <3>1
      <4>. QED
        BY <1>1, <3>1, <4>1, <4>2
    <3>2. CASE i > Len(log)
      <4>1. PICK j \in 1 .. Len(log) : log[j].type = "turn/start" /\ log[j].turn = n
        BY DEF InTurn, Starts
      <4>2. j \in 1 .. i /\ new[j] = log[j] /\ new[i].turn = n
        BY <1>1, <1>3, <3>2, <4>1
      <4>. QED
        BY <4>1, <4>2
    <3>. QED
      BY <1>1, <3>1, <3>2
  <2>. QED
    BY <2>1, <2>3 DEF Numbered
<1>. QED
  BY <1>4, <1>5, <1>6 DEF InTurn, new

\* A rehydrated agent continues from the last number of the log.
LEMMA LastTurnBounds ==
  ASSUME NEW log \in Seq(Event), Numbered(log)
  PROVE  UpTo(log, LastTurn(log))
<1>. DEFINE starts == {i \in DOMAIN log : log[i].type = "turn/start"}
<1>1. CASE starts = {}
  <2>1. Len(log) = 0
    BY <1>1 DEF Numbered
  <2>. QED
    BY <2>1 DEF UpTo
<1>2. CASE starts # {}
  <2>1. Max(starts) \in starts /\ \A i \in starts : Max(starts) >= i
    BY <1>2, LastStart
  <2>2. LastTurn(log) = log[Max(starts)].turn
    BY <1>2 DEF LastTurn
  <2>. DEFINE last == Max(starts)
  <2>. HIDE DEF last
  <2>3. last \in 1 .. Len(log)
    BY <2>1 DEF last
  <2>4. \A i \in 1 .. Len(log) : log[i].turn \in Nat
    BY TurnsTyped
  <2>5. ASSUME NEW i \in 1 .. Len(log)
        PROVE  log[i].turn <= log[last].turn
    <3>1. PICK j \in 1 .. i : log[j].type = "turn/start" /\ log[j].turn = log[i].turn
      BY DEF Numbered
    <3>2. j \in 1 .. Len(log) /\ j <= last
      BY <2>1, <3>1 DEF last
    <3>3. j < last \/ j = last
      BY <2>3, <3>2
    <3>. QED
      BY <2>3, <2>4, <3>1, <3>2, <3>3 DEF Numbered
  <2>. QED
    BY <2>2, <2>5 DEF UpTo, last
<1>. QED
  BY <1>1, <1>2
LEMMA EvTurn ==
  ASSUME NEW t \in Turn, NEW type \in EventType
  PROVE  /\ Ev(type, t) \in Event
         /\ Ev(type, t).turn = t.seq
         /\ Ev(type, t).type = type
BY EvType DEF Ev

LEMMA LogInTurn ==
  ASSUME NEW log \in Seq(Event), NEW t \in Turn, InTurn(log, t.seq),
         NEW type \in EventType, type # "turn/start"
  PROVE  /\ Append(log, Ev(type, t)) \in Seq(Event)
         /\ InTurn(Append(log, Ev(type, t)), t.seq)
<1>1. t.seq \in Nat
  BY DEF Turn
<1>2. Ev(type, t) \in Event /\ Ev(type, t).turn = t.seq /\ Ev(type, t).type = type
  BY EvTurn
<1>. QED
  BY <1>1, <1>2, AppendInTurn

FlushesNumbered == \A f \in flushes : Numbered(f.events)

LEMMA BeginStepTurns ==
  ASSUME FlushesNumbered, NEW nt, NEW ns, NEW log, NEW t \in Turn,
         InTurn(log, t.seq), BeginStep(nt, ns, log, t)
  PROVE  TurnsStepInv'
<1>1. turn'.seq = t.seq
  BY DEF BeginStep, Turn
<1>2. events' = log /\ flushes' = flushes
  BY DEF BeginStep
<1>. QED
  BY <1>1, <1>2 DEF TurnsStepInv, FlushesNumbered, InTurn

LEMMA OpenTurnTurns ==
  ASSUME FlushesNumbered, NEW nt, NEW ns, NEW log \in Seq(Event), NEW n \in Nat,
         Numbered(log), UpTo(log, n), OpenTurn(nt, ns, log, n)
  PROVE  TurnsStepInv'
<1>. DEFINE t == FreshTurn(n + 1)
            e == Ev("turn/start", t)
<1>1. t \in Turn /\ t.seq = n + 1
  BY FreshTurnType DEF FreshTurn
<1>2. e \in Event /\ e.turn = n + 1 /\ e.type = "turn/start"
  BY <1>1, EvTurn DEF EventType
<1>3. BeginStep(nt, ns, Append(log, e), t)
  BY DEF OpenTurn
<1>. HIDE DEF t, e
<1>4. InTurn(Append(log, e), t.seq)
  BY <1>1, <1>2, AppendStart
<1>. QED
  BY <1>1, <1>3, <1>4, BeginStepTurns

LEMMA EndTurnTurns ==
  ASSUME FlushesNumbered, NEW nt, NEW ns, NEW log \in Seq(Event),
         NEW t \in Turn, NEW r \in Reason,
         InTurn(log, t.seq), EndTurn(nt, ns, log, t, r)
  PROVE  TurnsStepInv'
<1>. DEFINE e == TurnEnd(t, r)
            log2 == Append(log, e)
<1>1. t.seq \in Nat
  BY DEF Turn
<1>2. e \in Event /\ e.turn = t.seq /\ e.type = "turn/end"
  BY TurnEndType DEF TurnEnd, Ev
<1>. HIDE DEF e
<1>3. log2 \in Seq(Event) /\ InTurn(log2, t.seq)
  BY <1>1, <1>2, AppendInTurn
<1>4. CASE HasPending(nt, ns)
  <2>1. OpenTurn(nt, ns, log2, t.seq)
    BY <1>4 DEF EndTurn, e
  <2>. HIDE DEF log2
  <2>. QED
    BY <1>1, <1>3, <2>1, OpenTurnTurns DEF InTurn
<1>5. CASE ~HasPending(nt, ns)
  <2>1. /\ events' = log2 /\ turn' = FreshTurn(t.seq) /\ pc' = "idle"
        /\ flushes' = flushes \cup FlushAtEnd(log2, nt, ns)
    BY <1>5 DEF EndTurn, e
  <2>2. turn'.seq = t.seq
    BY <2>1 DEF FreshTurn
  <2>. HIDE DEF log2
  <2>3. \A f \in FlushAtEnd(log2, nt, ns) : f.events = log2
    BY DEF FlushAtEnd
  <2>. QED
    BY <1>3, <2>1, <2>2, <2>3 DEF TurnsStepInv, FlushesNumbered, InTurn, Driving
<1>. QED
  BY <1>4, <1>5

LEMMA FailTurnTurns ==
  ASSUME FlushesNumbered, NEW nt, NEW ns, NEW log \in Seq(Event), NEW t \in Turn,
         InTurn(log, t.seq), FailTurn(nt, ns, log, t)
  PROVE  TurnsStepInv'
<1>1. (IF Aborted(t) THEN "aborted" ELSE "error") \in Reason
  BY DEF Reason
<1>. QED
  BY <1>1, EndTurnTurns DEF FailTurn

LEMMA NextRoundTurns ==
  ASSUME FlushesNumbered, NEW nt, NEW ns, NEW log \in Seq(Event), NEW t \in Turn,
         InTurn(log, t.seq), NextRound(nt, ns, log, t)
  PROVE  TurnsStepInv'
<1>1. CASE (~t.closed \/ ns # <<>>) /\ Aborted(t)
  BY <1>1, EndTurnTurns DEF NextRound, Reason
<1>2. CASE (~t.closed \/ ns # <<>>) /\ ~Aborted(t)
  BY <1>2, BeginStepTurns DEF NextRound
<1>3. CASE ~(~t.closed \/ ns # <<>>)
  <2>1. events' = log /\ turn' = t /\ flushes' = flushes
    BY <1>3 DEF NextRound
  <2>. QED
    BY <2>1 DEF TurnsStepInv, FlushesNumbered, InTurn
<1>. QED
  BY <1>1, <1>2, <1>3

LEMMA EndStepTurns ==
  ASSUME FlushesNumbered, NEW ns, NEW log \in Seq(Event), NEW t \in Turn,
         NEW closed \in BOOLEAN,
         InTurn(log, t.seq), EndStep(ns, log, t, closed)
  PROVE  TurnsStepInv'
<1>. DEFINE log2 == Append(log, Ev("step/end", t))
            t2 == [t EXCEPT !.closed = closed]
<1>1. log2 \in Seq(Event) /\ InTurn(log2, t.seq)
  BY LogInTurn DEF EventType
<1>2. t2 \in Turn /\ t2.seq = t.seq
  BY DEF Turn
<1>3. NextRound(nextTurn, ns, log2, t2)
  BY DEF EndStep
<1>. HIDE DEF log2, t2
<1>. QED
  BY <1>1, <1>2, <1>3, NextRoundTurns

LEMMA RunCallsTurns ==
  ASSUME FlushesNumbered, NEW ns, NEW log \in Seq(Event), NEW t \in Turn,
         NEW n \in Nat, NEW bad \in Nat, bad <= n,
         InTurn(log, t.seq), RunCalls(ns, log, t, n, bad)
  PROVE  TurnsStepInv'
<1>. DEFINE failed == [i \in 1 .. 2 * bad |->
                         Ev(IF i % 2 = 1 THEN "tool/call" ELSE "tool/result", t)]
<1>0. t.seq \in Nat
  BY DEF Turn
<1>1. failed \in Seq(Event)
  <2>1. \A i \in 1 .. 2 * bad : failed[i] \in Event
    BY EvType DEF EventType
  <2>2. failed \in [1 .. 2 * bad -> Event]
    BY <2>1
  <2>. QED
    BY <2>2, 2 * bad \in Nat
<1>2. \A i \in 1 .. Len(failed) : failed[i].turn = t.seq /\ failed[i].type # "turn/start"
  <2>1. Len(failed) = 2 * bad
    BY 2 * bad \in Nat
  <2>. QED
    BY <2>1, EvTurn DEF EventType
<1>. HIDE DEF failed
<1>3. log \o failed \in Seq(Event) /\ InTurn(log \o failed, t.seq)
  BY SMTT(20), <1>0, <1>1, <1>2, ConcatInTurn
<1>4. CASE bad < n
  <2>. DEFINE e == Ev("tool/call", t)
  <2>1. events' = log \o failed \o <<e>>
    BY <1>4 DEF RunCalls, failed
  <2>2. Append(log \o failed, e) = log \o failed \o <<e>>
    BY <1>3, EvTurn DEF EventType
  <2>3. InTurn(events', t.seq)
    BY <1>3, <2>1, <2>2, LogInTurn DEF EventType
  <2>4. turn'.seq = t.seq /\ flushes' = flushes
    BY <1>4 DEF RunCalls, Turn
  <2>. QED
    BY <2>3, <2>4 DEF TurnsStepInv, FlushesNumbered, InTurn
<1>5. CASE ~(bad < n)
  <2>. DEFINE t2 == [t EXCEPT !.calls = 0]
  <2>1. EndStep(ns, log \o failed, t2, t.concludes)
    BY <1>5 DEF RunCalls, failed
  <2>2. t2 \in Turn /\ t2.seq = t.seq /\ t.concludes \in BOOLEAN
    BY DEF Turn
  <2>. HIDE DEF t2
  <2>. QED
    BY <1>3, <2>1, <2>2, EndStepTurns
<1>. QED
  BY <1>4, <1>5
LEMMA DriverTurns ==
  ASSUME TypeOK, TurnsInv, Driver
  PROVE  TurnsInv'
<1>. USE DEF DriverUnchanged
<1>1. /\ FlushesNumbered /\ events \in Seq(Event) /\ turn \in Turn
      /\ turn.seq \in Nat /\ turn.calls \in Nat /\ turn.reason \in Reason
      /\ turn.claimed \in Seq(Msg)
  BY DEF TurnsInv, FlushesNumbered, TypeOK, Turn
<1>2. Driving /\ disk' = disk
  BY DEF Driver, Driving, Assembled, Enter, Reject, PrepareThrows, ModelAnswers,
         ModelThrows, ToolReturns, ToolThrows, Stopped, StoppingThrows
<1>3. InTurn(events, turn.seq)
  BY <1>2 DEF InTurn, TurnsInv
<1>. SUFFICES TurnsStepInv'
  BY <1>2 DEF TurnsInv, TurnsStepInv
<1>4. CASE Assembled
  <2>1. CASE Aborted(turn)
    BY <1>1, <1>3, <1>4, <2>1, EndTurnTurns DEF Assembled, Reason
  <2>2. CASE ~Aborted(turn)
    BY <1>1, <1>3, <1>4, <2>2 DEF Assembled, TurnsStepInv, FlushesNumbered, InTurn
  <2>. QED
    BY <2>1, <2>2
<1>5. CASE Enter
  <2>. DEFINE msgs == [i \in 1 .. Len(turn.claimed) |->
                         UserMessage(turn, turn.claimed[i])]
              log == Append(events, Ev("step/start", turn))
  <2>1. \A i \in 1 .. Len(turn.claimed) :
          msgs[i] \in Event /\ msgs[i].turn = turn.seq /\ msgs[i].type # "turn/start"
    <3>. SUFFICES ASSUME NEW i \in 1 .. Len(turn.claimed)
                 PROVE  /\ msgs[i] \in Event /\ msgs[i].turn = turn.seq
                        /\ msgs[i].type # "turn/start"
      OBVIOUS
    <3>1. turn.claimed[i] \in Msg
      BY <1>1
    <3>2. msgs[i] = UserMessage(turn, turn.claimed[i])
      OBVIOUS
    <3>. QED
      BY <1>1, <3>1, <3>2, UserMessageType DEF UserMessage, Ev
  <2>2. msgs \in Seq(Event) /\ Len(msgs) = Len(turn.claimed)
    <3>1. msgs \in [1 .. Len(turn.claimed) -> Event]
      BY <2>1
    <3>2. Len(turn.claimed) \in Nat
      BY <1>1
    <3>. QED
      BY <3>1, <3>2
  <2>3. log \in Seq(Event) /\ InTurn(log, turn.seq)
    BY <1>1, <1>3, LogInTurn DEF EventType
  <2>4. events' = log \o msgs /\ turn'.seq = turn.seq /\ flushes' = flushes
    BY <1>1, <1>5 DEF Enter, Turn
  <2>. HIDE DEF msgs, log
  <2>5. InTurn(log \o msgs, turn.seq)
    BY <1>1, <2>1, <2>2, <2>3, ConcatInTurn
  <2>. QED
    BY <1>1, <2>4, <2>5 DEF TurnsStepInv, FlushesNumbered, InTurn
<1>6. CASE Reject
  <2>1. turn'.seq = turn.seq
    BY <1>1, <1>6 DEF Reject, Turn
  <2>. QED
    BY <1>1, <1>3, <1>6, <2>1 DEF Reject, TurnsStepInv, FlushesNumbered, InTurn
<1>7. CASE PrepareThrows \/ StoppingThrows
  BY <1>1, <1>3, <1>7, FailTurnTurns DEF PrepareThrows, StoppingThrows
<1>8. ASSUME NEW n \in 0 .. MaxCalls, NEW bad \in 0 .. n, ModelAnswers(n, bad)
      PROVE  TurnsStepInv'
  <2>. DEFINE log == Append(events, Ev("assistant/message", turn))
              t == [turn EXCEPT !.concludes = FALSE]
  <2>1. log \in Seq(Event) /\ InTurn(log, turn.seq)
    BY <1>1, <1>3, LogInTurn DEF EventType
  <2>2. t \in Turn /\ t.seq = turn.seq
    BY <1>1 DEF Turn
  <2>3. \/ EndStep(nextStep, log, turn, TRUE)
        \/ RunCalls(nextStep, log, t, n, bad)
    BY <1>8 DEF ModelAnswers
  <2>4. n \in Nat /\ bad \in Nat /\ bad <= n
    BY BoundsAssumption
  <2>. HIDE DEF log, t
  <2>. QED
    BY <1>1, <2>1, <2>2, <2>3, <2>4, EndStepTurns, RunCallsTurns
<1>9. ASSUME NEW text \in BOOLEAN, ModelThrows(text)
      PROVE  TurnsStepInv'
  <2>. DEFINE log == IF text THEN Append(events, Ev("assistant/interrupted", turn))
                    ELSE events
              log2 == Append(log, Ev("step/end", turn))
  <2>1. log \in Seq(Event) /\ InTurn(log, turn.seq)
    BY <1>1, <1>3, LogInTurn DEF EventType
  <2>2. FailTurn(nextTurn, nextStep, log2, turn)
    BY <1>9 DEF ModelThrows
  <2>. HIDE DEF log
  <2>3. log2 \in Seq(Event) /\ InTurn(log2, turn.seq)
    BY <1>1, <2>1, LogInTurn DEF EventType
  <2>. HIDE DEF log2
  <2>. QED
    BY <1>1, <2>2, <2>3, FailTurnTurns
<1>10. ASSUME NEW concludes \in BOOLEAN, NEW context \in BOOLEAN,
              NEW bad \in 0 .. MaxCalls, ToolReturns(concludes, context, bad)
       PROVE  TurnsStepInv'
  <2>. DEFINE t  == [turn EXCEPT !.concludes = @ \/ concludes]
              m  == [id |-> sent + 1, via |-> "inject"]
              ns == IF context THEN Append(nextStep, m) ELSE nextStep
              log == Append(events, Ev("tool/result", t))
  <2>1. t \in Turn /\ t.calls = turn.calls /\ t.seq = turn.seq
    BY <1>1 DEF Turn
  <2>2. bad < t.calls /\ RunCalls(ns, log, t, t.calls - 1, bad)
    BY <1>10 DEF ToolReturns
  <2>3. t.calls - 1 \in Nat /\ bad \in Nat /\ bad <= t.calls - 1
    BY <1>1, <2>1, <2>2, BoundsAssumption
  <2>. HIDE DEF t, ns
  <2>4. log \in Seq(Event) /\ InTurn(log, t.seq)
    BY <1>1, <1>3, <2>1, LogInTurn DEF EventType
  <2>. HIDE DEF log
  <2>. QED
    BY <1>1, <2>1, <2>2, <2>3, <2>4, RunCallsTurns
<1>11. CASE ToolThrows
  <2>. DEFINE log == Append(events, Ev("step/end", turn))
  <2>1. log \in Seq(Event) /\ InTurn(log, turn.seq)
    BY <1>1, <1>3, LogInTurn DEF EventType
  <2>2. FailTurn(nextTurn, nextStep, log, turn)
    BY <1>11 DEF ToolThrows
  <2>. HIDE DEF log
  <2>. QED
    BY <1>1, <2>1, <2>2, FailTurnTurns
<1>12. CASE Stopped
  <2>1. CASE nextStep = <<>>
    BY <1>1, <1>3, <1>12, <2>1, EndTurnTurns DEF Stopped
  <2>2. CASE nextStep # <<>>
    <3>. DEFINE t == [turn EXCEPT !.closed = FALSE]
    <3>1. t \in Turn /\ t.seq = turn.seq
      BY <1>1 DEF Turn
    <3>2. NextRound(nextTurn, nextStep, events, t)
      BY <1>12, <2>2 DEF Stopped
    <3>. HIDE DEF t
    <3>. QED
      BY <1>1, <1>3, <3>1, <3>2, NextRoundTurns
  <2>. QED
    BY <2>1, <2>2
<1>. QED
  BY <1>4, <1>5, <1>6, <1>7, <1>8, <1>9, <1>10, <1>11, <1>12 DEF Driver

LEMMA SendTurns ==
  ASSUME TypeOK, TurnsInv, NEW via \in Via, Send(via)
  PROVE  TurnsInv'
<1>. DEFINE m  == [id |-> sent + 1, via |-> via]
            nt == IF via = "followup" THEN Enqueue(nextTurn, m) ELSE nextTurn
            ns == IF via = "followup" THEN nextStep ELSE Enqueue(nextStep, m)
<1>1. disk' = disk
  BY DEF Send
<1>2. CASE via # "inject" /\ ~Driving
  <2>1. OpenTurn(nt, ns, events, turn.seq)
    BY <1>2 DEF Send
  <2>. HIDE DEF nt, ns
  <2>2. FlushesNumbered /\ events \in Seq(Event) /\ turn.seq \in Nat
    BY DEF TurnsInv, FlushesNumbered, TypeOK, Turn
  <2>3. TurnsStepInv'
    BY <2>1, <2>2, OpenTurnTurns DEF TurnsInv
  <2>. QED
    BY <1>1, <2>3 DEF TurnsInv, TurnsStepInv
<1>3. CASE ~(via # "inject" /\ ~Driving)
  <2>1. UNCHANGED <<events, pc, turn, flushes>>
    BY <1>3 DEF Send
  <2>. QED
    BY <1>1, <2>1 DEF TurnsInv, Driving
<1>. QED
  BY <1>2, <1>3

LEMMA AbortKeepsSeq ==
  ASSUME turn \in Turn, NEW cause, Abort(cause)
  PROVE  turn'.seq = turn.seq
BY DEF Abort, Turn

LEMMA NextTurns == TypeOK /\ TurnsInv /\ [Next]_vars => TurnsInv'
<1>. SUFFICES ASSUME TypeOK, TurnsInv, [Next]_vars
              PROVE  TurnsInv'
  OBVIOUS
<1>1. CASE Driver
  BY <1>1, DriverTurns
<1>2. ASSUME NEW via \in Via, Send(via)
      PROVE  TurnsInv'
  BY <1>2, SendTurns
<1>3. CASE Cancel \/ Dispose
  <2>1. turn'.seq = turn.seq
    BY <1>3, AbortKeepsSeq DEF Cancel, Dispose, TypeOK
  <2>2. UNCHANGED <<events, disk, pc, flushes>>
    BY <1>3 DEF Cancel, Dispose
  <2>. QED
    BY <2>1, <2>2 DEF TurnsInv, Driving
<1>4. CASE TornDown
  BY <1>4 DEF TornDown, TurnsInv, Driving
<1>5. ASSUME NEW f \in flushes, NEW ok \in BOOLEAN, FlushSettles(f, ok)
      PROVE  TurnsInv'
  <2>1. UNCHANGED <<events, pc, turn>> /\ flushes' = flushes \ {f}
    BY <1>5 DEF FlushSettles
  <2>2. disk' = f \/ disk' = disk
    BY <1>5 DEF FlushSettles
  <2>3. Numbered(disk'.events)
    BY <2>2 DEF TurnsInv
  <2>. QED
    BY <2>1, <2>3 DEF TurnsInv, Driving
<1>6. CASE Checkpoint
  BY <1>6 DEF Checkpoint, TurnsInv, Driving
<1>7. CASE CrashAndResume
  <2>1. disk.events \in Seq(Event) /\ Numbered(disk.events)
    BY DEF TypeOK, Saved, TurnsInv
  <2>2. /\ events' = disk.events /\ disk' = disk /\ pc' = "idle" /\ flushes' = {}
        /\ turn'.seq = LastTurn(disk.events)
    BY <1>7 DEF CrashAndResume, FreshTurn
  <2>3. UpTo(disk.events, LastTurn(disk.events))
    BY <2>1, LastTurnBounds
  <2>. QED
    BY <2>1, <2>2, <2>3 DEF TurnsInv, Driving
<1>8. CASE UNCHANGED vars
  BY <1>8 DEF vars, TurnsInv, Driving
<1>. QED
  BY <1>1, <1>2, <1>3, <1>4, <1>5, <1>6, <1>7, <1>8 DEF Next, Settle

\* A turn number is given once and the numbers of the log only grow, whatever
\* was cancelled, failed, disposed of or killed before: a resume continues
\* from the last turn/start on disk.
THEOREM TurnsOnce == Spec => []TurnsNumberedOnce
<1>1. Init => TurnsInv
  BY DEF Init, TurnsInv, Numbered, UpTo, Starts, Driving
<1>2. TypeOK /\ TurnsInv => TurnsNumberedOnce
  <2>. SUFFICES ASSUME TypeOK, TurnsInv
               PROVE  TurnsNumberedOnce
    OBVIOUS
  <2>1. DOMAIN events = 1 .. Len(events)
    BY DEF TypeOK
  <2>. QED
    BY <2>1 DEF TurnsInv, Numbered, TurnsNumberedOnce
<1>. QED
  BY <1>1, <1>2, NextTurns, TypeCorrect, PTL DEF Spec

-----------------------------------------------------------------------------
(* What a step of the driver does, in the five shapes the invariants below  *)
(* tell apart: the prompt is ready, the step is entered or refused, the     *)
(* driver leaves off between two steps, or it works within one.             *)

Within == {"assistant/message", "assistant/interrupted", "tool/call", "tool/result"}

\* What a step logs between its start and its end.  An aborted turn logs no
\* answer of the model.
Inside(ext) ==
  \A i \in 1 .. Len(ext) :
     /\ ext[i].type \in Within
     /\ ext[i].msg = NoMsg
     /\ Aborted(turn) => ext[i].type # "assistant/message"

\* The locals of the same turn and step, with the same claim and abort cause.
SameTurn(t) ==
  /\ t.seq = turn.seq /\ t.step = turn.step
  /\ t.abort = turn.abort /\ t.claimed = turn.claimed

\* The next-step queue after a tool result that may carry a context message.
Took(ns) ==
  \/ ns = nextStep /\ sent' = sent
  \/ /\ sent < MaxMsgs /\ sent' = sent + 1
     /\ ns = Append(nextStep, [id |-> sent + 1, via |-> "inject"])

\* The driver waits at an await within the turn.
Waits(ns, log, t, await) ==
  /\ nextTurn' = nextTurn /\ nextStep' = ns
  /\ events' = log
  /\ turn' = t
  /\ pc' = await
  /\ UNCHANGED flushes

\* Where a step leaves the driver.
GoesOn(ns, log, t) ==
  \/ \E r \in {"aborted", "error"} : EndTurn(nextTurn, ns, log, t, r)
  \/ ~Aborted(t) /\ BeginStep(nextTurn, ns, log, t)
  \/ ns = <<>> /\ Waits(ns, log, t, "stopping")

InStep(ns, ext, t) ==
  /\ pc \in {"request", "tools"}
  /\ SameTurn(t)
  /\ Took(ns)
  /\ Inside(ext)
  /\ \/ Waits(ns, events \o ext, t, "tools")
     \/ GoesOn(ns, Append(events \o ext, Ev("step/end", turn)), t)

BetweenSteps(t) ==
  /\ pc \in {"assemble", "prestep", "stopping"}
  /\ SameTurn(t)
  /\ sent' = sent
  /\ \/ \E r \in {"aborted", "error"} : EndTurn(nextTurn, nextStep, events, t, r)
     \/ /\ pc = "stopping" /\ nextStep = <<>>
        /\ EndTurn(nextTurn, nextStep, events, t, turn.reason)
     \/ /\ pc = "stopping" /\ ~Aborted(t)
        /\ BeginStep(nextTurn, nextStep, events, t)

DriverStep ==
  \/ Assembled /\ ~Aborted(turn)
  \/ Enter
  \/ Reject
  \/ \E t \in Turn : BetweenSteps(t)
  \/ \E ns \in Seq(Msg), ext \in Seq(Event), t \in Turn : InStep(ns, ext, t)

LEMMA FailTurnEnds ==
  ASSUME NEW ns, NEW log, NEW t, FailTurn(nextTurn, ns, log, t)
  PROVE  \E r \in {"aborted", "error"} : EndTurn(nextTurn, ns, log, t, r)
BY DEF FailTurn

LEMMA NextRoundGoesOn ==
  ASSUME NEW ns, NEW log, NEW t, NextRound(nextTurn, ns, log, t)
  PROVE  GoesOn(ns, log, t)
BY DEF NextRound, GoesOn, Waits

LEMMA EvInside ==
  ASSUME turn \in Turn, NEW t \in Turn, SameTurn(t), NEW type \in EventType
  PROVE  /\ Ev(type, t) = Ev(type, turn)
         /\ Ev(type, t) \in Event
         /\ Ev(type, t).type = type
         /\ Ev(type, t).msg = NoMsg
BY EvType DEF Ev, SameTurn

LEMMA OneInside ==
  ASSUME turn \in Turn, NEW t \in Turn, SameTurn(t), NEW type \in Within,
         Aborted(turn) => type # "assistant/message"
  PROVE  <<Ev(type, t)>> \in Seq(Event) /\ Inside(<<Ev(type, t)>>)
<1>. DEFINE e == Ev(type, t)
<1>1. e \in Event /\ e.type = type /\ e.msg = NoMsg
  BY EvInside DEF Within, EventType
<1>. HIDE DEF e
<1>2. <<e>> \in Seq(Event) /\ Len(<<e>>) = 1 /\ <<e>>[1] = e
  BY <1>1
<1>. QED
  BY <1>1, <1>2 DEF Inside, e

LEMMA InsideConcat ==
  ASSUME NEW s \in Seq(Event), NEW r \in Seq(Event), Inside(s), Inside(r)
  PROVE  s \o r \in Seq(Event) /\ Inside(s \o r)
<1>. DEFINE c == s \o r
<1>1. /\ c \in Seq(Event) /\ Len(c) = Len(s) + Len(r)
      /\ \A i \in 1 .. Len(s) + Len(r) :
           c[i] = IF i <= Len(s) THEN s[i] ELSE r[i - Len(s)]
  BY ConcatProperties
<1>2. Len(s) \in Nat /\ Len(r) \in Nat
  OBVIOUS
<1>. HIDE DEF c
<1>3. ASSUME NEW i \in 1 .. Len(c)
      PROVE  \/ \E j \in 1 .. Len(s) : c[i] = s[j]
             \/ \E j \in 1 .. Len(r) : c[i] = r[j]
  <2>1. CASE i <= Len(s)
    BY <1>1, <1>2, <2>1
  <2>2. CASE ~(i <= Len(s))
    <3>1. i - Len(s) \in 1 .. Len(r) /\ c[i] = r[i - Len(s)]
      BY <1>1, <1>2, <2>2
    <3>. QED
      BY <3>1
  <2>. QED
    BY <2>1, <2>2
<1>4. Inside(c)
  BY <1>3 DEF Inside
<1>. QED
  BY <1>1, <1>4 DEF c

LEMMA EventConcat ==
  \A a, b, c \in Seq(Event) : (a \o b) \o c = a \o (b \o c)
BY ConcatAssociative

\* The calls of an assistant message, after what the step has logged so far.
LEMMA RunCallsInStep ==
  ASSUME TypeOK, pc \in {"request", "tools"},
         NEW ns \in Seq(Msg), Took(ns), NEW own \in Seq(Event), Inside(own),
         NEW t \in Turn, SameTurn(t), NEW n \in Nat, NEW bad \in Nat, bad <= n,
         RunCalls(ns, events \o own, t, n, bad)
  PROVE  DriverStep
<1>. DEFINE failed == [i \in 1 .. 2 * bad |->
                         Ev(IF i % 2 = 1 THEN "tool/call" ELSE "tool/result", t)]
            call == <<Ev("tool/call", t)>>
<1>1. turn \in Turn /\ events \in Seq(Event)
  BY DEF TypeOK
<1>2. failed \in Seq(Event) /\ Len(failed) = 2 * bad
  <2>1. \A i \in 1 .. 2 * bad : failed[i] \in Event
    BY EvType DEF EventType
  <2>2. failed \in [1 .. 2 * bad -> Event]
    BY <2>1
  <2>. QED
    BY <2>2, 2 * bad \in Nat
<1>3. Inside(failed)
  <2>. SUFFICES ASSUME NEW i \in 1 .. 2 * bad
               PROVE  /\ failed[i].type \in Within /\ failed[i].msg = NoMsg
                      /\ failed[i].type # "assistant/message"
    BY <1>2 DEF Inside
  <2>. DEFINE type == IF i % 2 = 1 THEN "tool/call" ELSE "tool/result"
  <2>1. failed[i] = Ev(type, t)
    OBVIOUS
  <2>2. type \in Within /\ type # "assistant/message"
    BY DEF Within
  <2>. HIDE DEF failed, type
  <2>3. type \in EventType
    BY <2>2 DEF Within, EventType
  <2>. QED
    BY <1>1, <2>1, <2>2, <2>3, EvInside
<1>4. call \in Seq(Event) /\ Inside(call)
  BY <1>1, OneInside DEF Within
<1>5. own \o failed \in Seq(Event) /\ Inside(own \o failed)
  BY <1>2, <1>3, InsideConcat
<1>6. CASE bad < n
  <2>. DEFINE ext == (own \o failed) \o call
              t2 == [t EXCEPT !.calls = n - bad]
  <2>1. /\ events' = ((events \o own) \o failed) \o call
        /\ turn' = t2 /\ nextStep' = ns /\ pc' = "tools"
        /\ UNCHANGED <<nextTurn, flushes>>
    BY <1>6 DEF RunCalls
  <2>2. n - bad \in Nat
    BY <1>6
  <2>3. t2 \in Turn /\ SameTurn(t2)
    BY <2>2 DEF Turn, SameTurn
  <2>. HIDE DEF failed, call, t2
  <2>4. ext \in Seq(Event) /\ Inside(ext)
    BY <1>4, <1>5, InsideConcat
  <2>5. events' = events \o ext
    <3>1. (events \o own) \o failed = events \o (own \o failed)
      BY <1>1, <1>2, EventConcat
    <3>2. (events \o (own \o failed)) \o call = events \o ext
      BY <1>1, <1>4, <1>5, EventConcat
    <3>. QED
      BY <2>1, <3>1, <3>2
  <2>. HIDE DEF ext
  <2>6. InStep(ns, ext, t2)
    BY <2>1, <2>3, <2>4, <2>5 DEF InStep, Waits
  <2>. QED
    BY <2>3, <2>4, <2>6 DEF DriverStep
<1>7. CASE ~(bad < n)
  <2>. DEFINE ext == own \o failed
              t0 == [t EXCEPT !.calls = 0]
              t2 == [t0 EXCEPT !.closed = t.concludes]
  <2>1. EndStep(ns, (events \o own) \o failed, t0, t.concludes)
    BY <1>7 DEF RunCalls
  <2>2. t0 \in Turn /\ SameTurn(t0)
    BY DEF Turn, SameTurn
  <2>3. t2 \in Turn /\ SameTurn(t2)
    BY DEF Turn, SameTurn
  <2>4. (events \o own) \o failed = events \o ext
    BY <1>1, <1>2, EventConcat
  <2>5. Ev("step/end", t0) = Ev("step/end", turn)
    BY <1>1, <2>2, EvInside DEF EventType
  <2>6. NextRound(nextTurn, ns, Append(events \o ext, Ev("step/end", turn)), t2)
    BY <2>1, <2>4, <2>5 DEF EndStep
  <2>. HIDE DEF ext, t0, t2
  <2>7. InStep(ns, ext, t2)
    BY <1>5, <2>3, <2>6, NextRoundGoesOn DEF InStep, ext
  <2>. QED
    BY <1>5, <2>3, <2>7 DEF DriverStep, ext
<1>. QED
  BY <1>6, <1>7

LEMMA SameTurnItself == turn \in Turn => turn \in Turn /\ SameTurn(turn)
BY DEF SameTurn

LEMMA DriverSteps ==
  ASSUME TypeOK, Driver
  PROVE  DriverStep /\ Driving /\ UNCHANGED <<disk, disposal, flushFailed, crashes>>
<1>. USE DEF DriverUnchanged
<1>0. /\ events \in Seq(Event) /\ turn \in Turn /\ nextStep \in Seq(Msg)
      /\ turn.calls \in Nat /\ turn.seq \in Nat /\ sent \in 0 .. MaxMsgs
      /\ SameTurn(turn)
  BY DEF TypeOK, Turn, SameTurn
<1>1. Driving /\ UNCHANGED <<disk, disposal, flushFailed, crashes>>
  BY DEF Driver, Driving, Assembled, Enter, Reject, PrepareThrows, ModelAnswers,
         ModelThrows, ToolReturns, ToolThrows, Stopped, StoppingThrows
<1>. SUFFICES DriverStep
  BY <1>1
<1>2. CASE Assembled
  <2>1. CASE Aborted(turn)
    <3>1. EndTurn(nextTurn, nextStep, events, turn, "aborted")
      BY <1>2, <2>1 DEF Assembled
    <3>2. BetweenSteps(turn)
      BY <1>0, <1>2, <3>1 DEF Assembled, BetweenSteps
    <3>. QED
      BY <1>0, <3>2 DEF DriverStep
  <2>2. CASE ~Aborted(turn)
    BY <1>2, <2>2 DEF DriverStep
  <2>. QED
    BY <2>1, <2>2
<1>3. CASE Enter \/ Reject
  BY <1>3 DEF DriverStep
<1>4. CASE PrepareThrows \/ StoppingThrows
  <2>1. FailTurn(nextTurn, nextStep, events, turn)
    BY <1>4 DEF PrepareThrows, StoppingThrows
  <2>2. pc \in {"assemble", "prestep", "stopping"} /\ sent' = sent
    BY <1>4 DEF PrepareThrows, StoppingThrows
  <2>3. BetweenSteps(turn)
    BY <1>0, <2>1, <2>2, FailTurnEnds DEF BetweenSteps
  <2>. QED
    BY <1>0, <2>3 DEF DriverStep
<1>5. ASSUME NEW n \in 0 .. MaxCalls, NEW bad \in 0 .. n, ModelAnswers(n, bad)
      PROVE  DriverStep
  <2>. DEFINE e == Ev("assistant/message", turn)
              own == <<e>>
  <2>1. e \in Event
    BY <1>0, EvType DEF EventType
  <2>2. own \in Seq(Event) /\ Inside(own)
    BY <1>0, <1>5, OneInside DEF ModelAnswers, Within
  <2>. HIDE DEF e
  <2>3. Append(events, e) = events \o own
    BY <1>0, <2>1
  <2>. HIDE DEF own
  <2>4. pc = "request" /\ Took(nextStep)
    BY <1>5 DEF ModelAnswers, Took
  <2>5. CASE n = 0
    <3>. DEFINE t == [turn EXCEPT !.closed = TRUE]
    <3>1. t \in Turn /\ SameTurn(t)
      BY <1>0 DEF Turn, SameTurn
    <3>2. EndStep(nextStep, events \o own, turn, TRUE)
      BY <1>5, <2>3, <2>5 DEF ModelAnswers, e
    <3>3. NextRound(nextTurn, nextStep, Append(events \o own, Ev("step/end", turn)), t)
      BY <3>2 DEF EndStep
    <3>. HIDE DEF t
    <3>4. InStep(nextStep, own, t)
      BY <2>2, <2>4, <3>1, <3>3, NextRoundGoesOn DEF InStep
    <3>. QED
      BY <1>0, <2>2, <3>1, <3>4 DEF DriverStep
  <2>6. CASE n # 0
    <3>. DEFINE t == [turn EXCEPT !.concludes = FALSE]
    <3>1. t \in Turn /\ SameTurn(t)
      BY <1>0 DEF Turn, SameTurn
    <3>2. RunCalls(nextStep, events \o own, t, n, bad)
      BY <1>5, <2>3, <2>6 DEF ModelAnswers, e
    <3>3. n \in Nat /\ bad \in Nat /\ bad <= n
      BY BoundsAssumption
    <3>. HIDE DEF t
    <3>. QED
      BY <1>0, <2>2, <2>4, <3>1, <3>2, <3>3, RunCallsInStep
  <2>. QED
    BY <2>5, <2>6
<1>6. ASSUME NEW text \in BOOLEAN, ModelThrows(text)
      PROVE  DriverStep
  <2>1. pc = "request" /\ Took(nextStep)
    BY <1>6 DEF ModelThrows, Took
  <2>2. CASE text
    <3>. DEFINE e == Ev("assistant/interrupted", turn)
                own == <<e>>
    <3>1. e \in Event
      BY <1>0, EvType DEF EventType
    <3>2. own \in Seq(Event) /\ Inside(own)
      BY <1>0, OneInside DEF Within
    <3>. HIDE DEF e
    <3>3. Append(events, e) = events \o own
      BY <1>0, <3>1
    <3>4. FailTurn(nextTurn, nextStep, Append(Append(events, e), Ev("step/end", turn)), turn)
      BY <1>6, <2>2 DEF ModelThrows, e
    <3>. HIDE DEF own
    <3>5. InStep(nextStep, own, turn)
      BY <1>0, <2>1, <3>2, <3>3, <3>4, FailTurnEnds DEF InStep, GoesOn
    <3>. QED
      BY <1>0, <3>2, <3>5 DEF DriverStep
  <2>3. CASE ~text
    <3>. DEFINE own == <<>>
    <3>1. own \in Seq(Event) /\ Inside(own) /\ events = events \o own
      BY <1>0 DEF Inside
    <3>2. FailTurn(nextTurn, nextStep, Append(events, Ev("step/end", turn)), turn)
      BY <1>6, <2>3 DEF ModelThrows
    <3>. HIDE DEF own
    <3>3. InStep(nextStep, own, turn)
      BY <1>0, <2>1, <3>1, <3>2, FailTurnEnds DEF InStep, GoesOn
    <3>. QED
      BY <1>0, <3>1, <3>3 DEF DriverStep
  <2>. QED
    BY <2>2, <2>3
<1>7. ASSUME NEW concludes \in BOOLEAN, NEW context \in BOOLEAN,
             NEW bad \in 0 .. MaxCalls, ToolReturns(concludes, context, bad)
      PROVE  DriverStep
  <2>. DEFINE t  == [turn EXCEPT !.concludes = @ \/ concludes]
              m  == [id |-> sent + 1, via |-> "inject"]
              ns == IF context THEN Append(nextStep, m) ELSE nextStep
              e == Ev("tool/result", t)
              own == <<e>>
  <2>1. t \in Turn /\ SameTurn(t) /\ t.calls = turn.calls
    BY <1>0 DEF Turn, SameTurn
  <2>2. pc = "tools" /\ Took(ns)
    BY <1>7 DEF ToolReturns, Took
  <2>3. ns \in Seq(Msg)
    <3>1. context => m \in Msg
      BY <1>0, <1>7, BoundsAssumption DEF ToolReturns, Msg, Via
    <3>. QED
      BY <1>0, <3>1
  <2>4. bad < t.calls /\ RunCalls(ns, Append(events, e), t, t.calls - 1, bad)
    BY <1>7 DEF ToolReturns
  <2>5. t.calls - 1 \in Nat /\ bad \in Nat /\ bad <= t.calls - 1
    BY <1>0, <2>1, <2>4, BoundsAssumption
  <2>. HIDE DEF t, ns
  <2>6. e \in Event
    BY <2>1, EvType DEF EventType
  <2>7. own \in Seq(Event) /\ Inside(own)
    BY <1>0, <2>1, OneInside DEF Within
  <2>. HIDE DEF e
  <2>8. Append(events, e) = events \o own
    BY <1>0, <2>6
  <2>. HIDE DEF own
  <2>. QED
    BY <1>0, <2>1, <2>2, <2>3, <2>4, <2>5, <2>7, <2>8, RunCallsInStep
<1>8. CASE ToolThrows
  <2>. DEFINE own == <<>>
  <2>1. own \in Seq(Event) /\ Inside(own) /\ events = events \o own
    BY <1>0 DEF Inside
  <2>2. /\ FailTurn(nextTurn, nextStep, Append(events, Ev("step/end", turn)), turn)
        /\ pc = "tools" /\ Took(nextStep)
    BY <1>8 DEF ToolThrows, Took
  <2>. HIDE DEF own
  <2>3. InStep(nextStep, own, turn)
    BY <1>0, <2>1, <2>2, FailTurnEnds DEF InStep, GoesOn
  <2>. QED
    BY <1>0, <2>1, <2>3 DEF DriverStep
<1>9. CASE Stopped
  <2>1. CASE nextStep = <<>>
    <3>1. BetweenSteps(turn)
      BY <1>0, <1>9, <2>1 DEF Stopped, BetweenSteps
    <3>. QED
      BY <1>0, <3>1 DEF DriverStep
  <2>2. CASE nextStep # <<>>
    <3>. DEFINE t == [turn EXCEPT !.closed = FALSE]
    <3>1. t \in Turn /\ SameTurn(t) /\ ~t.closed
      BY <1>0 DEF Turn, SameTurn
    <3>2. NextRound(nextTurn, nextStep, events, t) /\ pc = "stopping" /\ sent' = sent
      BY <1>9, <2>2 DEF Stopped
    <3>. HIDE DEF t
    <3>3. BetweenSteps(t)
      BY <3>1, <3>2 DEF BetweenSteps, NextRound
    <3>. QED
      BY <3>1, <3>3 DEF DriverStep
  <2>. QED
    BY <2>1, <2>2
<1>. QED
  BY <1>2, <1>3, <1>4, <1>5, <1>6, <1>7, <1>8, <1>9 DEF Driver

-----------------------------------------------------------------------------
(* What is on disk.                                                         *)

Prefix(s, log) == Len(s) <= Len(log) /\ \A i \in 1 .. Len(s) : s[i] = log[i]

\* The inductive invariant: whatever is or may come to disk is a prefix of the
\* log, since nothing is ever taken out of it; and once a driver has stopped,
\* the log as it is is on disk, or in a flush under way, or a flush failed.
DurableInv ==
  /\ \A s \in flushes \cup {disk} : Prefix(s.events, events)
  /\ ~Driving => \/ disk.events = events
                 \/ \E f \in flushes : f.events = events
                 \/ flushFailed

\* What a step leaves of the log: more of it, and a flush of all of it when
\* the driver stops.
LogGrows ==
  /\ Prefix(events, events')
  /\ flushes \subseteq flushes'
  /\ \A f \in flushes' \ flushes : f.events = events'
  /\ ~Driving' => \E f \in flushes' : f.events = events'

LEMMA PrefixItself == \A log \in Seq(Event) : Prefix(log, log)
BY DEF Prefix

LEMMA PrefixTransitive ==
  ASSUME NEW a \in Seq(Event), NEW b \in Seq(Event), NEW c \in Seq(Event),
         Prefix(a, b), Prefix(b, c)
  PROVE  Prefix(a, c)
<1>1. Len(a) \in Nat /\ Len(b) \in Nat /\ Len(c) \in Nat
  OBVIOUS
<1>. QED
  BY <1>1 DEF Prefix

LEMMA PrefixConcat ==
  ASSUME NEW a \in Seq(Event), NEW log \in Seq(Event), NEW s \in Seq(Event),
         Prefix(a, log)
  PROVE  log \o s \in Seq(Event) /\ Prefix(a, log \o s)
<1>1. Len(a) \in Nat /\ Len(log) \in Nat /\ Len(s) \in Nat
  OBVIOUS
<1>2. /\ log \o s \in Seq(Event) /\ Len(log \o s) = Len(log) + Len(s)
      /\ \A i \in 1 .. Len(log) : (log \o s)[i] = log[i]
  OBVIOUS
<1>. QED
  BY <1>1, <1>2 DEF Prefix

LEMMA PrefixAppend ==
  ASSUME NEW a \in Seq(Event), NEW log \in Seq(Event), NEW e \in Event,
         Prefix(a, log)
  PROVE  Append(log, e) \in Seq(Event) /\ Prefix(a, Append(log, e))
<1>1. Len(a) \in Nat /\ Len(log) \in Nat
  OBVIOUS
<1>2. /\ Append(log, e) \in Seq(Event) /\ Len(Append(log, e)) = Len(log) + 1
      /\ \A i \in 1 .. Len(log) : Append(log, e)[i] = log[i]
  OBVIOUS
<1>. QED
  BY <1>1, <1>2 DEF Prefix

LEMMA PrefixOfEqualLength ==
  ASSUME NEW a \in Seq(Event), NEW log \in Seq(Event),
         Prefix(a, log), Len(a) >= Len(log)
  PROVE  a = log
<1>1. Len(a) = Len(log)
  BY DEF Prefix
<1>. QED
  BY <1>1, SeqEqual DEF Prefix

LEMMA BeginStepGrows ==
  ASSUME NEW nt, NEW ns, NEW log \in Seq(Event), NEW t, Prefix(events, log),
         BeginStep(nt, ns, log, t)
  PROVE  LogGrows
<1>1. events' = log /\ flushes' = flushes /\ Driving'
  BY DEF BeginStep, Driving
<1>. QED
  BY <1>1 DEF LogGrows

LEMMA OpenTurnGrows ==
  ASSUME events \in Seq(Event), NEW nt, NEW ns, NEW log \in Seq(Event), NEW n \in Nat,
         Prefix(events, log), OpenTurn(nt, ns, log, n)
  PROVE  LogGrows
<1>. DEFINE e == Ev("turn/start", FreshTurn(n + 1))
<1>1. e \in Event
  BY FreshTurnType, EvType DEF EventType
<1>2. BeginStep(nt, ns, Append(log, e), FreshTurn(n + 1))
  BY DEF OpenTurn
<1>. HIDE DEF e
<1>3. Append(log, e) \in Seq(Event) /\ Prefix(events, Append(log, e))
  BY <1>1, PrefixAppend
<1>. QED
  BY <1>2, <1>3, BeginStepGrows

LEMMA EndTurnGrows ==
  ASSUME events \in Seq(Event), NEW nt, NEW ns, NEW log \in Seq(Event),
         NEW t \in Turn, NEW r \in Reason,
         Prefix(events, log), EndTurn(nt, ns, log, t, r)
  PROVE  LogGrows
<1>. DEFINE e == TurnEnd(t, r)
            log2 == Append(log, e)
<1>1. e \in Event /\ t.seq \in Nat
  BY TurnEndType DEF Turn
<1>. HIDE DEF e
<1>2. log2 \in Seq(Event) /\ Prefix(events, log2)
  BY <1>1, PrefixAppend
<1>3. CASE HasPending(nt, ns)
  <2>1. OpenTurn(nt, ns, log2, t.seq)
    BY <1>3 DEF EndTurn, e
  <2>. HIDE DEF log2
  <2>. QED
    BY <1>1, <1>2, <2>1, OpenTurnGrows
<1>4. CASE ~HasPending(nt, ns)
  <2>1. events' = log2 /\ flushes' = flushes \cup FlushAtEnd(log2, nt, ns)
    BY <1>4 DEF EndTurn, e
  <2>. HIDE DEF log2
  <2>2. FlushAtEnd(log2, nt, ns) # {} /\ \A f \in FlushAtEnd(log2, nt, ns) : f.events = log2
    BY DEF FlushAtEnd
  <2>. QED
    BY <1>2, <2>1, <2>2 DEF LogGrows
<1>. QED
  BY <1>3, <1>4

LEMMA DriverGrows ==
  ASSUME TypeOK, Driver
  PROVE  LogGrows
<1>1. events \in Seq(Event) /\ turn \in Turn /\ turn.claimed \in Seq(Msg)
      /\ turn.reason \in Reason
  BY DEF TypeOK, Turn
<1>2. Prefix(events, events)
  BY <1>1, PrefixItself
<1>3. CASE Assembled /\ ~Aborted(turn)
  BY <1>2, <1>3 DEF Assembled, LogGrows, Driving
<1>4. CASE Enter
  <2>. DEFINE log == Append(events, Ev("step/start", turn))
              msgs == [i \in 1 .. Len(turn.claimed) |->
                         UserMessage(turn, turn.claimed[i])]
  <2>1. msgs \in Seq(Event)
    <3>1. \A i \in 1 .. Len(turn.claimed) : msgs[i] \in Event
      BY <1>1, UserMessageType
    <3>2. msgs \in [1 .. Len(turn.claimed) -> Event]
      BY <3>1
    <3>3. Len(turn.claimed) \in Nat
      BY <1>1
    <3>. QED
      BY <3>2, <3>3
  <2>2. log \in Seq(Event) /\ Prefix(events, log)
    BY <1>1, <1>2, EvType, PrefixAppend DEF EventType
  <2>3. events' = log \o msgs /\ flushes' = flushes /\ Driving'
    BY <1>4 DEF Enter, Driving
  <2>. HIDE DEF log, msgs
  <2>4. Prefix(events, log \o msgs)
    BY <1>1, <2>1, <2>2, PrefixConcat
  <2>. QED
    BY <2>3, <2>4 DEF LogGrows
<1>5. CASE Reject
  BY <1>2, <1>5 DEF Reject, LogGrows, Driving
<1>6. ASSUME NEW t \in Turn, BetweenSteps(t)
      PROVE  LogGrows
  <2>1. \/ \E r \in Reason : EndTurn(nextTurn, nextStep, events, t, r)
        \/ BeginStep(nextTurn, nextStep, events, t)
    BY <1>1, <1>6 DEF BetweenSteps, Reason
  <2>. QED
    BY <1>1, <1>2, <2>1, EndTurnGrows, BeginStepGrows
<1>7. ASSUME NEW ns \in Seq(Msg), NEW ext \in Seq(Event), NEW t \in Turn,
             InStep(ns, ext, t)
      PROVE  LogGrows
  <2>. DEFINE log == events \o ext
              log2 == Append(log, Ev("step/end", turn))
  <2>1. log \in Seq(Event) /\ Prefix(events, log)
    BY <1>1, <1>2, PrefixConcat
  <2>2. CASE Waits(ns, log, t, "tools")
    BY <2>1, <2>2 DEF Waits, LogGrows, Driving
  <2>. HIDE DEF log
  <2>3. log2 \in Seq(Event) /\ Prefix(events, log2)
    BY <1>1, <2>1, EvType, PrefixAppend DEF EventType
  <2>. HIDE DEF log2
  <2>4. CASE GoesOn(ns, log2, t)
    <3>1. \/ \E r \in Reason : EndTurn(nextTurn, ns, log2, t, r)
          \/ BeginStep(nextTurn, ns, log2, t)
          \/ Waits(ns, log2, t, "stopping")
      BY <2>4 DEF GoesOn, Reason
    <3>2. CASE Waits(ns, log2, t, "stopping")
      BY <2>3, <3>2 DEF Waits, LogGrows, Driving
    <3>. QED
      BY <1>1, <2>3, <3>1, <3>2, EndTurnGrows, BeginStepGrows
  <2>. QED
    BY <1>7, <2>2, <2>4 DEF InStep, log, log2
<1>. QED
  BY <1>3, <1>4, <1>5, <1>6, <1>7, DriverSteps DEF DriverStep

\* A message that wakes no driver leaves the log, the driver and the flushes.
LEMMA SendGrows ==
  ASSUME TypeOK, NEW via \in Via, Send(via)
  PROVE  \/ LogGrows /\ Driving'
         \/ UNCHANGED <<events, pc, flushes>>
<1>1. CASE via # "inject" /\ ~Driving
  <2>1. PICK nt, ns : OpenTurn(nt, ns, events, turn.seq)
    BY <1>1 DEF Send
  <2>2. events \in Seq(Event) /\ turn.seq \in Nat /\ Prefix(events, events)
    BY PrefixItself DEF TypeOK, Turn
  <2>3. Driving'
    BY <2>1 DEF OpenTurn, BeginStep, Driving
  <2>. QED
    BY <2>1, <2>2, <2>3, OpenTurnGrows
<1>2. CASE ~(via # "inject" /\ ~Driving)
  BY <1>2 DEF Send
<1>. QED
  BY <1>1, <1>2

\* A longer log keeps what may come to disk a prefix of it.
LEMMA GrowthKeepsPrefixes ==
  ASSUME TypeOK, TypeOK', DurableInv, LogGrows, disk' = disk
  PROVE  DurableInv'
<1>1. events \in Seq(Event) /\ events' \in Seq(Event)
  BY DEF TypeOK
<1>2. ASSUME NEW s \in flushes' \cup {disk'}
      PROVE  Prefix(s.events, events')
  <2>1. s.events \in Seq(Event)
    BY DEF TypeOK, Saved
  <2>2. CASE s \in flushes \cup {disk}
    <3>1. Prefix(s.events, events) /\ Prefix(events, events')
      BY <2>2 DEF DurableInv, LogGrows
    <3>. QED
      BY <1>1, <2>1, <3>1, PrefixTransitive
  <2>3. CASE s \notin flushes \cup {disk}
    <3>1. s.events = events'
      BY <2>3 DEF LogGrows
    <3>. QED
      BY <1>1, <3>1, PrefixItself
  <2>. QED
    BY <2>2, <2>3
<1>3. ~Driving' => \E f \in flushes' : f.events = events'
  BY DEF LogGrows
<1>. QED
  BY <1>2, <1>3 DEF DurableInv

LEMMA NextDurable ==
  ASSUME TypeOK, TypeOK', DurableInv, [Next]_vars
  PROVE  DurableInv'
<1>1. CASE Driver
  BY <1>1, DriverGrows, DriverSteps, GrowthKeepsPrefixes
<1>2. ASSUME NEW via \in Via, Send(via)
      PROVE  DurableInv'
  <2>1. disk' = disk /\ flushFailed' = flushFailed
    BY <1>2 DEF Send
  <2>2. CASE UNCHANGED <<events, pc, flushes>>
    BY <2>1, <2>2 DEF DurableInv, Driving
  <2>. QED
    BY <1>2, <2>1, <2>2, SendGrows, GrowthKeepsPrefixes
<1>3. CASE Cancel \/ Dispose \/ TornDown
  BY <1>3 DEF Cancel, Dispose, TornDown, DurableInv, Driving
<1>4. ASSUME NEW f \in flushes, NEW ok \in BOOLEAN, FlushSettles(f, ok)
      PROVE  DurableInv'
  <2>1. /\ UNCHANGED <<events, pc>> /\ flushes' = flushes \ {f}
        /\ disk' = IF ok /\ Len(f.events) >= Len(disk.events) THEN f ELSE disk
        /\ flushFailed' = (flushFailed \/ ~ok)
    BY <1>4 DEF FlushSettles
  <2>2. /\ events \in Seq(Event) /\ disk.events \in Seq(Event)
        /\ f.events \in Seq(Event)
    BY DEF TypeOK, Saved
  <2>3. /\ Prefix(f.events, events) /\ Prefix(disk.events, events)
    BY DEF DurableInv
  <2>4. \A s \in flushes' \cup {disk'} : Prefix(s.events, events')
    BY <2>1 DEF DurableInv
  <2>5. ASSUME ~Driving', ok, ~flushFailed
        PROVE  disk'.events = events' \/ \E g \in flushes' : g.events = events'
    <3>1. disk.events = events \/ \E g \in flushes : g.events = events
      BY <2>1, <2>5 DEF DurableInv, Driving
    <3>2. CASE disk.events = events
      <4>1. CASE Len(f.events) >= Len(disk.events)
        BY <2>1, <2>2, <2>3, <2>5, <3>2, <4>1, PrefixOfEqualLength
      <4>2. CASE ~(Len(f.events) >= Len(disk.events))
        BY <2>1, <3>2, <4>2
      <4>. QED
        BY <4>1, <4>2
    <3>3. ASSUME NEW g \in flushes, g.events = events
          PROVE  disk'.events = events' \/ \E h \in flushes' : h.events = events'
      <4>1. CASE g = f
        <5>1. Len(f.events) >= Len(disk.events)
          BY <2>2, <2>3, <3>3, <4>1 DEF Prefix
        <5>. QED
          BY <2>1, <2>5, <3>3, <4>1, <5>1
      <4>2. CASE g # f
        BY <2>1, <3>3, <4>2
      <4>. QED
        BY <4>1, <4>2
    <3>. QED
      BY <3>1, <3>2, <3>3
  <2>. QED
    BY <2>1, <2>4, <2>5 DEF DurableInv
<1>5. CASE Checkpoint
  <2>1. UNCHANGED <<events, pc, flushes, flushFailed>> /\ disk'.events = events /\ Driving
    BY <1>5 DEF Checkpoint, Driving
  <2>2. Prefix(events, events)
    BY PrefixItself DEF TypeOK
  <2>. QED
    BY <2>1, <2>2 DEF DurableInv, Driving
<1>6. CASE CrashAndResume
  <2>1. disk' = disk /\ events' = disk.events /\ flushes' = {}
    BY <1>6 DEF CrashAndResume
  <2>2. Prefix(disk.events, disk.events)
    BY PrefixItself DEF TypeOK, Saved
  <2>. QED
    BY <2>1, <2>2 DEF DurableInv
<1>7. CASE UNCHANGED vars
  BY <1>7 DEF vars, DurableInv, Driving
<1>. QED
  BY <1>1, <1>2, <1>3, <1>4, <1>5, <1>6, <1>7 DEF Next, Settle

\* What is on disk is never anything but a beginning of the log.
LEMMA DurableAlways == Spec => []DurableInv
<1>1. Init => DurableInv
  BY DEF Init, DurableInv, Prefix
<1>2. TypeOK /\ TypeOK' /\ DurableInv /\ [Next]_vars => DurableInv'
  BY NextDurable
<1>. QED
  BY <1>1, <1>2, TypeCorrect, PTL DEF Spec

\* The inbox of an idle agent: what a resume found on disk, and what was
\* injected since.  A driver stops with an empty inbox, so while the flush it
\* has started is under way there is nothing but what was injected.
InboxInv ==
  ~Driving =>
    /\ \A m \in Queued : m.via = "inject" \/ m \in OnDisk
    /\ flushes # {} => \A m \in Queued : m.via = "inject"

\* The queue a message is appended to.
LEMMA ElementsOfAppend ==
  ASSUME NEW q \in Seq(Msg), NEW m \in Msg
  PROVE  Elements(Append(q, m)) = Elements(q) \cup {m}
<1>1. /\ DOMAIN Append(q, m) = DOMAIN q \cup {Len(q) + 1}
      /\ Append(q, m)[Len(q) + 1] = m
      /\ \A i \in DOMAIN q : Append(q, m)[i] = q[i] /\ i # Len(q) + 1
  OBVIOUS
<1>. QED
  BY <1>1 DEF Elements

LEMMA NextInbox ==
  ASSUME TypeOK, InboxInv, [Next]_vars
  PROVE  InboxInv'
<1>1. CASE Driver
  <2>1. ~Driving' => Queued' = {}
    BY <1>1, DriverStops DEF StopsCleanly, inbox, Queued, Elements
  <2>. QED
    BY <2>1 DEF InboxInv
<1>2. ASSUME NEW via \in Via, Send(via)
      PROVE  InboxInv'
  <2>1. CASE via # "inject" /\ ~Driving
    BY <1>2, <2>1, BeginStepGoesOn DEF Send, OpenTurn, InboxInv
  <2>2. CASE Driving /\ ~(via # "inject" /\ ~Driving)
    BY <1>2, <2>2 DEF Send, InboxInv, Driving
  <2>3. CASE via = "inject" /\ ~Driving
    <3>. DEFINE m == [id |-> sent + 1, via |-> via]
    <3>1. /\ nextTurn' = nextTurn /\ nextStep' = Append(nextStep, m)
          /\ UNCHANGED <<pc, flushes, disk>>
      BY <1>2, <2>3 DEF Send, Enqueue
    <3>2. m \in Msg /\ nextStep \in Seq(Msg)
      <4>1. sent \in 0 .. MaxMsgs /\ sent < MaxMsgs /\ nextStep \in Seq(Msg)
        BY <1>2 DEF Send, TypeOK
      <4>2. sent + 1 \in 1 .. MaxMsgs
        BY <4>1, BoundsAssumption
      <4>. QED
        BY <4>1, <4>2 DEF Msg
    <3>3. Elements(nextStep') = Elements(nextStep) \cup {m}
      BY <3>1, <3>2, ElementsOfAppend
    <3>4. Queued' = Queued \cup {m} /\ OnDisk' = OnDisk
      BY <3>1, <3>3 DEF Queued, OnDisk
    <3>5. m.via = "inject"
      BY <2>3
    <3>. QED
      BY <3>1, <3>4, <3>5 DEF InboxInv, Driving
  <2>. QED
    BY <2>1, <2>2, <2>3
<1>3. CASE Cancel
  <2>1. Queued' = {}
    BY <1>3 DEF Cancel, Queued, Elements
  <2>. QED
    BY <2>1 DEF InboxInv
<1>4. CASE Dispose \/ TornDown
  BY <1>4 DEF Dispose, TornDown, InboxInv, Driving, Queued, OnDisk
<1>5. ASSUME NEW f \in flushes, NEW ok \in BOOLEAN, FlushSettles(f, ok)
      PROVE  InboxInv'
  <2>1. UNCHANGED <<pc, nextTurn, nextStep>> /\ flushes # {}
    BY <1>5 DEF FlushSettles
  <2>2. Queued' = Queued /\ Driving' = Driving
    BY <2>1 DEF Queued, Driving
  <2>. QED
    BY <2>1, <2>2 DEF InboxInv
<1>6. CASE Checkpoint
  BY <1>6 DEF Checkpoint, InboxInv, Driving
<1>7. CASE CrashAndResume
  <2>1. Queued' = OnDisk' /\ flushes' = {}
    BY <1>7 DEF CrashAndResume, Queued, OnDisk
  <2>. QED
    BY <2>1 DEF InboxInv
<1>8. CASE UNCHANGED vars
  BY <1>8 DEF vars, InboxInv, Driving, Queued, OnDisk
<1>. QED
  BY <1>1, <1>2, <1>3, <1>4, <1>5, <1>6, <1>7, <1>8 DEF Next, Settle

LEMMA InboxAlways == Spec => []InboxInv
<1>1. Init => InboxInv
  BY DEF Init, InboxInv, Queued, Elements
<1>2. TypeOK /\ InboxInv /\ [Next]_vars => InboxInv'
  BY NextInbox
<1>. QED
  BY <1>1, <1>2, TypeCorrect, PTL DEF Spec

\* When the agent is idle, no flush is under way and none has failed, the
\* whole log is on disk, and of the inbox everything but what was injected
\* while it was idle, whichever order the flushes of earlier turns settled in
\* and however often the process was killed before.
THEOREM SettledDurably == Spec => []SettledIsDurable
<1>1. DurableInv /\ InboxInv => SettledIsDurable
  BY DEF DurableInv, InboxInv, SettledIsDurable
<1>. QED
  BY <1>1, DurableAlways, InboxAlways, PTL

-----------------------------------------------------------------------------
(* Turns and steps as brackets in the log.                                  *)

\* Whether an event may follow another; killed: a kill may have cut the log.
Follows(before, type, killed) ==
  CASE type = "turn/start" -> before = "turn/end" \/ killed
    [] type \in {"turn/end", "step/start"} -> before \in {"turn/start", "step/end"}
    [] OTHER -> before \notin {"turn/start", "turn/end", "step/end"}

Bracketed(log, killed) ==
  \A i \in 2 .. Len(log) : Follows(log[i - 1].type, log[i].type, killed)

Boundary == {"turn/start", "turn/end", "step/end"}
LastType(log) == log[Len(log)].type

\* How the log ends while the driver waits at await.
EndsAt(log, await, killed) ==
  /\ await \in {"assemble", "prestep", "stopping"} =>
       log # <<>> /\ LastType(log) \in {"turn/start", "step/end"}
  /\ await \in {"request", "tools"} => log # <<>> /\ LastType(log) \notin Boundary
  /\ await = "idle" => log = <<>> \/ LastType(log) = "turn/end" \/ killed

\* The inductive invariant: the log, what is on disk and what is being written
\* are bracketed, and the await of the driver tells how the log ends.
BracketInv ==
  /\ Bracketed(events, crashes > 0)
  /\ EndsAt(events, pc, crashes > 0)
  /\ Bracketed(disk.events, crashes > 0)
  /\ \A f \in flushes : Bracketed(f.events, crashes > 0)

\* The part of it a step of the driver sets.
BracketStepInv ==
  /\ Bracketed(events, crashes > 0)
  /\ EndsAt(events, pc, crashes > 0)
  /\ \A f \in flushes : Bracketed(f.events, crashes > 0)

FlushesBracketed == \A f \in flushes : Bracketed(f.events, crashes > 0)

LEMMA FollowsCases ==
  ASSUME NEW before, NEW killed
  PROVE  /\ Follows(before, "turn/start", killed) <=> before = "turn/end" \/ killed
         /\ Follows(before, "turn/end", killed) <=> before \in {"turn/start", "step/end"}
         /\ Follows(before, "step/start", killed) <=> before \in {"turn/start", "step/end"}
         /\ \A type \in Within \cup {"user/message", "step/end"} :
              Follows(before, type, killed) <=> before \notin Boundary
BY DEF Follows, Within, Boundary

LEMMA BracketedAppend ==
  ASSUME NEW log \in Seq(Event), NEW e \in Event, NEW killed \in BOOLEAN,
         Bracketed(log, killed),
         log # <<>> => Follows(LastType(log), e.type, killed)
  PROVE  /\ Append(log, e) \in Seq(Event) /\ Append(log, e) # <<>>
         /\ Bracketed(Append(log, e), killed)
         /\ LastType(Append(log, e)) = e.type
<1>. DEFINE log2 == Append(log, e)
<1>1. /\ log2 \in Seq(Event) /\ Len(log) \in Nat /\ Len(log2) = Len(log) + 1
      /\ \A i \in 1 .. Len(log) : log2[i] = log[i]
      /\ log2[Len(log) + 1] = e
  OBVIOUS
<1>2. log2 # <<>>
  BY <1>1
<1>. HIDE DEF log2
<1>3. ASSUME NEW i \in 2 .. Len(log2)
      PROVE  Follows(log2[i - 1].type, log2[i].type, killed)
  <2>1. CASE i \in 2 .. Len(log)
    BY <1>1, <2>1 DEF Bracketed
  <2>2. CASE i = Len(log) + 1
    <3>1. log # <<>> /\ log2[i - 1] = log[Len(log)] /\ log2[i] = e
      BY <1>1, <2>2
    <3>. QED
      BY <3>1 DEF LastType
  <2>. QED
    BY <1>1, <2>1, <2>2
<1>. QED
  BY <1>1, <1>2, <1>3 DEF Bracketed, LastType, log2

\* Events that belong inside a step may follow one another there.
LEMMA BracketedConcat ==
  ASSUME NEW log \in Seq(Event), NEW ext \in Seq(Event), NEW killed \in BOOLEAN,
         Bracketed(log, killed), log # <<>>, LastType(log) \notin Boundary,
         \A i \in 1 .. Len(ext) : ext[i].type \in Within \cup {"user/message"}
  PROVE  /\ log \o ext \in Seq(Event) /\ log \o ext # <<>>
         /\ Bracketed(log \o ext, killed)
         /\ LastType(log \o ext) \notin Boundary
<1>. DEFINE c == log \o ext
<1>1. /\ c \in Seq(Event) /\ Len(c) = Len(log) + Len(ext)
      /\ Len(log) \in Nat /\ Len(ext) \in Nat
      /\ \A i \in 1 .. Len(log) : c[i] = log[i]
      /\ \A i \in 1 .. Len(c) : i > Len(log) =>
           i - Len(log) \in 1 .. Len(ext) /\ c[i] = ext[i - Len(log)]
  OBVIOUS
<1>2. Len(log) > 0
  BY <1>1
<1>. HIDE DEF c
<1>3. ASSUME NEW i \in 1 .. Len(c), i >= Len(log)
      PROVE  c[i].type \notin Boundary
  <2>1. CASE i = Len(log)
    BY <1>1, <1>2, <2>1 DEF LastType
  <2>2. CASE i > Len(log)
    <3>1. i - Len(log) \in 1 .. Len(ext) /\ c[i] = ext[i - Len(log)]
      BY <1>1, <2>2
    <3>. QED
      BY <3>1 DEF Within, Boundary
  <2>. QED
    BY <1>1, <1>3, <2>1, <2>2
<1>4. ASSUME NEW i \in 2 .. Len(c)
      PROVE  Follows(c[i - 1].type, c[i].type, killed)
  <2>1. CASE i <= Len(log)
    <3>1. i \in 2 .. Len(log) /\ c[i - 1] = log[i - 1] /\ c[i] = log[i]
      BY <1>1, <2>1
    <3>. QED
      BY <3>1 DEF Bracketed
  <2>2. CASE i > Len(log)
    <3>1. c[i - 1].type \notin Boundary
      BY <1>1, <1>2, <1>3, <2>2
    <3>2. i - Len(log) \in 1 .. Len(ext) /\ c[i] = ext[i - Len(log)]
      BY <1>1, <2>2
    <3>. QED
      BY <3>1, <3>2, FollowsCases
  <2>. QED
    BY <1>1, <2>1, <2>2
<1>5. c # <<>> /\ LastType(c) \notin Boundary
  BY <1>1, <1>2, <1>3 DEF LastType
<1>. QED
  BY <1>1, <1>4, <1>5 DEF Bracketed, c

LEMMA BeginStepBrackets ==
  ASSUME FlushesBracketed, crashes' = crashes, NEW nt, NEW ns, NEW log \in Seq(Event), NEW t,
         Bracketed(log, crashes > 0),
         log # <<>>, LastType(log) \in {"turn/start", "step/end"},
         BeginStep(nt, ns, log, t)
  PROVE  BracketStepInv'
<1>1. events' = log /\ flushes' = flushes /\ pc' = "assemble"
  BY DEF BeginStep
<1>. QED
  BY <1>1 DEF BracketStepInv, FlushesBracketed, EndsAt

LEMMA OpenTurnBrackets ==
  ASSUME FlushesBracketed, crashes' = crashes, NEW nt, NEW ns,
         NEW log \in Seq(Event), NEW n \in Nat,
         Bracketed(log, crashes > 0), EndsAt(log, "idle", crashes > 0),
         OpenTurn(nt, ns, log, n)
  PROVE  BracketStepInv'
<1>. DEFINE t == FreshTurn(n + 1)
            e == Ev("turn/start", t)
            killed == crashes > 0
<1>1. e \in Event /\ e.type = "turn/start"
  BY FreshTurnType, EvTurn DEF EventType
<1>2. BeginStep(nt, ns, Append(log, e), t)
  BY DEF OpenTurn
<1>. HIDE DEF e, t
<1>3. log # <<>> => Follows(LastType(log), e.type, crashes > 0)
  BY <1>1, FollowsCases DEF EndsAt
<1>4. killed \in BOOLEAN /\ Bracketed(log, killed)
      /\ (log # <<>> => Follows(LastType(log), e.type, killed))
  BY <1>3
<1>. HIDE DEF killed
<1>5. /\ Append(log, e) \in Seq(Event) /\ Append(log, e) # <<>>
      /\ Bracketed(Append(log, e), killed) /\ LastType(Append(log, e)) = "turn/start"
  BY <1>1, <1>4, BracketedAppend
<1>. QED
  BY <1>2, <1>5, BeginStepBrackets DEF killed

LEMMA EndTurnBrackets ==
  ASSUME FlushesBracketed, crashes' = crashes, NEW nt, NEW ns,
         NEW log \in Seq(Event), NEW t \in Turn, NEW r \in Reason,
         Bracketed(log, crashes > 0),
         log # <<>>, LastType(log) \in {"turn/start", "step/end"},
         EndTurn(nt, ns, log, t, r)
  PROVE  BracketStepInv'
<1>. DEFINE e == TurnEnd(t, r)
            log2 == Append(log, e)
            killed == crashes > 0
<1>1. e \in Event /\ e.type = "turn/end" /\ t.seq \in Nat
  BY TurnEndType DEF Turn, TurnEnd, Ev
<1>2. killed \in BOOLEAN /\ Bracketed(log, killed)
  OBVIOUS
<1>. HIDE DEF e, killed
<1>3. /\ log2 \in Seq(Event) /\ Bracketed(log2, killed) /\ LastType(log2) = "turn/end"
  BY <1>1, <1>2, BracketedAppend, FollowsCases
<1>4. CASE HasPending(nt, ns)
  <2>1. OpenTurn(nt, ns, log2, t.seq)
    BY <1>4 DEF EndTurn, e
  <2>. HIDE DEF log2
  <2>. QED
    BY <1>1, <1>3, <2>1, OpenTurnBrackets DEF EndsAt, killed
<1>5. CASE ~HasPending(nt, ns)
  <2>1. /\ events' = log2 /\ pc' = "idle"
        /\ flushes' = flushes \cup FlushAtEnd(log2, nt, ns)
    BY <1>5 DEF EndTurn, e
  <2>. HIDE DEF log2
  <2>2. \A f \in FlushAtEnd(log2, nt, ns) : f.events = log2
    BY DEF FlushAtEnd
  <2>. QED
    BY <1>3, <2>1, <2>2 DEF BracketStepInv, FlushesBracketed, EndsAt, killed
<1>. QED
  BY <1>4, <1>5

LEMMA DriverBrackets ==
  ASSUME TypeOK, BracketInv, Driver
  PROVE  BracketInv'
<1>. DEFINE killed == crashes > 0
<1>1. events \in Seq(Event) /\ turn \in Turn /\ turn.claimed \in Seq(Msg)
      /\ turn.reason \in Reason /\ killed \in BOOLEAN
  BY DEF TypeOK, Turn
<1>2. DriverStep /\ disk' = disk /\ crashes' = crashes
  BY DriverSteps
<1>3. /\ FlushesBracketed /\ Bracketed(events, killed)
      /\ EndsAt(events, pc, killed)
  BY DEF BracketInv, FlushesBracketed
<1>. SUFFICES BracketStepInv'
  BY <1>2 DEF BracketInv, BracketStepInv
<1>. HIDE DEF killed
<1>4. CASE Assembled /\ ~Aborted(turn)
  BY <1>2, <1>3, <1>4 DEF Assembled, BracketStepInv, FlushesBracketed, EndsAt, killed
<1>5. CASE Enter
  <2>. DEFINE e == Ev("step/start", turn)
              log == Append(events, e)
              msgs == [i \in 1 .. Len(turn.claimed) |->
                         UserMessage(turn, turn.claimed[i])]
  <2>1. msgs \in Seq(Event) /\ Len(msgs) = Len(turn.claimed)
    <3>1. \A i \in 1 .. Len(turn.claimed) : msgs[i] \in Event
      BY <1>1, UserMessageType
    <3>2. msgs \in [1 .. Len(turn.claimed) -> Event]
      BY <3>1
    <3>3. Len(turn.claimed) \in Nat
      BY <1>1
    <3>. QED
      BY <3>2, <3>3
  <2>2. \A i \in 1 .. Len(msgs) : msgs[i].type = "user/message"
    BY <2>1 DEF UserMessage, Ev
  <2>3. e \in Event /\ e.type = "step/start"
    BY <1>1, EvTurn DEF EventType
  <2>4. /\ events' = log \o msgs /\ flushes' = flushes /\ pc' = "request"
        /\ pc = "prestep"
    BY <1>5 DEF Enter
  <2>. HIDE DEF msgs, e
  <2>5. /\ log \in Seq(Event) /\ log # <<>> /\ Bracketed(log, killed)
        /\ LastType(log) = "step/start"
    BY <1>1, <1>3, <2>3, <2>4, BracketedAppend, FollowsCases DEF EndsAt
  <2>. HIDE DEF log
  <2>6. /\ log \o msgs # <<>> /\ Bracketed(log \o msgs, killed)
        /\ LastType(log \o msgs) \notin Boundary
    BY <1>1, <2>1, <2>2, <2>5, BracketedConcat DEF Boundary
  <2>. QED
    BY <1>2, <1>3, <2>4, <2>6 DEF BracketStepInv, FlushesBracketed, EndsAt, killed
<1>6. CASE Reject
  BY <1>2, <1>3, <1>6 DEF Reject, BracketStepInv, FlushesBracketed, EndsAt, killed
<1>7. ASSUME NEW t \in Turn, BetweenSteps(t)
      PROVE  BracketStepInv'
  <2>1. \/ \E r \in Reason : EndTurn(nextTurn, nextStep, events, t, r)
        \/ BeginStep(nextTurn, nextStep, events, t)
    BY <1>1, <1>7 DEF BetweenSteps, Reason
  <2>2. events # <<>> /\ LastType(events) \in {"turn/start", "step/end"}
    BY <1>3, <1>7 DEF BetweenSteps, EndsAt
  <2>. QED
    BY <1>1, <1>2, <1>3, <2>1, <2>2, EndTurnBrackets, BeginStepBrackets DEF killed
<1>8. ASSUME NEW ns \in Seq(Msg), NEW ext \in Seq(Event), NEW t \in Turn,
             InStep(ns, ext, t)
      PROVE  BracketStepInv'
  <2>. DEFINE log == events \o ext
              e == Ev("step/end", turn)
              log2 == Append(log, e)
  <2>1. events # <<>> /\ LastType(events) \notin Boundary
    BY <1>3, <1>8 DEF InStep, EndsAt
  <2>2. /\ log \in Seq(Event) /\ log # <<>> /\ Bracketed(log, killed)
        /\ LastType(log) \notin Boundary
    BY <1>1, <1>3, <1>8, <2>1, BracketedConcat DEF InStep, Inside
  <2>3. CASE Waits(ns, log, t, "tools")
    BY <1>2, <1>3, <2>2, <2>3 DEF Waits, BracketStepInv, FlushesBracketed, EndsAt, killed
  <2>. HIDE DEF log
  <2>4. e \in Event /\ e.type = "step/end"
    BY <1>1, EvTurn DEF EventType
  <2>. HIDE DEF e
  <2>5. /\ log2 \in Seq(Event) /\ log2 # <<>> /\ Bracketed(log2, killed)
        /\ LastType(log2) = "step/end"
    BY <1>1, <2>2, <2>4, BracketedAppend, FollowsCases
  <2>. HIDE DEF log2
  <2>6. CASE GoesOn(ns, log2, t)
    <3>1. \/ \E r \in Reason : EndTurn(nextTurn, ns, log2, t, r)
          \/ BeginStep(nextTurn, ns, log2, t)
          \/ Waits(ns, log2, t, "stopping")
      BY <2>6 DEF GoesOn, Reason
    <3>2. CASE Waits(ns, log2, t, "stopping")
      BY <1>2, <1>3, <2>5, <3>2 DEF Waits, BracketStepInv, FlushesBracketed, EndsAt, killed
    <3>. QED
      BY <1>2, <1>3, <2>5, <3>1, <3>2, EndTurnBrackets, BeginStepBrackets DEF killed
  <2>. QED
    BY <1>8, <2>3, <2>6 DEF InStep, log, log2, e
<1>. QED
  BY <1>2, <1>4, <1>5, <1>6, <1>7, <1>8 DEF DriverStep

LEMMA SendBrackets ==
  ASSUME TypeOK, BracketInv, NEW via \in Via, Send(via)
  PROVE  BracketInv'
<1>1. disk' = disk /\ crashes' = crashes
  BY DEF Send
<1>2. CASE via # "inject" /\ ~Driving
  <2>1. PICK nt, ns : OpenTurn(nt, ns, events, turn.seq)
    BY <1>2 DEF Send
  <2>2. /\ FlushesBracketed /\ events \in Seq(Event) /\ turn.seq \in Nat
        /\ Bracketed(events, crashes > 0) /\ EndsAt(events, "idle", crashes > 0)
    BY <1>2 DEF BracketInv, FlushesBracketed, TypeOK, Turn, Driving
  <2>3. BracketStepInv'
    BY <1>1, <2>1, <2>2, OpenTurnBrackets
  <2>. QED
    BY <1>1, <2>3 DEF BracketInv, BracketStepInv
<1>3. CASE ~(via # "inject" /\ ~Driving)
  <2>1. UNCHANGED <<events, pc, turn, flushes>>
    BY <1>3 DEF Send
  <2>. QED
    BY <1>1, <2>1 DEF BracketInv
<1>. QED
  BY <1>2, <1>3

LEMMA NextBrackets ==
  ASSUME TypeOK, BracketInv, [Next]_vars
  PROVE  BracketInv'
<1>1. CASE Driver
  BY <1>1, DriverBrackets
<1>2. ASSUME NEW via \in Via, Send(via)
      PROVE  BracketInv'
  BY <1>2, SendBrackets
<1>3. CASE Cancel \/ Dispose \/ TornDown
  BY <1>3 DEF Cancel, Dispose, TornDown, BracketInv
<1>4. ASSUME NEW f \in flushes, NEW ok \in BOOLEAN, FlushSettles(f, ok)
      PROVE  BracketInv'
  <2>1. UNCHANGED <<events, pc, crashes>> /\ flushes' = flushes \ {f}
    BY <1>4 DEF FlushSettles
  <2>2. disk' = f \/ disk' = disk
    BY <1>4 DEF FlushSettles
  <2>. QED
    BY <2>1, <2>2 DEF BracketInv
<1>5. CASE Checkpoint
  BY <1>5 DEF Checkpoint, BracketInv
<1>6. CASE CrashAndResume
  <2>1. /\ events' = disk.events /\ disk' = disk /\ pc' = "idle" /\ flushes' = {}
        /\ crashes' > 0
    BY <1>6, BoundsAssumption DEF CrashAndResume, TypeOK
  <2>2. Bracketed(disk.events, TRUE)
    BY DEF BracketInv, Bracketed, Follows
  <2>. QED
    BY <2>1, <2>2 DEF BracketInv, EndsAt, Bracketed, Follows
<1>7. CASE UNCHANGED vars
  BY <1>7 DEF vars, BracketInv
<1>. QED
  BY <1>1, <1>2, <1>3, <1>4, <1>5, <1>6, <1>7 DEF Next, Settle

\* Whatever ends a step, an answer, a cancel, a throw of the model, of a tool
\* or of a hook, its step/end is logged before anything else of the turn, and
\* only a kill of the process leaves a step or a turn open.
THEOREM StepsAlwaysBracketed == Spec => []StepsBracketed
<1>1. Init => BracketInv
  BY DEF Init, BracketInv, Bracketed, EndsAt
<1>2. TypeOK /\ BracketInv /\ [Next]_vars => BracketInv'
  BY NextBrackets
<1>3. TypeOK /\ BracketInv => StepsBracketed
  <2>. SUFFICES ASSUME TypeOK, BracketInv
               PROVE  StepsBracketed
    OBVIOUS
  <2>1. DOMAIN events = 1 .. Len(events) /\ Len(events) \in Nat
    BY DEF TypeOK
  <2>2. \A i \in DOMAIN events \ {1} : i \in 2 .. Len(events)
    BY <2>1
  <2>. QED
    BY <2>2 DEF BracketInv, Bracketed, Follows, StepsBracketed
<1>. QED
  BY <1>1, <1>2, <1>3, TypeCorrect, PTL DEF Spec

-----------------------------------------------------------------------------
(* What a step of the driver does to the messages, and what it logs.        *)

\* Only a step being prepared holds claimed messages.
ClaimInv == pc \notin {"assemble", "prestep"} => turn.claimed = <<>>

LEMMA BeginStepClaims ==
  ASSUME NEW nt, NEW ns, NEW log, NEW t, BeginStep(nt, ns, log, t)
  PROVE  ClaimInv'
BY DEF BeginStep, ClaimInv

LEMMA EndTurnClaims ==
  ASSUME NEW nt, NEW ns, NEW log, NEW t, NEW r, EndTurn(nt, ns, log, t, r)
  PROVE  ClaimInv'
<1>1. CASE HasPending(nt, ns)
  BY <1>1, BeginStepClaims DEF EndTurn, OpenTurn
<1>2. CASE ~HasPending(nt, ns)
  BY <1>2 DEF EndTurn, FreshTurn, ClaimInv
<1>. QED
  BY <1>1, <1>2

LEMMA NextClaims ==
  ASSUME TypeOK, ClaimInv, [Next]_vars
  PROVE  ClaimInv'
<1>0. turn \in Turn
  BY DEF TypeOK
<1>1. CASE Driver
  <2>1. DriverStep
    BY <1>1, DriverSteps
  <2>2. CASE Assembled /\ ~Aborted(turn)
    BY <2>2 DEF Assembled, ClaimInv
  <2>3. CASE Enter
    <3>1. turn'.claimed = <<>>
      BY <1>0, <2>3 DEF Enter, Turn
    <3>. QED
      BY <3>1 DEF ClaimInv
  <2>4. CASE Reject
    <3>1. turn'.claimed = <<>>
      BY <1>0, <2>4 DEF Reject, Turn
    <3>. QED
      BY <3>1 DEF ClaimInv
  <2>5. ASSUME NEW t \in Turn, BetweenSteps(t)
        PROVE  ClaimInv'
    BY <2>5, EndTurnClaims, BeginStepClaims DEF BetweenSteps
  <2>6. ASSUME NEW ns, NEW ext, NEW t, InStep(ns, ext, t)
        PROVE  ClaimInv'
    <3>1. t.claimed = <<>>
      BY <2>6 DEF InStep, SameTurn, ClaimInv
    <3>. QED
      BY <2>6, <3>1, EndTurnClaims, BeginStepClaims DEF InStep, GoesOn, Waits, ClaimInv
  <2>. QED
    BY <2>1, <2>2, <2>3, <2>4, <2>5, <2>6 DEF DriverStep
<1>2. ASSUME NEW via \in Via, Send(via)
      PROVE  ClaimInv'
  BY <1>2, BeginStepClaims DEF Send, OpenTurn, ClaimInv
<1>3. CASE Cancel \/ Dispose
  <2>1. turn'.claimed = turn.claimed /\ pc' = pc
    BY <1>0, <1>3 DEF Cancel, Dispose, Abort, Turn
  <2>. QED
    BY <2>1 DEF ClaimInv
<1>4. CASE TornDown \/ Checkpoint \/ UNCHANGED vars
  BY <1>4 DEF TornDown, Checkpoint, vars, ClaimInv
<1>5. ASSUME NEW f \in flushes, NEW ok \in BOOLEAN, FlushSettles(f, ok)
      PROVE  ClaimInv'
  BY <1>5 DEF FlushSettles, ClaimInv
<1>6. CASE CrashAndResume
  BY <1>6 DEF CrashAndResume, FreshTurn, ClaimInv
<1>. QED
  BY <1>1, <1>2, <1>3, <1>4, <1>5, <1>6 DEF Next, Settle

LEMMA ClaimAlways == Spec => []ClaimInv
<1>1. Init => ClaimInv
  BY DEF Init, FreshTurn, ClaimInv
<1>2. TypeOK /\ ClaimInv /\ [Next]_vars => ClaimInv'
  BY NextClaims
<1>. QED
  BY <1>1, <1>2, TypeCorrect, PTL DEF Spec

\* The events of a log beyond those of the log as it is.
News(log) == {log[i] : i \in DOMAIN log \ DOMAIN events}

LEMMA NewsOfPrefix ==
  ASSUME events \in Seq(Event), NEW log \in Seq(Event), Len(log) <= Len(events)
  PROVE  News(log) = {}
<1>1. DOMAIN events = 1 .. Len(events) /\ DOMAIN log = 1 .. Len(log)
      /\ Len(log) \in Nat /\ Len(events) \in Nat
  OBVIOUS
<1>2. DOMAIN log \ DOMAIN events = {}
  BY <1>1
<1>. QED
  BY <1>2 DEF News

LEMMA NewsOfAppend ==
  ASSUME events \in Seq(Event), NEW log \in Seq(Event), NEW e \in Event,
         Len(events) <= Len(log)
  PROVE  /\ News(Append(log, e)) = News(log) \cup {e}
         /\ Append(log, e) \in Seq(Event)
         /\ Len(events) <= Len(Append(log, e))
<1>. DEFINE log2 == Append(log, e)
<1>1. /\ DOMAIN events = 1 .. Len(events) /\ DOMAIN log = 1 .. Len(log)
      /\ Len(log) \in Nat /\ Len(events) \in Nat
  OBVIOUS
<1>2. /\ log2 \in Seq(Event) /\ Len(log2) = Len(log) + 1 /\ DOMAIN log2 = 1 .. Len(log2)
      /\ \A i \in 1 .. Len(log) : log2[i] = log[i]
      /\ log2[Len(log) + 1] = e
  OBVIOUS
<1>. HIDE DEF log2
<1>3. \A i \in DOMAIN log2 \ DOMAIN events :
        i \in DOMAIN log \ DOMAIN events \/ i = Len(log) + 1
  BY <1>1, <1>2
<1>4. /\ \A i \in DOMAIN log \ DOMAIN events : i \in DOMAIN log2 \ DOMAIN events
      /\ Len(log) + 1 \in DOMAIN log2 \ DOMAIN events
  BY <1>1, <1>2
<1>5. ASSUME NEW x \in News(log2)
      PROVE  x \in News(log) \cup {e}
  <2>1. PICK i \in DOMAIN log2 \ DOMAIN events : x = log2[i]
    BY DEF News
  <2>2. CASE i \in DOMAIN log \ DOMAIN events
    BY <1>1, <1>2, <2>1, <2>2 DEF News
  <2>3. CASE i = Len(log) + 1
    BY <1>2, <2>1, <2>3
  <2>. QED
    BY <1>3, <2>1, <2>2, <2>3
<1>6. ASSUME NEW x \in News(log)
      PROVE  x \in News(log2)
  <2>1. PICK i \in DOMAIN log \ DOMAIN events : x = log[i]
    BY DEF News
  <2>2. x = log2[i]
    BY <1>1, <1>2, <2>1
  <2>. QED
    BY <1>4, <2>1, <2>2 DEF News
<1>7. e \in News(log2)
  BY <1>2, <1>4 DEF News
<1>. QED
  BY <1>1, <1>2, <1>5, <1>6, <1>7 DEF log2

LEMMA NewsOfConcat ==
  ASSUME events \in Seq(Event), NEW log \in Seq(Event), NEW ext \in Seq(Event),
         Len(events) <= Len(log)
  PROVE  /\ \A e \in News(log \o ext) :
              e \in News(log) \/ \E i \in 1 .. Len(ext) : e = ext[i]
         /\ log \o ext \in Seq(Event)
         /\ Len(events) <= Len(log \o ext)
<1>. DEFINE c == log \o ext
<1>1. /\ c \in Seq(Event) /\ Len(c) = Len(log) + Len(ext) /\ DOMAIN c = 1 .. Len(c)
      /\ Len(log) \in Nat /\ Len(ext) \in Nat /\ Len(events) \in Nat
      /\ DOMAIN log = 1 .. Len(log)
      /\ \A i \in 1 .. Len(log) : c[i] = log[i]
      /\ \A i \in 1 .. Len(c) : i > Len(log) =>
           i - Len(log) \in 1 .. Len(ext) /\ c[i] = ext[i - Len(log)]
  OBVIOUS
<1>. HIDE DEF c
<1>2. ASSUME NEW e \in News(c)
      PROVE  e \in News(log) \/ \E i \in 1 .. Len(ext) : e = ext[i]
  <2>1. PICK i \in DOMAIN c \ DOMAIN events : e = c[i]
    BY DEF News
  <2>2. CASE i <= Len(log)
    <3>1. i \in DOMAIN log \ DOMAIN events /\ e = log[i]
      BY <1>1, <2>1, <2>2
    <3>. QED
      BY <3>1 DEF News
  <2>3. CASE i > Len(log)
    BY <1>1, <2>1, <2>3
  <2>. QED
    BY <1>1, <2>1, <2>2, <2>3
<1>. QED
  BY <1>1, <1>2 DEF c

\* A turn's end logs the end, and the start of the next turn if there is one.
LEMMA EndTurnNews ==
  ASSUME events \in Seq(Event), NEW nt, NEW ns, NEW log \in Seq(Event),
         Len(events) <= Len(log), NEW t \in Turn, NEW r \in Reason,
         EndTurn(nt, ns, log, t, r)
  PROVE  /\ \A e \in NewEvents :
              \/ e \in News(log)
              \/ e.type = "turn/end" /\ e.reason = r
              \/ e.type = "turn/start"
         /\ TurnEnds({r})
         /\ turn'.seq = t.seq => turn'.step = 0
<1>. DEFINE e1 == TurnEnd(t, r)
            log1 == Append(log, e1)
<1>1. e1 \in Event /\ e1.type = "turn/end" /\ e1.reason = r /\ t.seq \in Nat
  <2>1. e1 = [type |-> "turn/end", turn |-> t.seq, step |-> t.step,
              msg |-> NoMsg, reason |-> r]
    BY DEF TurnEnd, Ev
  <2>. QED
    BY <2>1, TurnEndType DEF Turn
<1>. HIDE DEF e1
<1>2. log1 \in Seq(Event) /\ Len(events) <= Len(log1) /\ News(log1) = News(log) \cup {e1}
  BY <1>1, NewsOfAppend
<1>3. CASE HasPending(nt, ns)
  <2>. DEFINE t2 == FreshTurn(t.seq + 1)
              e2 == Ev("turn/start", t2)
              log2 == Append(log1, e2)
  <2>1. BeginStep(nt, ns, log2, t2)
    BY <1>3 DEF EndTurn, OpenTurn, e1
  <2>2. t2 \in Turn /\ t2.seq = t.seq + 1
    BY <1>1, FreshTurnType DEF FreshTurn
  <2>3. e2 \in Event /\ e2.type = "turn/start"
    BY <2>2, EvTurn DEF EventType
  <2>. HIDE DEF log1, e2, t2
  <2>4. News(log2) = News(log1) \cup {e2}
    BY <1>2, <2>3, NewsOfAppend
  <2>5. events' = log2 /\ turn'.seq = t.seq + 1
    BY <2>1, <2>2 DEF BeginStep, Turn
  <2>6. NewEvents = News(log2)
    BY <2>5 DEF NewEvents, News
  <2>. QED
    BY <1>1, <1>2, <2>3, <2>4, <2>5, <2>6 DEF TurnEnds
<1>4. CASE ~HasPending(nt, ns)
  <2>1. events' = log1 /\ turn' = FreshTurn(t.seq)
    BY <1>4 DEF EndTurn, e1
  <2>. HIDE DEF log1
  <2>2. NewEvents = News(log1) /\ turn'.step = 0
    BY <2>1 DEF NewEvents, News, FreshTurn
  <2>. QED
    BY <1>1, <1>2, <2>2 DEF TurnEnds
<1>. QED
  BY <1>3, <1>4

LEMMA BeginStepNews ==
  ASSUME NEW nt, NEW ns, NEW log, NEW t, BeginStep(nt, ns, log, t)
  PROVE  NewEvents = News(log)
BY DEF BeginStep, NewEvents, News

\* What a step of the driver may log and where it leaves the step's number.
LEMMA DriverNews ==
  ASSUME TypeOK, ClaimInv, Driver
  PROVE  /\ TurnEnds({"completed"}) => turn.claimed = <<>> /\ nextStep = <<>>
         /\ Aborted(turn) /\ turn'.seq = turn.seq =>
              /\ turn'.step \in {turn.step, 0}
              /\ \A e \in NewEvents : e.type # "assistant/message"
<1>. DEFINE Goal == /\ TurnEnds({"completed"}) => turn.claimed = <<>> /\ nextStep = <<>>
                    /\ Aborted(turn) /\ turn'.seq = turn.seq =>
                         /\ turn'.step \in {turn.step, 0}
                         /\ \A e \in NewEvents : e.type # "assistant/message"
<1>1. /\ events \in Seq(Event) /\ turn \in Turn /\ turn.claimed \in Seq(Msg)
      /\ turn.reason \in Reason /\ Len(events) <= Len(events)
  BY DEF TypeOK, Turn
<1>2. News(events) = {}
  BY <1>1, NewsOfPrefix
<1>3. CASE Assembled /\ ~Aborted(turn)
  <2>1. NewEvents = {}
    BY <1>2, <1>3 DEF Assembled, NewEvents, News
  <2>. QED
    BY <1>3, <2>1 DEF TurnEnds
<1>4. CASE Enter
  <2>. DEFINE e == Ev("step/start", turn)
              log == Append(events, e)
              msgs == [i \in 1 .. Len(turn.claimed) |->
                         UserMessage(turn, turn.claimed[i])]
  <2>1. msgs \in Seq(Event) /\ Len(msgs) = Len(turn.claimed)
    <3>1. \A i \in 1 .. Len(turn.claimed) : msgs[i] \in Event
      BY <1>1, UserMessageType
    <3>2. msgs \in [1 .. Len(turn.claimed) -> Event]
      BY <3>1
    <3>3. Len(turn.claimed) \in Nat
      BY <1>1
    <3>. QED
      BY <3>2, <3>3
  <2>2. \A i \in 1 .. Len(msgs) : msgs[i].type = "user/message"
    BY <2>1 DEF UserMessage, Ev
  <2>3. e \in Event /\ e.type = "step/start"
    BY <1>1, EvTurn DEF EventType
  <2>4. events' = log \o msgs /\ turn'.step = turn.step
    BY <1>1, <1>4 DEF Enter, Turn
  <2>. HIDE DEF msgs, e
  <2>5. /\ log \in Seq(Event) /\ Len(events) <= Len(log)
        /\ News(log) = {e}
    BY <1>1, <1>2, <2>3, NewsOfAppend
  <2>. HIDE DEF log
  <2>6. \A x \in News(log \o msgs) : x = e \/ \E i \in 1 .. Len(msgs) : x = msgs[i]
    BY <1>1, <2>1, <2>5, NewsOfConcat
  <2>7. \A x \in NewEvents : x.type \in {"step/start", "user/message"}
    BY SMTT(20), <2>2, <2>3, <2>4, <2>6 DEF NewEvents, News
  <2>. QED
    BY <2>4, <2>7 DEF TurnEnds
<1>5. CASE Reject
  <2>1. NewEvents = {} /\ turn'.step = turn.step
    BY <1>1, <1>2, <1>5 DEF Reject, NewEvents, News, Turn
  <2>. QED
    BY <2>1 DEF TurnEnds
<1>6. ASSUME NEW t \in Turn, BetweenSteps(t)
      PROVE  Goal
  <2>1. ASSUME NEW r \in Reason, EndTurn(nextTurn, nextStep, events, t, r),
               r = "completed" => pc = "stopping" /\ nextStep = <<>>
        PROVE  Goal
    <3>1. /\ \A e \in NewEvents :
               (e.type = "turn/end" /\ e.reason = r) \/ e.type = "turn/start"
          /\ turn'.seq = t.seq => turn'.step = 0
      BY <1>1, <1>2, <2>1, EndTurnNews
    <3>2. t.seq = turn.seq
      BY <1>6 DEF BetweenSteps, SameTurn
    <3>3. TurnEnds({"completed"}) => r = "completed"
      BY <3>1 DEF TurnEnds
    <3>. QED
      BY <2>1, <3>1, <3>2, <3>3 DEF ClaimInv
  <2>2. CASE ~Aborted(t) /\ BeginStep(nextTurn, nextStep, events, t)
    <3>1. NewEvents = {}
      BY <1>2, <2>2, BeginStepNews
    <3>2. ~Aborted(turn)
      BY <1>6, <2>2 DEF BetweenSteps, SameTurn, Aborted
    <3>. QED
      BY <3>1, <3>2 DEF TurnEnds
  <2>3. \/ \E r \in Reason : /\ EndTurn(nextTurn, nextStep, events, t, r)
                             /\ r = "completed" => pc = "stopping" /\ nextStep = <<>>
        \/ ~Aborted(t) /\ BeginStep(nextTurn, nextStep, events, t)
    <3>1. CASE \E r \in {"aborted", "error"} : EndTurn(nextTurn, nextStep, events, t, r)
      BY <3>1 DEF Reason
    <3>2. CASE pc = "stopping" /\ nextStep = <<>>
               /\ EndTurn(nextTurn, nextStep, events, t, turn.reason)
      BY <1>1, <3>2
    <3>. QED
      BY <1>6, <3>1, <3>2 DEF BetweenSteps
  <2>. QED
    BY <2>1, <2>2, <2>3
<1>7. ASSUME NEW ns \in Seq(Msg), NEW ext \in Seq(Event), NEW t \in Turn,
             InStep(ns, ext, t)
      PROVE  Goal
  <2>. DEFINE log == events \o ext
              e == Ev("step/end", turn)
              log2 == Append(log, e)
  <2>0. t.seq = turn.seq /\ t.step = turn.step /\ (Aborted(t) <=> Aborted(turn))
    BY <1>7 DEF InStep, SameTurn, Aborted
  <2>1. /\ log \in Seq(Event) /\ Len(events) <= Len(log)
        /\ \A x \in News(log) : \E i \in 1 .. Len(ext) : x = ext[i]
    BY <1>1, <1>2, NewsOfConcat
  <2>2. \A x \in News(log) : /\ x.type \in Within
                             /\ Aborted(turn) => x.type # "assistant/message"
    BY <1>7, <2>1 DEF InStep, Inside
  <2>3. CASE Waits(ns, log, t, "tools")
    <3>1. NewEvents = News(log) /\ turn' = t
      BY <2>3 DEF Waits, NewEvents, News
    <3>. QED
      BY <2>0, <2>2, <3>1 DEF TurnEnds, Within
  <2>. HIDE DEF log
  <2>4. e \in Event /\ e.type = "step/end"
    BY <1>1, EvTurn DEF EventType
  <2>. HIDE DEF e
  <2>5. /\ log2 \in Seq(Event) /\ Len(events) <= Len(log2)
        /\ News(log2) = News(log) \cup {e}
    BY <1>1, <2>1, <2>4, NewsOfAppend
  <2>. HIDE DEF log2
  <2>6. \A x \in News(log2) : /\ x.type \in Within \cup {"step/end"}
                              /\ Aborted(turn) => x.type # "assistant/message"
    BY <2>2, <2>4, <2>5
  <2>7. ASSUME NEW r \in {"aborted", "error"}, EndTurn(nextTurn, ns, log2, t, r)
        PROVE  Goal
    <3>1. /\ \A x \in NewEvents : \/ x \in News(log2)
                                  \/ x.type = "turn/end" /\ x.reason = r
                                  \/ x.type = "turn/start"
          /\ turn'.seq = t.seq => turn'.step = 0
      <4>1. r \in Reason
        BY <2>7 DEF Reason
      <4>. QED
        BY <1>1, <2>5, <2>7, <4>1, EndTurnNews
    <3>2. ~TurnEnds({"completed"})
      BY <2>6, <3>1 DEF TurnEnds, Within
    <3>. QED
      BY <2>0, <2>6, <3>1, <3>2
  <2>8. CASE ~Aborted(t) /\ BeginStep(nextTurn, ns, log2, t)
    <3>1. NewEvents = News(log2)
      BY <2>8, BeginStepNews
    <3>. QED
      BY <2>0, <2>6, <2>8, <3>1 DEF TurnEnds, Within
  <2>9. CASE Waits(ns, log2, t, "stopping")
    <3>1. NewEvents = News(log2) /\ turn' = t
      BY <2>9 DEF Waits, NewEvents, News
    <3>. QED
      BY <2>0, <2>6, <3>1 DEF TurnEnds, Within
  <2>. QED
    BY <1>7, <2>3, <2>7, <2>8, <2>9 DEF InStep, GoesOn, log, log2, e
<1>. QED
  BY <1>3, <1>4, <1>5, <1>6, <1>7, DriverSteps DEF DriverStep

\* A step of anyone else logs nothing while a driver runs, except a kill,
\* which takes events away.
LEMMA OthersNews ==
  ASSUME TypeOK, DurableInv, [Next]_vars, ~Driver
  PROVE  /\ ~TurnEnds({"completed"})
         /\ Driving => /\ NewEvents = {}
                       /\ turn'.step \in {turn.step, 0}
<1>1. /\ events \in Seq(Event) /\ turn \in Turn /\ turn.seq \in Nat
      /\ Len(events) <= Len(events)
  BY DEF TypeOK, Turn
<1>2. News(events) = {}
  BY <1>1, NewsOfPrefix
<1>3. ASSUME events' = events, turn'.step = turn.step
      PROVE  /\ ~TurnEnds({"completed"})
             /\ Driving => /\ NewEvents = {}
                           /\ turn'.step \in {turn.step, 0}
  <2>1. NewEvents = {}
    BY <1>2, <1>3 DEF NewEvents, News
  <2>. QED
    BY <1>3, <2>1 DEF TurnEnds
<1>4. ASSUME NEW via \in Via, Send(via)
      PROVE  /\ ~TurnEnds({"completed"})
             /\ Driving => /\ NewEvents = {}
                           /\ turn'.step \in {turn.step, 0}
  <2>1. CASE via # "inject" /\ ~Driving
    <3>. DEFINE t2 == FreshTurn(turn.seq + 1)
                e2 == Ev("turn/start", t2)
    <3>1. PICK nt, ns : BeginStep(nt, ns, Append(events, e2), t2)
      BY <2>1, <1>4 DEF Send, OpenTurn
    <3>2. e2 \in Event /\ e2.type = "turn/start"
      BY <1>1, FreshTurnType, EvTurn DEF EventType
    <3>. HIDE DEF e2, t2
    <3>3. NewEvents = {e2}
      BY <1>1, <1>2, <3>1, <3>2, NewsOfAppend, BeginStepNews
    <3>. QED
      BY <2>1, <3>2, <3>3 DEF TurnEnds
  <2>2. CASE ~(via # "inject" /\ ~Driving)
    <3>1. events' = events /\ turn' = turn
      BY <1>4, <2>2 DEF Send
    <3>. QED
      BY <1>3, <3>1
  <2>. QED
    BY <2>1, <2>2
<1>5. CASE Cancel \/ Dispose
  <2>1. events' = events /\ turn'.step = turn.step
    BY <1>1, <1>5 DEF Cancel, Dispose, Abort, Turn
  <2>. QED
    BY <1>3, <2>1
<1>6. CASE TornDown \/ Checkpoint \/ UNCHANGED vars
  BY <1>3, <1>6 DEF TornDown, Checkpoint, vars
<1>7. ASSUME NEW f \in flushes, NEW ok \in BOOLEAN, FlushSettles(f, ok)
      PROVE  events' = events /\ turn'.step = turn.step
  BY <1>7 DEF FlushSettles
<1>8. CASE CrashAndResume
  <2>1. events' = disk.events /\ turn'.step = 0
    BY <1>8 DEF CrashAndResume, FreshTurn
  <2>2. disk.events \in Seq(Event) /\ Len(disk.events) <= Len(events)
    BY DEF TypeOK, Saved, DurableInv, Prefix
  <2>3. NewEvents = {}
    BY <1>1, <2>1, <2>2, NewsOfPrefix DEF NewEvents, News
  <2>. QED
    BY <2>1, <2>3 DEF TurnEnds
<1>. QED
  BY <1>3, <1>4, <1>5, <1>6, <1>7, <1>8 DEF Next, Settle

\* After a cancel, of the user or of a disposal, the rest of the turn logs no
\* answer of the model and starts no further step, whatever the tools and the
\* hooks still do: the turn may only be wound up.
THEOREM CancelQuiets == Spec => CancelledTurnIsQuiet
<1>1. ASSUME TypeOK, ClaimInv, DurableInv, [Next]_vars
      PROVE  Driving /\ Aborted(turn) /\ turn'.seq = turn.seq =>
               /\ turn'.step \in {turn.step, 0}
               /\ \A e \in NewEvents : e.type # "assistant/message"
  <2>1. CASE Driver
    BY <1>1, <2>1, DriverNews
  <2>2. CASE ~Driver
    BY <1>1, <2>2, OthersNews
  <2>. QED
    BY <2>1, <2>2
<1>2. TypeOK /\ ClaimInv /\ DurableInv /\ [Next]_vars =>
        [Driving /\ Aborted(turn) /\ turn'.seq = turn.seq =>
           /\ turn'.step \in {turn.step, 0}
           /\ \A e \in NewEvents : e.type # "assistant/message"]_vars
  BY <1>1
<1>. QED
  BY <1>2, TypeCorrect, ClaimAlways, DurableAlways, PTL DEF Spec, CancelledTurnIsQuiet

\* A turn is reported as completed only when everything it claimed is in the
\* log and nothing steered is left behind, also what was steered while the
\* turn-stopping hooks ran.
THEOREM CompletedTookItsInput == Spec => CompletedTurnTookItsInput
<1>1. ASSUME TypeOK, ClaimInv, DurableInv, [Next]_vars
      PROVE  TurnEnds({"completed"}) => turn.claimed = <<>> /\ nextStep = <<>>
  <2>1. CASE Driver
    BY <1>1, <2>1, DriverNews
  <2>2. CASE ~Driver
    BY <1>1, <2>2, OthersNews
  <2>. QED
    BY <2>1, <2>2
<1>2. TypeOK /\ ClaimInv /\ DurableInv /\ [Next]_vars =>
        [TurnEnds({"completed"}) => turn.claimed = <<>> /\ nextStep = <<>>]_vars
  BY <1>1
<1>. QED
  BY <1>2, TypeCorrect, ClaimAlways, DurableAlways, PTL DEF Spec, CompletedTurnTookItsInput

-----------------------------------------------------------------------------
(* Where a message can go.                                                  *)

LoggedIn(log) == {log[i].msg.id : i \in {j \in DOMAIN log : log[j].type = "user/message"}}

LEMMA LoggedIsLoggedIn == Logged = LoggedIn(events)
BY DEF Logged, Entries, LoggedIn

LEMMA KeptNext ==
  Kept' = Ids(nextTurn') \cup Ids(nextStep') \cup Ids(turn'.claimed) \cup LoggedIn(events')
BY DEF Kept, Ids, Logged, Entries, LoggedIn

LEMMA LoggedGrows ==
  ASSUME NEW a \in Seq(Event), NEW b \in Seq(Event), Prefix(a, b)
  PROVE  LoggedIn(a) \subseteq LoggedIn(b)
<1>1. DOMAIN a = 1 .. Len(a) /\ DOMAIN b = 1 .. Len(b) /\ Len(a) \in Nat /\ Len(b) \in Nat
  OBVIOUS
<1>2. \A i \in DOMAIN a : i \in DOMAIN b /\ a[i] = b[i]
  BY <1>1 DEF Prefix
<1>. QED
  BY <1>2 DEF LoggedIn

LEMMA IdsOfEmpty == Ids(<<>>) = {}
BY DEF Ids

LEMMA IdsOfConcat ==
  ASSUME NEW a \in Seq(Msg), NEW b \in Seq(Msg)
  PROVE  Ids(a \o b) = Ids(a) \cup Ids(b)
<1>. DEFINE c == a \o b
<1>1. /\ c \in Seq(Msg) /\ Len(c) = Len(a) + Len(b)
      /\ DOMAIN a = 1 .. Len(a) /\ DOMAIN b = 1 .. Len(b) /\ DOMAIN c = 1 .. Len(c)
      /\ Len(a) \in Nat /\ Len(b) \in Nat
      /\ \A i \in 1 .. Len(a) : c[i] = a[i]
      /\ \A i \in 1 .. Len(b) : Len(a) + i \in 1 .. Len(c) /\ c[Len(a) + i] = b[i]
      /\ \A i \in 1 .. Len(c) : i > Len(a) =>
           i - Len(a) \in 1 .. Len(b) /\ c[i] = b[i - Len(a)]
  OBVIOUS
<1>. HIDE DEF c
<1>2. ASSUME NEW x \in Ids(c)
      PROVE  x \in Ids(a) \cup Ids(b)
  <2>1. PICK i \in 1 .. Len(c) : x = c[i].id
    BY <1>1 DEF Ids
  <2>2. CASE i <= Len(a)
    <3>1. i \in DOMAIN a /\ c[i] = a[i]
      BY <1>1, <2>1, <2>2
    <3>. QED
      BY <2>1, <3>1 DEF Ids
  <2>3. CASE i > Len(a)
    BY <1>1, <2>1, <2>3 DEF Ids
  <2>. QED
    BY <1>1, <2>1, <2>2, <2>3
<1>3. ASSUME NEW x \in Ids(a)
      PROVE  x \in Ids(c)
  <2>1. PICK i \in 1 .. Len(a) : x = a[i].id
    BY <1>1 DEF Ids
  <2>2. i \in 1 .. Len(c) /\ c[i] = a[i]
    BY <1>1
  <2>. QED
    BY <1>1, <2>1, <2>2 DEF Ids
<1>4. ASSUME NEW x \in Ids(b)
      PROVE  x \in Ids(c)
  <2>1. PICK i \in 1 .. Len(b) : x = b[i].id
    BY <1>1 DEF Ids
  <2>. QED
    BY <1>1, <2>1 DEF Ids
<1>. QED
  BY <1>2, <1>3, <1>4 DEF c

LEMMA IdsOfAppend ==
  ASSUME NEW a \in Seq(Msg), NEW m \in Msg
  PROVE  Ids(Append(a, m)) = Ids(a) \cup {m.id}
<1>1. <<m>> \in Seq(Msg) /\ Append(a, m) = a \o <<m>>
  OBVIOUS
<1>2. Ids(<<m>>) = {m.id}
  BY DEF Ids
<1>. QED
  BY <1>1, <1>2, IdsOfConcat

LEMMA IdsOfHead ==
  ASSUME NEW a \in Seq(Msg), a # <<>>
  PROVE  /\ <<Head(a)>> \in Seq(Msg) /\ Tail(a) \in Seq(Msg)
         /\ Ids(a) = Ids(<<Head(a)>>) \cup Ids(Tail(a))
<1>1. <<Head(a)>> \in Seq(Msg) /\ Tail(a) \in Seq(Msg) /\ <<Head(a)>> \o Tail(a) = a
  OBVIOUS
<1>. QED
  BY <1>1, IdsOfConcat

\* Claiming a step's input moves messages, it drops none.
LEMMA BeginStepKeeps ==
  ASSUME NEW nt \in Seq(Msg), NEW ns \in Seq(Msg), NEW log, NEW t \in Turn,
         BeginStep(nt, ns, log, t)
  PROVE  Ids(nt) \cup Ids(ns) \subseteq Kept'
<1>1. nextTurn' = LeftQueued(t, nt) /\ turn'.claimed = Claimed(t, nt, ns)
  BY DEF BeginStep, Turn
<1>2. CASE TakesQueued(t, nt)
  <2>1. nt # <<>>
    BY <1>2 DEF TakesQueued
  <2>2. nextTurn' = Tail(nt) /\ turn'.claimed = <<Head(nt)>> \o ns
    BY <1>1, <1>2 DEF LeftQueued, Claimed
  <2>. DEFINE h == <<Head(nt)>>
  <2>3. h \in Seq(Msg) /\ Ids(nt) = Ids(h) \cup Ids(nextTurn')
    BY <2>1, <2>2, IdsOfHead
  <2>. HIDE DEF h
  <2>4. Ids(turn'.claimed) = Ids(h) \cup Ids(ns)
    BY <2>2, <2>3, IdsOfConcat DEF h
  <2>. QED
    BY <2>3, <2>4, KeptNext
<1>3. CASE ~TakesQueued(t, nt)
  <2>1. nextTurn' = nt /\ turn'.claimed = ns
    BY <1>1, <1>3 DEF LeftQueued, Claimed
  <2>. QED
    BY <2>1, KeptNext
<1>. QED
  BY <1>2, <1>3

LEMMA OpenTurnKeeps ==
  ASSUME NEW nt \in Seq(Msg), NEW ns \in Seq(Msg), NEW log, NEW n \in Nat,
         OpenTurn(nt, ns, log, n)
  PROVE  Ids(nt) \cup Ids(ns) \subseteq Kept'
BY FreshTurnType, BeginStepKeeps DEF OpenTurn

LEMMA EndTurnKeeps ==
  ASSUME NEW nt \in Seq(Msg), NEW ns \in Seq(Msg), NEW log, NEW t \in Turn, NEW r,
         EndTurn(nt, ns, log, t, r)
  PROVE  Ids(nt) \cup Ids(ns) \subseteq Kept'
<1>1. t.seq \in Nat
  BY DEF Turn
<1>2. CASE HasPending(nt, ns)
  BY <1>1, <1>2, OpenTurnKeeps DEF EndTurn
<1>3. CASE ~HasPending(nt, ns)
  BY <1>3, IdsOfEmpty DEF HasPending
<1>. QED
  BY <1>2, <1>3

\* What the driver does to the messages it holds.
LEMMA DriverKeeps ==
  ASSUME TypeOK, TypeOK', ClaimInv, Driver,
         NEW id \in Kept, id \notin Kept'
  PROVE  id \in Ids(turn.claimed) /\ (Reject \/ TurnEnds({"aborted", "error"}))
<1>1. /\ events \in Seq(Event) /\ events' \in Seq(Event) /\ turn \in Turn
      /\ turn.claimed \in Seq(Msg) /\ nextTurn \in Seq(Msg) /\ nextStep \in Seq(Msg)
      /\ sent \in 0 .. MaxMsgs /\ Len(events) <= Len(events)
  BY DEF TypeOK, Turn
<1>2. LoggedIn(events) \subseteq Kept'
  <2>1. Prefix(events, events')
    BY DriverGrows DEF LogGrows
  <2>. QED
    BY <1>1, <2>1, LoggedGrows, KeptNext
<1>3. id \in Ids(nextTurn) \cup Ids(nextStep) \cup Ids(turn.claimed)
  BY <1>2, LoggedIsLoggedIn DEF Kept
<1>4. CASE Assembled /\ ~Aborted(turn)
  <2>1. UNCHANGED <<nextTurn, nextStep, events, turn>>
    BY <1>4 DEF Assembled
  <2>. QED
    BY <1>3, <2>1, KeptNext
<1>5. CASE Enter
  <2>. DEFINE log == Append(events, Ev("step/start", turn))
              msgs == [i \in 1 .. Len(turn.claimed) |->
                         UserMessage(turn, turn.claimed[i])]
  <2>1. UNCHANGED <<nextTurn, nextStep>> /\ events' = log \o msgs
    BY <1>5 DEF Enter
  <2>2. ASSUME NEW x \in Ids(turn.claimed)
        PROVE  x \in LoggedIn(events')
    <3>1. PICK i \in 1 .. Len(turn.claimed) : x = turn.claimed[i].id
      <4>1. DOMAIN turn.claimed = 1 .. Len(turn.claimed)
        BY <1>1
      <4>. QED
        BY <4>1 DEF Ids
    <3>2. msgs[i].type = "user/message" /\ msgs[i].msg = turn.claimed[i]
      BY DEF UserMessage, Ev
    <3>3. log \in Seq(Event)
      BY <1>1, EvType DEF EventType
    <3>4. msgs \in Seq(Event) /\ Len(msgs) = Len(turn.claimed)
      <4>1. \A j \in 1 .. Len(turn.claimed) : msgs[j] \in Event
        BY <1>1, UserMessageType
      <4>2. msgs \in [1 .. Len(turn.claimed) -> Event]
        BY <4>1
      <4>3. Len(turn.claimed) \in Nat
        BY <1>1
      <4>. QED
        BY <4>2, <4>3
    <3>. HIDE DEF log, msgs
    <3>5. /\ Len(log) + i \in DOMAIN (log \o msgs)
          /\ (log \o msgs)[Len(log) + i] = msgs[i]
      BY <3>3, <3>4
    <3>. QED
      BY <2>1, <3>1, <3>2, <3>5 DEF LoggedIn
  <2>. QED
    BY <1>3, <2>1, <2>2, KeptNext
<1>6. CASE Reject
  <2>1. UNCHANGED <<nextTurn, nextStep>>
    BY <1>6 DEF Reject
  <2>. QED
    BY <1>3, <1>6, <2>1, KeptNext
<1>7. ASSUME NEW t \in Turn, BetweenSteps(t)
      PROVE  id \in Ids(turn.claimed) /\ (Reject \/ TurnEnds({"aborted", "error"}))
  <2>1. Ids(nextTurn) \cup Ids(nextStep) \subseteq Kept'
    BY <1>1, <1>7, EndTurnKeeps, BeginStepKeeps DEF BetweenSteps
  <2>2. id \in Ids(turn.claimed)
    BY <1>3, <2>1
  <2>3. pc # "stopping"
    BY <2>2, IdsOfEmpty DEF ClaimInv
  <2>4. PICK r \in {"aborted", "error"} : EndTurn(nextTurn, nextStep, events, t, r)
    BY <1>7, <2>3 DEF BetweenSteps
  <2>5. r \in Reason
    BY DEF Reason
  <2>6. TurnEnds({r})
    BY <1>1, <2>4, <2>5, EndTurnNews
  <2>. QED
    BY <2>2, <2>6 DEF TurnEnds
<1>8. ASSUME NEW ns \in Seq(Msg), NEW ext \in Seq(Event), NEW t \in Turn,
             InStep(ns, ext, t)
      PROVE  FALSE
  <2>1. turn.claimed = <<>>
    BY <1>8 DEF InStep, ClaimInv
  <2>2. id \in Ids(nextTurn) \cup Ids(nextStep)
    BY <1>3, <2>1, IdsOfEmpty
  <2>3. Ids(nextStep) \subseteq Ids(ns)
    <3>1. CASE ns = nextStep
      BY <3>1
    <3>2. CASE ns # nextStep
      <4>. DEFINE m == [id |-> sent + 1, via |-> "inject"]
      <4>1. sent < MaxMsgs /\ ns = Append(nextStep, m)
        BY <1>8, <3>2 DEF InStep, Took
      <4>2. m \in Msg
        BY <1>1, <4>1, BoundsAssumption DEF Msg, Via
      <4>. HIDE DEF m
      <4>. QED
        BY <1>1, <4>1, <4>2, IdsOfAppend
    <3>. QED
      BY <3>1, <3>2
  <2>4. Ids(nextTurn) \cup Ids(ns) \subseteq Kept'
    <3>1. ASSUME NEW log, NEW await, Waits(ns, log, t, await)
          PROVE  Ids(nextTurn) \cup Ids(ns) \subseteq Kept'
      BY <3>1, KeptNext DEF Waits
    <3>. QED
      BY <1>1, <1>8, <3>1, EndTurnKeeps, BeginStepKeeps DEF InStep, GoesOn
  <2>. QED
    BY <2>2, <2>3, <2>4
<1>. QED
  BY <1>4, <1>5, <1>6, <1>7, <1>8, DriverSteps DEF DriverStep

\* A message queued, claimed or logged is never dropped in silence: only the
\* Stop button empties a queue, a claim is given up only with a turn that is
\* reported as blocked, aborted or failed, and the log loses nothing but by a
\* kill.
THEOREM NoMessageSilentlyLost == Spec => NothingSilentlyLost
<1>. DEFINE Excused(id) ==
       \/ crashes' # crashes
       \/ id \in Ids(nextTurn) \cup Ids(nextStep) /\ Cancel
       \/ id \in Ids(turn.claimed) /\ (Reject \/ TurnEnds({"aborted", "error"}))
<1>1. ASSUME TypeOK, TypeOK', ClaimInv, [Next]_vars,
             NEW id \in Kept, id \notin Kept'
      PROVE  Excused(id)
  <2>1. CASE Driver
    BY <1>1, <2>1, DriverKeeps
  <2>2. ASSUME NEW via \in Via, Send(via)
        PROVE  FALSE
    <3>. DEFINE m == [id |-> sent + 1, via |-> via]
                nt == IF via = "followup" THEN Enqueue(nextTurn, m) ELSE nextTurn
                ns == IF via = "followup" THEN nextStep ELSE Enqueue(nextStep, m)
    <3>1. /\ nextTurn \in Seq(Msg) /\ nextStep \in Seq(Msg) /\ turn.seq \in Nat
          /\ events \in Seq(Event) /\ turn.claimed \in Seq(Msg)
      BY <1>1 DEF TypeOK, Turn
    <3>2. m \in Msg
      BY <1>1, <2>2, BoundsAssumption DEF TypeOK, Send, Msg
    <3>. HIDE DEF m
    <3>3. /\ nt \in Seq(Msg) /\ ns \in Seq(Msg)
          /\ Ids(nextTurn) \subseteq Ids(nt) /\ Ids(nextStep) \subseteq Ids(ns)
      BY <3>1, <3>2, IdsOfAppend DEF Enqueue
    <3>4. \/ OpenTurn(nt, ns, events, turn.seq) /\ ~Driving
          \/ nextTurn' = nt /\ nextStep' = ns /\ UNCHANGED <<events, turn>>
      BY <2>2 DEF Send, m
    <3>. HIDE DEF nt, ns
    <3>5. CASE OpenTurn(nt, ns, events, turn.seq) /\ ~Driving
      <4>1. Ids(nt) \cup Ids(ns) \subseteq Kept'
        BY <3>1, <3>3, <3>5, OpenTurnKeeps
      <4>2. turn.claimed = <<>>
        BY <1>1, <3>5 DEF ClaimInv, Driving
      <4>3. LoggedIn(events) \subseteq Kept'
        <5>1. Prefix(events, events')
          BY <3>1, <3>5, PrefixItself, OpenTurnGrows DEF LogGrows
        <5>2. events' \in Seq(Event)
          BY <1>1 DEF TypeOK
        <5>. QED
          BY <3>1, <5>1, <5>2, LoggedGrows, KeptNext
      <4>. QED
        BY <1>1, <3>3, <4>1, <4>2, <4>3, IdsOfEmpty, LoggedIsLoggedIn DEF Kept
    <3>6. CASE nextTurn' = nt /\ nextStep' = ns /\ UNCHANGED <<events, turn>>
      BY <1>1, <3>3, <3>6, KeptNext, LoggedIsLoggedIn DEF Kept
    <3>. QED
      BY <3>4, <3>5, <3>6
  <2>3. CASE Cancel
    <3>1. turn'.claimed = turn.claimed /\ events' = events
      BY <1>1, <2>3 DEF TypeOK, Cancel, Abort, Turn
    <3>. QED
      BY <1>1, <2>3, <3>1, KeptNext, LoggedIsLoggedIn DEF Kept
  <2>4. CASE Dispose
    <3>1. turn'.claimed = turn.claimed /\ UNCHANGED <<events, nextTurn, nextStep>>
      BY <1>1, <2>4 DEF TypeOK, Dispose, Abort, Turn
    <3>. QED
      BY <1>1, <3>1, KeptNext, LoggedIsLoggedIn DEF Kept
  <2>5. ASSUME NEW f \in flushes, NEW ok \in BOOLEAN, FlushSettles(f, ok)
        PROVE  UNCHANGED <<events, nextTurn, nextStep, turn>>
    BY <2>5 DEF FlushSettles
  <2>6. ASSUME UNCHANGED <<events, nextTurn, nextStep, turn>>
        PROVE  FALSE
    BY <1>1, <2>6, KeptNext, LoggedIsLoggedIn DEF Kept
  <2>7. CASE TornDown \/ Checkpoint \/ UNCHANGED vars
    BY <2>6, <2>7 DEF TornDown, Checkpoint, vars
  <2>8. CASE CrashAndResume
    BY <1>1, <2>8, BoundsAssumption DEF CrashAndResume, TypeOK
  <2>. QED
    BY <1>1, <2>1, <2>2, <2>3, <2>4, <2>5, <2>6, <2>7, <2>8 DEF Next, Settle
<1>2. TypeOK /\ TypeOK' /\ ClaimInv /\ [Next]_vars =>
        [\A id \in Kept : id \notin Kept' => Excused(id)]_vars
  BY <1>1
<1>3. [][\A id \in Kept : id \notin Kept' => Excused(id)]_vars <=> NothingSilentlyLost
  BY DEF NothingSilentlyLost
<1>. HIDE DEF Excused
<1>. QED
  BY <1>2, <1>3, TypeCorrect, ClaimAlways, PTL DEF Spec

-----------------------------------------------------------------------------
(* The order of the messages.                                               *)

Place == Msg \cup {NoMsg}
Elems(s) == {s[i] : i \in 1 .. Len(s)}

\* m may come before n: of one queue, m was sent earlier; else they differ.
Ok(m, n) ==
  m.id # 0 /\ n.id # 0 =>
    IF m.via = "followup" <=> n.via = "followup" THEN m.id < n.id ELSE m.id # n.id

InOrder(s) == \A i, j \in 1 .. Len(s) : i < j => Ok(s[i], s[j])
Before(A, B) == \A m \in A, n \in B : Ok(m, n)

\* The messages a log carries, NoMsg for every other event.
Msgs(log) == [i \in 1 .. Len(log) |-> log[i].msg]
Carries(log) ==
  \A i \in 1 .. Len(log) :
     IF log[i].type = "user/message" THEN log[i].msg \in Msg ELSE log[i].msg = NoMsg

\* k: the messages in the log, c: the claimed ones, n: how many were sent.
Ordered(k, c, nt, ns, n) ==
  /\ InOrder(k) /\ InOrder(c) /\ InOrder(nt) /\ InOrder(ns)
  /\ Before(Elems(k), Elems(c) \cup Elems(nt) \cup Elems(ns))
  /\ Before(Elems(c), Elems(nt) \cup Elems(ns))
  /\ Before(Elems(nt), Elems(ns))
  /\ \A m \in Elems(k) \cup Elems(c) \cup Elems(nt) \cup Elems(ns) : m.id <= n
  /\ \A m \in Elems(nt) : m.via = "followup"
  /\ \A m \in Elems(ns) : m.via # "followup"

SavedOrdered(s, n) ==
  Ordered(Msgs(s.events), <<>>, s.nextTurn, s.nextStep, n) /\ Carries(s.events)

\* The inductive invariant: log, claim and queues, read in this order, hold
\* the messages of each queue in the order they were sent; and so does what a
\* resume would load.
OrderInv ==
  /\ Ordered(Msgs(events), turn.claimed, nextTurn, nextStep, sent)
  /\ Carries(events)
  /\ SavedOrdered(disk, sent)
  /\ \A f \in flushes : SavedOrdered(f, sent)

\* The part of it the pieces of turn() set.
OrderStepInv ==
  /\ Ordered(Msgs(events), turn.claimed, nextTurn, nextStep, sent)
  /\ Carries(events)
  /\ \A f \in flushes : SavedOrdered(f, sent)

FlushesOrdered(n) == \A f \in flushes : SavedOrdered(f, n)

LEMMA PlaceSeq ==
  /\ \A s \in Seq(Msg) : s \in Seq(Place)
  /\ <<>> \in Seq(Place) /\ Elems(<<>>) = {} /\ InOrder(<<>>)
<1>1. \A s \in Seq(Msg) : s \in Seq(Place)
  BY SeqMonotonic DEF Place
<1>2. <<>> \in Seq(Place) /\ Elems(<<>>) = {} /\ InOrder(<<>>)
  BY DEF Elems, InOrder
<1>. QED
  BY <1>1, <1>2

LEMMA ConcatPlaces ==
  ASSUME NEW a \in Seq(Place), NEW b \in Seq(Place)
  PROVE  /\ a \o b \in Seq(Place) /\ Len(a \o b) = Len(a) + Len(b)
         /\ \A i \in 1 .. Len(a) : (a \o b)[i] = a[i]
         /\ \A i \in 1 .. Len(a \o b) : i > Len(a) =>
              i - Len(a) \in 1 .. Len(b) /\ (a \o b)[i] = b[i - Len(a)]
OBVIOUS

LEMMA ConcatParts ==
  ASSUME NEW a \in Seq(Place), NEW b \in Seq(Place)
  PROVE  /\ a \o b \in Seq(Place)
         /\ Elems(a \o b) = Elems(a) \cup Elems(b)
         /\ InOrder(a) /\ InOrder(b) /\ Before(Elems(a), Elems(b)) => InOrder(a \o b)
<1>. DEFINE c == a \o b
<1>1. /\ c \in Seq(Place) /\ Len(c) = Len(a) + Len(b)
      /\ Len(a) \in Nat /\ Len(b) \in Nat
      /\ \A i \in 1 .. Len(a) : i \in 1 .. Len(c) /\ c[i] = a[i]
      /\ \A i \in 1 .. Len(b) : Len(a) + i \in 1 .. Len(c) /\ c[Len(a) + i] = b[i]
      /\ \A i \in 1 .. Len(c) : i > Len(a) =>
           i - Len(a) \in 1 .. Len(b) /\ c[i] = b[i - Len(a)]
  OBVIOUS
<1>. HIDE DEF c
<1>2. ASSUME NEW i \in 1 .. Len(c)
      PROVE  \/ i \in 1 .. Len(a) /\ c[i] = a[i] /\ c[i] \in Elems(a)
             \/ i > Len(a) /\ i - Len(a) \in 1 .. Len(b) /\ c[i] = b[i - Len(a)]
                /\ c[i] \in Elems(b)
  <2>1. CASE i <= Len(a)
    <3>1. i \in 1 .. Len(a) /\ c[i] = a[i]
      BY <1>1, <2>1
    <3>. QED
      BY <3>1 DEF Elems
  <2>2. CASE i > Len(a)
    <3>1. i - Len(a) \in 1 .. Len(b) /\ c[i] = b[i - Len(a)]
      BY <1>1, <2>2
    <3>. QED
      BY <2>2, <3>1 DEF Elems
  <2>. QED
    BY <1>1, <2>1, <2>2
<1>3. Elems(c) = Elems(a) \cup Elems(b)
  <2>1. Elems(c) \subseteq Elems(a) \cup Elems(b)
    BY <1>2 DEF Elems
  <2>2. ASSUME NEW i \in 1 .. Len(a)
        PROVE  a[i] \in Elems(c)
    BY <1>1 DEF Elems
  <2>3. ASSUME NEW i \in 1 .. Len(b)
        PROVE  b[i] \in Elems(c)
    <3>1. Len(a) + i \in 1 .. Len(c) /\ c[Len(a) + i] = b[i]
      BY <1>1
    <3>. QED
      BY <3>1 DEF Elems
  <2>. QED
    BY <2>1, <2>2, <2>3 DEF Elems
<1>4. ASSUME InOrder(a), InOrder(b), Before(Elems(a), Elems(b))
      PROVE  InOrder(c)
  <2>. SUFFICES ASSUME NEW i \in 1 .. Len(c), NEW j \in 1 .. Len(c), i < j
               PROVE  Ok(c[i], c[j])
    BY DEF InOrder
  <2>1. CASE j \in 1 .. Len(a) /\ c[j] = a[j]
    <3>1. i \in 1 .. Len(a) /\ c[i] = a[i]
      BY <1>1, <2>1
    <3>. QED
      BY <1>4, <2>1, <3>1 DEF InOrder
  <2>2. CASE j > Len(a) /\ j - Len(a) \in 1 .. Len(b) /\ c[j] = b[j - Len(a)]
             /\ c[j] \in Elems(b)
    <3>1. CASE i \in 1 .. Len(a) /\ c[i] \in Elems(a)
      BY <1>4, <2>2, <3>1 DEF Before
    <3>2. CASE i - Len(a) \in 1 .. Len(b) /\ c[i] = b[i - Len(a)]
      <4>1. i - Len(a) < j - Len(a)
        BY <1>1
      <4>. QED
        BY <1>4, <2>2, <3>2, <4>1 DEF InOrder
    <3>. QED
      BY <1>2, <3>1, <3>2
  <2>. QED
    BY <1>2, <2>1, <2>2
<1>. QED
  BY <1>1, <1>3, <1>4 DEF c

LEMMA OneParts ==
  ASSUME NEW m \in Place
  PROVE  <<m>> \in Seq(Place) /\ Elems(<<m>>) = {m} /\ InOrder(<<m>>)
<1>1. <<m>> \in Seq(Place) /\ Len(<<m>>) = 1 /\ <<m>>[1] = m
  OBVIOUS
<1>. DEFINE s == <<m>>
<1>2. Len(s) = 1 /\ s[1] = m
  OBVIOUS
<1>. HIDE DEF s
<1>3. Elems(s) = {m} /\ InOrder(s)
  BY <1>2 DEF Elems, InOrder
<1>. QED
  BY <1>1, <1>3 DEF s

LEMMA HeadParts ==
  ASSUME NEW a \in Seq(Msg), a # <<>>
  PROVE  /\ Head(a) \in Elems(a) /\ Head(a) \in Msg
         /\ Tail(a) \in Seq(Msg) /\ Elems(Tail(a)) \subseteq Elems(a)
         /\ InOrder(a) => InOrder(Tail(a)) /\ Before({Head(a)}, Elems(Tail(a)))
<1>. DEFINE b == Tail(a)
<1>1. /\ b \in Seq(Msg) /\ Len(a) \in Nat /\ Len(a) > 0 /\ Len(b) = Len(a) - 1
      /\ \A i \in 1 .. Len(b) : i + 1 \in 1 .. Len(a) /\ b[i] = a[i + 1]
      /\ Head(a) = a[1] /\ Head(a) \in Msg /\ 1 \in 1 .. Len(a)
  OBVIOUS
<1>. HIDE DEF b
<1>2. Head(a) \in Elems(a) /\ Elems(b) \subseteq Elems(a)
  BY <1>1 DEF Elems
<1>3. ASSUME InOrder(a)
      PROVE  InOrder(b) /\ Before({Head(a)}, Elems(b))
  <2>1. InOrder(b)
    <3>. SUFFICES ASSUME NEW i \in 1 .. Len(b), NEW j \in 1 .. Len(b), i < j
                 PROVE  Ok(b[i], b[j])
      BY DEF InOrder
    <3>1. /\ i + 1 \in 1 .. Len(a) /\ j + 1 \in 1 .. Len(a) /\ i + 1 < j + 1
          /\ b[i] = a[i + 1] /\ b[j] = a[j + 1]
      BY <1>1
    <3>. QED
      BY <1>3, <3>1 DEF InOrder
  <2>2. ASSUME NEW i \in 1 .. Len(b)
        PROVE  Ok(Head(a), b[i])
    <3>1. i + 1 \in 1 .. Len(a) /\ 1 < i + 1 /\ b[i] = a[i + 1]
      BY <1>1
    <3>. QED
      BY <1>1, <1>3, <3>1 DEF InOrder
  <2>. QED
    BY <2>1, <2>2 DEF Before, Elems
<1>. QED
  BY <1>1, <1>2, <1>3 DEF b

LEMMA MsgsType ==
  ASSUME NEW log \in Seq(Event)
  PROVE  /\ Msgs(log) \in Seq(Place) /\ Len(Msgs(log)) = Len(log)
         /\ \A i \in 1 .. Len(log) : Msgs(log)[i] = log[i].msg
<1>1. \A i \in 1 .. Len(log) : log[i] \in Event
  OBVIOUS
<1>2. \A i \in 1 .. Len(log) : log[i].msg \in Place
  BY <1>1 DEF Event, Place
<1>3. Msgs(log) \in [1 .. Len(log) -> Place] /\ Len(log) \in Nat
  BY <1>2 DEF Msgs
<1>. QED
  BY <1>3 DEF Msgs

LEMMA MsgsConcat ==
  ASSUME NEW a \in Seq(Event), NEW b \in Seq(Event)
  PROVE  a \o b \in Seq(Event) /\ Msgs(a \o b) = Msgs(a) \o Msgs(b)
<1>. DEFINE c == a \o b
            ma == Msgs(a)
            mb == Msgs(b)
            mc == Msgs(c)
<1>1. /\ c \in Seq(Event) /\ Len(c) = Len(a) + Len(b)
      /\ Len(a) \in Nat /\ Len(b) \in Nat
      /\ \A i \in 1 .. Len(a) : c[i] = a[i]
      /\ \A i \in 1 .. Len(c) : i > Len(a) =>
           i - Len(a) \in 1 .. Len(b) /\ c[i] = b[i - Len(a)]
  OBVIOUS
<1>. HIDE DEF c
<1>2. /\ ma \in Seq(Place) /\ Len(ma) = Len(a) /\ \A i \in 1 .. Len(a) : ma[i] = a[i].msg
      /\ mb \in Seq(Place) /\ Len(mb) = Len(b) /\ \A i \in 1 .. Len(b) : mb[i] = b[i].msg
      /\ mc \in Seq(Place) /\ Len(mc) = Len(c) /\ \A i \in 1 .. Len(c) : mc[i] = c[i].msg
  BY <1>1, MsgsType
<1>. HIDE DEF ma, mb, mc
<1>. DEFINE md == ma \o mb
<1>3. /\ md \in Seq(Place) /\ Len(md) = Len(a) + Len(b)
      /\ \A i \in 1 .. Len(a) : md[i] = ma[i]
      /\ \A i \in 1 .. Len(md) : i > Len(a) =>
           i - Len(a) \in 1 .. Len(b) /\ md[i] = mb[i - Len(a)]
  <2>1. /\ ma \in Seq(Place) /\ mb \in Seq(Place)
        /\ Len(ma) = Len(a) /\ Len(mb) = Len(b)
    BY <1>2
  <2>2. /\ md \in Seq(Place) /\ Len(md) = Len(ma) + Len(mb)
        /\ \A i \in 1 .. Len(ma) : md[i] = ma[i]
        /\ \A i \in 1 .. Len(md) : i > Len(ma) =>
             i - Len(ma) \in 1 .. Len(mb) /\ md[i] = mb[i - Len(ma)]
    BY <2>1, ConcatPlaces
  <2>. QED
    BY <2>1, <2>2
<1>. HIDE DEF md
<1>4. ASSUME NEW i \in 1 .. Len(mc)
      PROVE  mc[i] = md[i]
  <2>1. CASE i <= Len(a)
    <3>1. i \in 1 .. Len(a) /\ i \in 1 .. Len(c)
      BY <1>1, <1>2, <2>1
    <3>. QED
      BY <1>1, <1>2, <1>3, <3>1
  <2>2. CASE i > Len(a)
    <3>1. i \in 1 .. Len(c) /\ i \in 1 .. Len(md)
      BY <1>1, <1>2, <1>3
    <3>2. i - Len(a) \in 1 .. Len(b) /\ c[i] = b[i - Len(a)] /\ md[i] = mb[i - Len(a)]
      BY <1>1, <1>3, <2>2, <3>1
    <3>. QED
      BY <1>2, <3>1, <3>2
  <2>. QED
    BY <1>1, <1>2, <2>1, <2>2
<1>5. mc = md
  BY <1>1, <1>2, <1>3, <1>4, SeqEqual
<1>. QED
  BY <1>1, <1>5 DEF c, ma, mb, mc, md

\* Events that carry no message leave the order alone.
LEMMA OrderedQuiet ==
  ASSUME NEW log \in Seq(Event), NEW ext \in Seq(Event),
         \A i \in 1 .. Len(ext) : ext[i].msg = NoMsg,
         NEW c, NEW nt, NEW ns, NEW n \in Nat,
         Ordered(Msgs(log), c, nt, ns, n)
  PROVE  Ordered(Msgs(log \o ext), c, nt, ns, n)
<1>. DEFINE k == Msgs(log)
            x == Msgs(ext)
<1>1. k \in Seq(Place) /\ x \in Seq(Place) /\ Msgs(log \o ext) = k \o x
  BY MsgsType, MsgsConcat
<1>2. \A m \in Elems(x) : m = NoMsg
  BY MsgsType DEF Elems
<1>3. \A i \in 1 .. Len(x) : x[i] = NoMsg
  BY MsgsType
<1>. HIDE DEF k, x
<1>4. \A m : Ok(m, NoMsg) /\ Ok(NoMsg, m)
  BY DEF Ok, NoMsg
<1>5. InOrder(x) /\ Before(Elems(k), Elems(x))
  BY <1>2, <1>3, <1>4 DEF InOrder, Before
<1>6. InOrder(k \o x) /\ Elems(k \o x) = Elems(k) \cup Elems(x)
  BY <1>1, <1>5, ConcatParts DEF Ordered, k
<1>7. Before(Elems(k \o x), Elems(c) \cup Elems(nt) \cup Elems(ns))
  BY <1>2, <1>4, <1>6 DEF Before, Ordered, k
<1>8. \A m \in Elems(k \o x) : m.id <= n
  BY <1>2, <1>6 DEF Ordered, k, NoMsg
<1>. QED
  BY <1>1, <1>6, <1>7, <1>8 DEF Ordered

LEMMA CarriesConcat ==
  ASSUME NEW a \in Seq(Event), NEW b \in Seq(Event), Carries(a), Carries(b)
  PROVE  Carries(a \o b)
<1>. DEFINE c == a \o b
<1>1. /\ Len(c) = Len(a) + Len(b) /\ Len(a) \in Nat /\ Len(b) \in Nat
      /\ \A i \in 1 .. Len(a) : c[i] = a[i]
      /\ \A i \in 1 .. Len(c) : i > Len(a) =>
           i - Len(a) \in 1 .. Len(b) /\ c[i] = b[i - Len(a)]
  OBVIOUS
<1>. HIDE DEF c
<1>2. ASSUME NEW i \in 1 .. Len(c)
      PROVE  IF c[i].type = "user/message" THEN c[i].msg \in Msg ELSE c[i].msg = NoMsg
  <2>1. CASE i <= Len(a)
    <3>1. i \in 1 .. Len(a) /\ c[i] = a[i]
      BY <1>1, <2>1
    <3>. QED
      BY <3>1 DEF Carries
  <2>2. CASE i > Len(a)
    <3>1. i - Len(a) \in 1 .. Len(b) /\ c[i] = b[i - Len(a)]
      BY <1>1, <2>2
    <3>. QED
      BY <3>1 DEF Carries
  <2>. QED
    BY <1>1, <2>1, <2>2
<1>. QED
  BY <1>2 DEF Carries, c

\* One more event without a message.
LEMMA OrderedAppend ==
  ASSUME NEW log \in Seq(Event), NEW e \in Event, e.msg = NoMsg, e.type # "user/message",
         NEW c, NEW nt, NEW ns, NEW n \in Nat,
         Ordered(Msgs(log), c, nt, ns, n), Carries(log)
  PROVE  /\ Append(log, e) \in Seq(Event)
         /\ Ordered(Msgs(Append(log, e)), c, nt, ns, n)
         /\ Carries(Append(log, e))
<1>. DEFINE x == <<e>>
<1>1. x \in Seq(Event) /\ Len(x) = 1 /\ x[1] = e /\ Append(log, e) = log \o x
      /\ Append(log, e) \in Seq(Event)
  OBVIOUS
<1>. HIDE DEF x
<1>2. Carries(x) /\ \A i \in 1 .. Len(x) : x[i].msg = NoMsg
  BY <1>1 DEF Carries
<1>. QED
  BY <1>1, <1>2, OrderedQuiet, CarriesConcat

LEMMA OrderedLater ==
  ASSUME NEW k, NEW c, NEW nt, NEW ns, NEW n \in Nat,
         Ordered(k, c, nt, ns, n),
         \A m \in Elems(k) \cup Elems(c) \cup Elems(nt) \cup Elems(ns) : m.id \in Nat
  PROVE  Ordered(k, c, nt, ns, n + 1)
BY DEF Ordered

LEMMA OrderedUnclaimed ==
  ASSUME NEW k, NEW c, NEW nt, NEW ns, NEW n, Ordered(k, c, nt, ns, n)
  PROVE  Ordered(k, <<>>, nt, ns, n)
<1>1. Elems(<<>>) = {} /\ InOrder(<<>>)
  BY PlaceSeq
<1>. DEFINE e == <<>>
<1>2. Elems(e) = {} /\ InOrder(e)
  BY <1>1
<1>. HIDE DEF e
<1>3. Ordered(k, e, nt, ns, n)
  BY <1>2 DEF Ordered, Before
<1>. QED
  BY <1>3 DEF e

\* Messages of the two queues differ, in whichever order they are read.
LEMMA QueuesApart ==
  ASSUME NEW nt \in Seq(Msg), NEW ns \in Seq(Msg),
         Before(Elems(nt), Elems(ns)),
         \A m \in Elems(nt) : m.via = "followup",
         \A m \in Elems(ns) : m.via # "followup"
  PROVE  Before(Elems(ns), Elems(nt))
BY DEF Before, Ok

LEMMA ElemsTyped ==
  ASSUME NEW s \in Seq(Msg)
  PROVE  \A m \in Elems(s) : m \in Msg /\ m.id \in Nat /\ m.id # 0
<1>1. \A m \in Elems(s) : m \in Msg
  BY DEF Elems
<1>. QED
  BY <1>1 DEF Msg

LEMMA LogElemsTyped ==
  ASSUME NEW log \in Seq(Event)
  PROVE  \A m \in Elems(Msgs(log)) : m.id \in Nat
<1>1. Msgs(log) \in Seq(Place)
  BY MsgsType
<1>2. \A m \in Elems(Msgs(log)) : m \in Place
  BY <1>1 DEF Elems
<1>. QED
  BY <1>2 DEF Place, Msg, NoMsg

\* Claiming a step's input keeps the order: the head of the queue comes before
\* the rest, and the next-step messages differ from them.
LEMMA ClaimOrdered ==
  ASSUME NEW k, NEW nt \in Seq(Msg), NEW ns \in Seq(Msg), NEW n, NEW t,
         Ordered(k, <<>>, nt, ns, n)
  PROVE  Ordered(k, Claimed(t, nt, ns), LeftQueued(t, nt), <<>>, n)
<1>. DEFINE e == <<>>
<1>1. Elems(e) = {} /\ InOrder(e) /\ Ordered(k, e, nt, ns, n)
  BY PlaceSeq
<1>. HIDE DEF e
<1>2. Before(Elems(ns), Elems(nt))
  BY <1>1, QueuesApart DEF Ordered
<1>3. CASE TakesQueued(t, nt)
  <2>. DEFINE h == Head(nt)
              one == <<h>>
              b == Tail(nt)
              c == one \o ns
  <2>1. nt # <<>>
    BY <1>3 DEF TakesQueued
  <2>2. /\ h \in Elems(nt) /\ h \in Msg /\ b \in Seq(Msg)
        /\ Elems(b) \subseteq Elems(nt) /\ InOrder(b) /\ Before({h}, Elems(b))
    BY <1>1, <2>1, HeadParts DEF Ordered
  <2>3. Claimed(t, nt, ns) = c /\ LeftQueued(t, nt) = b
    BY <1>3 DEF Claimed, LeftQueued
  <2>. HIDE DEF h, b
  <2>4. one \in Seq(Place) /\ Elems(one) = {h} /\ InOrder(one)
    BY <2>2, OneParts DEF Place
  <2>. HIDE DEF one
  <2>5. ns \in Seq(Place) /\ Before(Elems(one), Elems(ns)) /\ InOrder(ns)
    BY <1>1, <2>2, <2>4, PlaceSeq DEF Ordered, Before
  <2>6. Elems(c) = {h} \cup Elems(ns) /\ InOrder(c)
    BY <2>4, <2>5, ConcatParts
  <2>. HIDE DEF c
  <2>7. Ordered(k, c, b, e, n)
    BY <1>1, <1>2, <2>2, <2>6 DEF Ordered, Before
  <2>. QED
    BY <2>3, <2>7 DEF e
<1>4. CASE ~TakesQueued(t, nt)
  <2>1. Claimed(t, nt, ns) = ns /\ LeftQueued(t, nt) = nt
    BY <1>4 DEF Claimed, LeftQueued
  <2>2. Ordered(k, ns, nt, e, n)
    BY <1>1, <1>2 DEF Ordered, Before
  <2>. QED
    BY <2>1, <2>2 DEF e
<1>. QED
  BY <1>3, <1>4

LEMMA BeginStepOrders ==
  ASSUME FlushesOrdered(sent'), NEW nt \in Seq(Msg), NEW ns \in Seq(Msg),
         NEW log, NEW t \in Turn, Carries(log),
         Ordered(Msgs(log), <<>>, nt, ns, sent'), BeginStep(nt, ns, log, t)
  PROVE  OrderStepInv'
<1>1. /\ nextTurn' = LeftQueued(t, nt) /\ nextStep' = <<>> /\ events' = log
      /\ turn'.claimed = Claimed(t, nt, ns) /\ flushes' = flushes
  BY DEF BeginStep, Turn
<1>2. Ordered(Msgs(log), Claimed(t, nt, ns), LeftQueued(t, nt), <<>>, sent')
  BY ClaimOrdered
<1>3. Ordered(Msgs(events'), turn'.claimed, nextTurn', nextStep', sent')
  BY <1>1, <1>2
<1>4. Carries(events') /\ \A f \in flushes' : SavedOrdered(f, sent')
  BY <1>1 DEF FlushesOrdered
<1>. QED
  BY <1>3, <1>4 DEF OrderStepInv

LEMMA OpenTurnOrders ==
  ASSUME sent' \in Nat, FlushesOrdered(sent'), NEW nt \in Seq(Msg), NEW ns \in Seq(Msg),
         NEW log \in Seq(Event), NEW n \in Nat, Carries(log),
         Ordered(Msgs(log), <<>>, nt, ns, sent'), OpenTurn(nt, ns, log, n)
  PROVE  OrderStepInv'
<1>. DEFINE t == FreshTurn(n + 1)
            e == Ev("turn/start", t)
            c == <<>>
            m == sent'
<1>1. t \in Turn /\ e \in Event /\ e.type = "turn/start" /\ e.msg = NoMsg
  <2>1. t \in Turn
    BY FreshTurnType
  <2>. QED
    BY <2>1, EvTurn DEF EventType, Ev
<1>2. BeginStep(nt, ns, Append(log, e), t)
  BY DEF OpenTurn
<1>3. Ordered(Msgs(log), c, nt, ns, m) /\ m \in Nat
  OBVIOUS
<1>. HIDE DEF t, e, c, m
<1>4. Ordered(Msgs(Append(log, e)), c, nt, ns, m) /\ Carries(Append(log, e))
  BY <1>1, <1>3, OrderedAppend
<1>. QED
  BY <1>1, <1>2, <1>4, BeginStepOrders DEF c, m

LEMMA EndTurnOrders ==
  ASSUME sent' \in Nat, FlushesOrdered(sent'), NEW nt \in Seq(Msg), NEW ns \in Seq(Msg),
         NEW log \in Seq(Event), NEW t \in Turn, NEW r \in Reason, Carries(log),
         Ordered(Msgs(log), <<>>, nt, ns, sent'), EndTurn(nt, ns, log, t, r)
  PROVE  OrderStepInv'
<1>. DEFINE e == TurnEnd(t, r)
            log2 == Append(log, e)
            c == <<>>
            m == sent'
<1>1. e \in Event /\ e.type = "turn/end" /\ e.msg = NoMsg /\ t.seq \in Nat
  BY TurnEndType DEF Turn, TurnEnd, Ev
<1>2. Ordered(Msgs(log), c, nt, ns, m) /\ m \in Nat
  OBVIOUS
<1>. HIDE DEF e, c, m
<1>3. log2 \in Seq(Event) /\ Ordered(Msgs(log2), c, nt, ns, m) /\ Carries(log2)
  BY <1>1, <1>2, OrderedAppend
<1>4. CASE HasPending(nt, ns)
  <2>1. OpenTurn(nt, ns, log2, t.seq)
    BY <1>4 DEF EndTurn, e
  <2>. HIDE DEF log2
  <2>. QED
    BY <1>1, <1>3, <2>1, OpenTurnOrders DEF c, m
<1>5. CASE ~HasPending(nt, ns)
  <2>1. /\ events' = log2 /\ nextTurn' = nt /\ nextStep' = ns /\ turn'.claimed = c
        /\ flushes' = flushes \cup FlushAtEnd(log2, nt, ns)
    BY <1>5 DEF EndTurn, FreshTurn, e, c
  <2>. HIDE DEF log2
  <2>2. \A f \in FlushAtEnd(log2, nt, ns) : SavedOrdered(f, m)
    <3>1. \A f \in FlushAtEnd(log2, nt, ns) :
            f.events = log2 /\ f.nextTurn = nt /\ f.nextStep = ns
      BY DEF FlushAtEnd
    <3>. QED
      BY <1>3, <3>1 DEF SavedOrdered, c
  <2>3. Ordered(Msgs(events'), turn'.claimed, nextTurn', nextStep', sent')
    BY <1>3, <2>1 DEF m
  <2>4. Carries(events') /\ \A f \in flushes' : SavedOrdered(f, sent')
    BY <1>3, <2>1, <2>2 DEF FlushesOrdered, m
  <2>. QED
    BY <2>3, <2>4 DEF OrderStepInv
<1>. QED
  BY <1>4, <1>5

\* A message just sent comes after all others.
LEMMA AfterAll ==
  ASSUME NEW A, NEW n \in Nat, \A x \in A : x.id \in Nat /\ x.id <= n,
         NEW m \in Msg, m.id = n + 1
  PROVE  /\ Before(A, {m})
         /\ \A x \in A : x.id # m.id /\ x.id <= n + 1
BY DEF Before, Ok

LEMMA AppendParts ==
  ASSUME NEW s \in Seq(Msg), NEW m \in Msg
  PROVE  /\ Append(s, m) \in Seq(Msg) /\ Elems(Append(s, m)) = Elems(s) \cup {m}
         /\ InOrder(s) /\ Before(Elems(s), {m}) => InOrder(Append(s, m))
<1>. DEFINE one == <<m>>
<1>1. Append(s, m) \in Seq(Msg) /\ Append(s, m) = s \o one
  OBVIOUS
<1>2. s \in Seq(Place) /\ m \in Place
  BY PlaceSeq DEF Place
<1>3. one \in Seq(Place) /\ Elems(one) = {m} /\ InOrder(one)
  BY <1>2, OneParts
<1>. HIDE DEF one
<1>. QED
  BY <1>1, <1>2, <1>3, ConcatParts

LEMMA SentOrdered ==
  ASSUME NEW log \in Seq(Event), NEW c \in Seq(Msg),
         NEW nt \in Seq(Msg), NEW ns \in Seq(Msg), NEW n \in Nat,
         Ordered(Msgs(log), c, nt, ns, n), NEW m \in Msg, m.id = n + 1
  PROVE  /\ m.via = "followup" => Ordered(Msgs(log), c, Append(nt, m), ns, n + 1)
         /\ m.via # "followup" => Ordered(Msgs(log), c, nt, Append(ns, m), n + 1)
<1>. DEFINE k == Msgs(log)
            A == Elems(k) \cup Elems(c) \cup Elems(nt) \cup Elems(ns)
<1>1. \A x \in A : x.id \in Nat /\ x.id <= n
  BY ElemsTyped, LogElemsTyped DEF Ordered
<1>. HIDE DEF k
<1>2. Before(A, {m}) /\ \A x \in A : x.id # m.id /\ x.id <= n + 1
  BY <1>1, AfterAll
<1>3. ASSUME m.via = "followup"
      PROVE  Ordered(k, c, Append(nt, m), ns, n + 1)
  <2>. DEFINE nt2 == Append(nt, m)
  <2>1. Elems(nt2) = Elems(nt) \cup {m} /\ InOrder(nt2)
    BY <1>2, AppendParts DEF Before, Ordered, k
  <2>. HIDE DEF nt2
  <2>2. Before(Elems(nt2), Elems(ns))
    BY <1>2, <1>3, <2>1 DEF Before, Ordered, Ok, k
  <2>3. /\ Before(Elems(k), Elems(c) \cup Elems(nt2) \cup Elems(ns))
        /\ Before(Elems(c), Elems(nt2) \cup Elems(ns))
    BY <1>2, <2>1 DEF Before, Ordered, k
  <2>4. \A x \in Elems(k) \cup Elems(c) \cup Elems(nt2) \cup Elems(ns) : x.id <= n + 1
    BY <1>2, <2>1
  <2>5. \A x \in Elems(nt2) : x.via = "followup"
    BY <1>3, <2>1 DEF Ordered, k
  <2>. QED
    BY <2>1, <2>2, <2>3, <2>4, <2>5 DEF Ordered, k, nt2
<1>4. ASSUME m.via # "followup"
      PROVE  Ordered(k, c, nt, Append(ns, m), n + 1)
  <2>. DEFINE ns2 == Append(ns, m)
  <2>1. Elems(ns2) = Elems(ns) \cup {m} /\ InOrder(ns2)
    BY <1>2, AppendParts DEF Before, Ordered, k
  <2>. HIDE DEF ns2
  <2>2. Before(Elems(nt), Elems(ns2))
    BY <1>2, <2>1 DEF Before, Ordered, k
  <2>3. /\ Before(Elems(k), Elems(c) \cup Elems(nt) \cup Elems(ns2))
        /\ Before(Elems(c), Elems(nt) \cup Elems(ns2))
    BY <1>2, <2>1 DEF Before, Ordered, k
  <2>4. \A x \in Elems(k) \cup Elems(c) \cup Elems(nt) \cup Elems(ns2) : x.id <= n + 1
    BY <1>2, <2>1
  <2>5. \A x \in Elems(ns2) : x.via # "followup"
    BY <1>4, <2>1 DEF Ordered, k
  <2>. QED
    BY <2>1, <2>2, <2>3, <2>4, <2>5 DEF Ordered, k, ns2
<1>. QED
  BY <1>3, <1>4 DEF k

\* What is saved stays in order while more is sent.
LEMMA SavedOrderedLater ==
  ASSUME NEW s \in Saved, NEW n \in Nat, SavedOrdered(s, n)
  PROVE  SavedOrdered(s, n + 1)
<1>. DEFINE c == <<>>
<1>1. /\ s.events \in Seq(Event) /\ s.nextTurn \in Seq(Msg) /\ s.nextStep \in Seq(Msg)
      /\ c \in Seq(Msg)
  BY DEF Saved
<1>. HIDE DEF c
<1>2. \A m \in Elems(Msgs(s.events)) \cup Elems(c) \cup Elems(s.nextTurn)
               \cup Elems(s.nextStep) : m.id \in Nat
  BY <1>1, ElemsTyped, LogElemsTyped
<1>3. Ordered(Msgs(s.events), c, s.nextTurn, s.nextStep, n) /\ Carries(s.events)
  BY DEF SavedOrdered, c
<1>. QED
  BY <1>2, <1>3, OrderedLater DEF SavedOrdered, c

\* The next-step queue after a tool result.
LEMMA TookOrdered ==
  ASSUME TypeOK, OrderInv, NEW ns \in Seq(Msg), Took(ns)
  PROVE  /\ sent' \in Nat /\ FlushesOrdered(sent') /\ SavedOrdered(disk, sent')
         /\ Ordered(Msgs(events), turn.claimed, nextTurn, ns, sent')
<1>1. /\ sent \in 0 .. MaxMsgs /\ sent \in Nat /\ events \in Seq(Event)
      /\ turn.claimed \in Seq(Msg) /\ nextTurn \in Seq(Msg) /\ nextStep \in Seq(Msg)
      /\ disk \in Saved /\ flushes \subseteq Saved
  BY BoundsAssumption DEF TypeOK, Turn
<1>2. CASE ns = nextStep /\ sent' = sent
  BY <1>1, <1>2 DEF OrderInv, FlushesOrdered
<1>3. CASE ~(ns = nextStep /\ sent' = sent)
  <2>. DEFINE m == [id |-> sent + 1, via |-> "inject"]
  <2>1. sent < MaxMsgs /\ sent' = sent + 1 /\ ns = Append(nextStep, m)
    BY <1>3 DEF Took
  <2>2. m \in Msg /\ m.id = sent + 1 /\ m.via # "followup"
    BY <1>1, <2>1, BoundsAssumption DEF Msg, Via
  <2>. HIDE DEF m
  <2>3. Ordered(Msgs(events), turn.claimed, nextTurn, ns, sent + 1)
    BY <1>1, <2>1, <2>2, SentOrdered DEF OrderInv
  <2>4. SavedOrdered(disk, sent + 1) /\ \A f \in flushes : SavedOrdered(f, sent + 1)
    BY <1>1, SavedOrderedLater DEF OrderInv
  <2>. QED
    BY <1>1, <2>1, <2>3, <2>4 DEF FlushesOrdered
<1>. QED
  BY <1>2, <1>3

\* The claimed messages enter the log, where they come last.
LEMMA EnterOrdered ==
  ASSUME TypeOK, OrderInv, Enter
  PROVE  OrderStepInv'
<1>. DEFINE e == Ev("step/start", turn)
            log == Append(events, e)
            c == turn.claimed
            msgs == [i \in 1 .. Len(c) |-> UserMessage(turn, c[i])]
            none == <<>>
<1>1. /\ events \in Seq(Event) /\ turn \in Turn /\ c \in Seq(Msg) /\ sent \in Nat
      /\ Len(c) \in Nat
  BY BoundsAssumption DEF TypeOK, Turn
<1>2. /\ events' = log \o msgs /\ turn'.claimed = none
      /\ UNCHANGED <<nextTurn, nextStep, flushes, sent>>
  BY <1>1 DEF Enter, DriverUnchanged, Turn
<1>3. e \in Event /\ e.type = "step/start" /\ e.msg = NoMsg
  BY <1>1, EvTurn DEF EventType, Ev
<1>4. \A i \in 1 .. Len(c) :
        /\ msgs[i] \in Event /\ msgs[i].type = "user/message" /\ msgs[i].msg = c[i]
        /\ msgs[i].msg \in Msg
  <2>. SUFFICES ASSUME NEW i \in 1 .. Len(c)
               PROVE  /\ msgs[i] \in Event /\ msgs[i].type = "user/message"
                      /\ msgs[i].msg = c[i] /\ msgs[i].msg \in Msg
    OBVIOUS
  <2>1. c[i] \in Msg /\ msgs[i] = UserMessage(turn, c[i])
    BY <1>1
  <2>. HIDE DEF msgs
  <2>. QED
    BY <1>1, <2>1, UserMessageType DEF UserMessage, Ev
<1>5. msgs \in Seq(Event) /\ Len(msgs) = Len(c)
  <2>1. msgs \in [1 .. Len(c) -> Event]
    BY <1>4
  <2>. QED
    BY <1>1, <2>1
<1>. HIDE DEF e, msgs
<1>6. Ordered(Msgs(events), c, nextTurn, nextStep, sent) /\ Carries(events)
  BY DEF OrderInv
<1>. HIDE DEF c
<1>7. /\ log \in Seq(Event) /\ Carries(log)
      /\ Ordered(Msgs(log), c, nextTurn, nextStep, sent)
  BY <1>1, <1>3, <1>6, OrderedAppend
<1>. HIDE DEF log
<1>8. Msgs(msgs) = c /\ c \in Seq(Place)
  <2>1. c \in Seq(Place)
    BY <1>1, PlaceSeq
  <2>2. /\ Msgs(msgs) \in Seq(Place) /\ Len(Msgs(msgs)) = Len(c)
        /\ \A i \in 1 .. Len(Msgs(msgs)) : Msgs(msgs)[i] = c[i]
    BY <1>4, <1>5, MsgsType
  <2>. QED
    BY <2>1, <2>2, SeqEqual
<1>9. Carries(msgs)
  BY <1>4, <1>5 DEF Carries
<1>10. Carries(log \o msgs)
  BY <1>5, <1>7, <1>9, CarriesConcat
<1>. DEFINE k == Msgs(log)
            k2 == Msgs(log \o msgs)
<1>11. k \in Seq(Place) /\ k2 = k \o c
  BY <1>5, <1>7, <1>8, MsgsType, MsgsConcat
<1>12. Ordered(k, c, nextTurn, nextStep, sent)
  BY <1>7
<1>. HIDE DEF k, k2
<1>13. InOrder(k2) /\ Elems(k2) = Elems(k) \cup Elems(c)
  BY <1>8, <1>11, <1>12, ConcatParts DEF Ordered, Before
<1>14. Elems(none) = {} /\ InOrder(none)
  BY PlaceSeq
<1>. HIDE DEF none
<1>15. Ordered(k2, none, nextTurn, nextStep, sent)
  BY <1>12, <1>13, <1>14 DEF Ordered, Before
<1>16. Ordered(Msgs(events'), turn'.claimed, nextTurn', nextStep', sent')
  BY <1>2, <1>15 DEF k2
<1>17. Carries(events') /\ \A f \in flushes' : SavedOrdered(f, sent')
  BY <1>2, <1>10 DEF OrderInv
<1>. QED
  BY <1>16, <1>17 DEF OrderStepInv

LEMMA DriverOrders ==
  ASSUME TypeOK, ClaimInv, OrderInv, Driver
  PROVE  OrderInv'
<1>. DEFINE none == <<>>
<1>1. /\ events \in Seq(Event) /\ turn \in Turn /\ turn.claimed \in Seq(Msg)
      /\ turn.reason \in Reason /\ sent \in Nat
      /\ nextTurn \in Seq(Msg) /\ nextStep \in Seq(Msg)
  BY BoundsAssumption DEF TypeOK, Turn
<1>2. DriverStep /\ disk' = disk
  BY DriverSteps
<1>3. /\ FlushesOrdered(sent) /\ Carries(events)
      /\ Ordered(Msgs(events), turn.claimed, nextTurn, nextStep, sent)
  BY DEF OrderInv, FlushesOrdered
<1>4. Ordered(Msgs(events), none, nextTurn, nextStep, sent)
  BY <1>3, OrderedUnclaimed
<1>. HIDE DEF none
<1>5. ASSUME OrderStepInv', sent' = sent
      PROVE  OrderInv'
  BY <1>2, <1>5 DEF OrderInv, OrderStepInv
<1>6. CASE Assembled /\ ~Aborted(turn)
  <2>1. UNCHANGED <<nextTurn, nextStep, events, turn, flushes, sent>>
    BY <1>6 DEF Assembled, DriverUnchanged
  <2>. QED
    BY <1>2, <2>1 DEF OrderInv
<1>7. CASE Enter
  <2>1. OrderStepInv' /\ sent' = sent
    BY <1>7, EnterOrdered DEF Enter, DriverUnchanged
  <2>. QED
    BY <1>5, <2>1
<1>8. CASE Reject
  <2>1. /\ UNCHANGED <<nextTurn, nextStep, events, flushes, sent>>
        /\ turn'.claimed = none
    BY <1>1, <1>8 DEF Reject, DriverUnchanged, Turn, none
  <2>. QED
    BY <1>2, <1>4, <2>1 DEF OrderInv
<1>9. ASSUME NEW t \in Turn, BetweenSteps(t)
      PROVE  OrderInv'
  <2>1. \/ \E r \in Reason : EndTurn(nextTurn, nextStep, events, t, r)
        \/ BeginStep(nextTurn, nextStep, events, t)
    BY <1>1, <1>9 DEF BetweenSteps, Reason
  <2>2. sent' = sent
    BY <1>9 DEF BetweenSteps
  <2>3. OrderStepInv'
    BY <1>1, <1>3, <1>4, <2>1, <2>2, EndTurnOrders, BeginStepOrders DEF none
  <2>. QED
    BY <1>5, <2>2, <2>3
<1>10. ASSUME NEW ns \in Seq(Msg), NEW ext \in Seq(Event), NEW t \in Turn,
              InStep(ns, ext, t)
       PROVE  OrderInv'
  <2>. DEFINE log == events \o ext
              e == Ev("step/end", turn)
              log2 == Append(log, e)
              n == sent'
  <2>1. turn.claimed = none /\ t.claimed = none
    BY <1>10 DEF InStep, SameTurn, ClaimInv, none
  <2>2. /\ n \in Nat /\ FlushesOrdered(n) /\ SavedOrdered(disk, n)
        /\ Ordered(Msgs(events), none, nextTurn, ns, n)
    BY <1>10, <2>1, TookOrdered DEF InStep
  <2>3. \A i \in 1 .. Len(ext) : ext[i].msg = NoMsg /\ ext[i].type # "user/message"
    BY <1>10 DEF InStep, Inside, Within
  <2>. HIDE DEF n
  <2>4. /\ log \in Seq(Event) /\ Ordered(Msgs(log), none, nextTurn, ns, n)
        /\ Carries(log)
    <3>1. Carries(ext)
      BY <2>3 DEF Carries
    <3>. QED
      BY <1>1, <1>3, <2>2, <2>3, <3>1, OrderedQuiet, CarriesConcat, MsgsConcat
  <2>5. e \in Event /\ e.type = "step/end" /\ e.msg = NoMsg
    BY <1>1, EvTurn DEF EventType, Ev
  <2>6. \/ Waits(ns, log, t, "tools")
        \/ GoesOn(ns, log2, t)
    BY <1>10 DEF InStep
  <2>. HIDE DEF log, e
  <2>7. /\ log2 \in Seq(Event) /\ Ordered(Msgs(log2), none, nextTurn, ns, n)
        /\ Carries(log2)
    BY <2>2, <2>4, <2>5, OrderedAppend
  <2>. HIDE DEF log2
  <2>8. ASSUME NEW l, NEW await, Waits(ns, l, t, await),
               Ordered(Msgs(l), none, nextTurn, ns, n), Carries(l)
        PROVE  OrderStepInv'
    <3>1. /\ nextTurn' = nextTurn /\ nextStep' = ns /\ events' = l
          /\ turn'.claimed = none /\ flushes' = flushes
      BY <2>1, <2>8 DEF Waits
    <3>2. Ordered(Msgs(events'), turn'.claimed, nextTurn', nextStep', sent')
      BY <2>8, <3>1 DEF n
    <3>3. Carries(events') /\ \A f \in flushes' : SavedOrdered(f, sent')
      BY <2>2, <2>8, <3>1 DEF FlushesOrdered, n
    <3>. QED
      BY <3>2, <3>3 DEF OrderStepInv
  <2>9. ASSUME GoesOn(ns, log2, t)
        PROVE  OrderStepInv'
    <3>1. \/ \E r \in Reason : EndTurn(nextTurn, ns, log2, t, r)
          \/ BeginStep(nextTurn, ns, log2, t)
          \/ Waits(ns, log2, t, "stopping")
      BY <2>9 DEF GoesOn, Reason
    <3>2. ASSUME NEW r \in Reason, EndTurn(nextTurn, ns, log2, t, r)
          PROVE  OrderStepInv'
      BY <1>1, <2>2, <2>7, <3>2, EndTurnOrders DEF none, n
    <3>3. ASSUME BeginStep(nextTurn, ns, log2, t)
          PROVE  OrderStepInv'
      BY <1>1, <2>2, <2>7, <3>3, BeginStepOrders DEF none, n
    <3>. QED
      BY <2>7, <2>8, <3>1, <3>2, <3>3
  <2>10. OrderStepInv'
    BY <2>4, <2>6, <2>8, <2>9
  <2>. QED
    BY <1>2, <2>2, <2>10 DEF OrderInv, OrderStepInv, n
<1>. QED
  BY <1>2, <1>6, <1>7, <1>8, <1>9, <1>10 DEF DriverStep

LEMMA SendOrders ==
  ASSUME TypeOK, ClaimInv, OrderInv, NEW via \in Via, Send(via)
  PROVE  OrderInv'
<1>. DEFINE m == [id |-> sent + 1, via |-> via]
            nt == IF via = "followup" THEN Enqueue(nextTurn, m) ELSE nextTurn
            ns == IF via = "followup" THEN nextStep ELSE Enqueue(nextStep, m)
            n == sent'
            none == <<>>
<1>1. /\ nextTurn \in Seq(Msg) /\ nextStep \in Seq(Msg) /\ events \in Seq(Event)
      /\ turn.claimed \in Seq(Msg) /\ turn.seq \in Nat /\ sent \in Nat
      /\ disk \in Saved /\ flushes \subseteq Saved
  BY BoundsAssumption DEF TypeOK, Turn
<1>2. m \in Msg /\ m.id = sent + 1 /\ m.via = via /\ n = sent + 1 /\ disk' = disk
  BY <1>1, BoundsAssumption DEF Send, Msg
<1>3. \/ OpenTurn(nt, ns, events, turn.seq) /\ ~Driving
      \/ nextTurn' = nt /\ nextStep' = ns /\ UNCHANGED <<events, pc, turn, flushes>>
  BY DEF Send
<1>. HIDE DEF m
<1>4. nt \in Seq(Msg) /\ ns \in Seq(Msg)
  BY <1>1, <1>2 DEF Enqueue
<1>5. Ordered(Msgs(events), turn.claimed, nt, ns, sent + 1)
  BY <1>1, <1>2, SentOrdered DEF OrderInv, Enqueue
<1>6. SavedOrdered(disk, sent + 1) /\ \A f \in flushes : SavedOrdered(f, sent + 1)
  BY <1>1, SavedOrderedLater DEF OrderInv
<1>. HIDE DEF nt, ns, n
<1>7. FlushesOrdered(n) /\ Carries(events) /\ n \in Nat
  BY <1>1, <1>2, <1>6 DEF FlushesOrdered, OrderInv
<1>8. CASE OpenTurn(nt, ns, events, turn.seq) /\ ~Driving
  <2>1. turn.claimed = none
    BY <1>8 DEF ClaimInv, Driving
  <2>2. Ordered(Msgs(events), none, nt, ns, n)
    BY <1>2, <1>5, <2>1
  <2>. HIDE DEF none
  <2>3. OrderStepInv'
    BY <1>1, <1>4, <1>7, <1>8, <2>2, OpenTurnOrders DEF none, n
  <2>. QED
    BY <1>2, <1>6, <2>3 DEF OrderInv, OrderStepInv, n
<1>9. CASE nextTurn' = nt /\ nextStep' = ns /\ UNCHANGED <<events, pc, turn, flushes>>
  BY <1>2, <1>5, <1>6, <1>9 DEF OrderInv, n
<1>. QED
  BY <1>3, <1>8, <1>9

LEMMA NextOrders ==
  ASSUME TypeOK, ClaimInv, OrderInv, [Next]_vars
  PROVE  OrderInv'
<1>. DEFINE none == <<>>
<1>1. CASE Driver
  BY <1>1, DriverOrders
<1>2. ASSUME NEW via \in Via, Send(via)
      PROVE  OrderInv'
  BY <1>2, SendOrders
<1>3. CASE Cancel
  <2>1. /\ turn'.claimed = turn.claimed /\ nextTurn' = none /\ nextStep' = none
        /\ UNCHANGED <<events, disk, flushes, sent>>
    BY <1>3 DEF Cancel, Abort, TypeOK, Turn
  <2>2. Elems(none) = {} /\ InOrder(none)
    BY PlaceSeq
  <2>. HIDE DEF none
  <2>3. Ordered(Msgs(events), turn.claimed, none, none, sent)
    BY <2>2 DEF OrderInv, Ordered, Before
  <2>. QED
    BY <2>1, <2>3 DEF OrderInv
<1>4. CASE Dispose
  <2>1. /\ turn'.claimed = turn.claimed
        /\ UNCHANGED <<events, disk, flushes, sent, nextTurn, nextStep>>
    BY <1>4 DEF Dispose, Abort, TypeOK, Turn
  <2>. QED
    BY <2>1 DEF OrderInv
<1>5. CASE TornDown
  BY <1>5 DEF TornDown, OrderInv
<1>6. ASSUME NEW f \in flushes, NEW ok \in BOOLEAN, FlushSettles(f, ok)
      PROVE  OrderInv'
  <2>1. /\ UNCHANGED <<events, turn, sent, nextTurn, nextStep>>
        /\ flushes' = flushes \ {f}
        /\ disk' = f \/ disk' = disk
    BY <1>6 DEF FlushSettles
  <2>. QED
    BY <2>1 DEF OrderInv
<1>7. CASE Checkpoint
  <2>1. /\ UNCHANGED <<events, turn, sent, nextTurn, nextStep, flushes>>
        /\ disk'.events = events /\ disk'.nextTurn = nextTurn /\ disk'.nextStep = nextStep
        /\ turn.claimed = none
    BY <1>7 DEF Checkpoint, ClaimInv
  <2>2. SavedOrdered(disk', sent)
    BY <2>1 DEF OrderInv, SavedOrdered
  <2>. QED
    BY <2>1, <2>2 DEF OrderInv
<1>8. CASE CrashAndResume
  <2>1. /\ events' = disk.events /\ nextTurn' = disk.nextTurn /\ nextStep' = disk.nextStep
        /\ turn'.claimed = none /\ flushes' = {} /\ UNCHANGED <<disk, sent>>
    BY <1>8 DEF CrashAndResume, FreshTurn
  <2>2. Ordered(Msgs(disk.events), none, disk.nextTurn, disk.nextStep, sent)
        /\ Carries(disk.events)
    BY DEF OrderInv, SavedOrdered
  <2>. QED
    BY <2>1, <2>2 DEF OrderInv
<1>9. CASE UNCHANGED vars
  BY <1>9 DEF vars, OrderInv
<1>. QED
  BY <1>1, <1>2, <1>3, <1>4, <1>5, <1>6, <1>7, <1>8, <1>9 DEF Next, Settle

\* No two places of s hold the same message.
Distinct(s) ==
  \A i, j \in 1 .. Len(s) : s[i].id = s[j].id /\ s[i].id # 0 => i = j

Apart(A, B) == \A m \in A, n \in B : ~(m.id = n.id /\ m.id # 0)

LEMMA InOrderDistinct ==
  ASSUME NEW s \in Seq(Place), InOrder(s)
  PROVE  Distinct(s)
<1>. SUFFICES ASSUME NEW i \in 1 .. Len(s), NEW j \in 1 .. Len(s),
                     s[i].id = s[j].id, s[i].id # 0, i # j
             PROVE  FALSE
  BY DEF Distinct
<1>1. s[i].id \in Nat /\ s[j].id \in Nat
  <2>1. s[i] \in Place /\ s[j] \in Place
    OBVIOUS
  <2>. QED
    BY <2>1 DEF Place, Msg, NoMsg
<1>2. CASE i < j
  BY <1>1, <1>2 DEF InOrder, Ok
<1>3. CASE j < i
  BY <1>1, <1>3 DEF InOrder, Ok
<1>. QED
  BY <1>2, <1>3

LEMMA BeforeApart ==
  ASSUME NEW A, NEW B, Before(A, B), \A m \in A : m.id \in Nat
  PROVE  Apart(A, B) /\ Apart(B, A)
BY DEF Before, Apart, Ok

LEMMA DistinctConcat ==
  ASSUME NEW a \in Seq(Place), NEW b \in Seq(Place),
         Distinct(a), Distinct(b), Apart(Elems(a), Elems(b))
  PROVE  Distinct(a \o b)
<1>. DEFINE c == a \o b
<1>1. /\ Len(c) = Len(a) + Len(b) /\ Len(a) \in Nat /\ Len(b) \in Nat
      /\ \A i \in 1 .. Len(a) : c[i] = a[i]
      /\ \A i \in 1 .. Len(c) : i > Len(a) =>
           i - Len(a) \in 1 .. Len(b) /\ c[i] = b[i - Len(a)]
  BY ConcatPlaces
<1>. HIDE DEF c
<1>2. ASSUME NEW i \in 1 .. Len(c)
      PROVE  \/ i \in 1 .. Len(a) /\ c[i] = a[i] /\ c[i] \in Elems(a)
             \/ i > Len(a) /\ i - Len(a) \in 1 .. Len(b) /\ c[i] = b[i - Len(a)]
                /\ c[i] \in Elems(b)
  <2>1. CASE i <= Len(a)
    <3>1. i \in 1 .. Len(a) /\ c[i] = a[i]
      BY <1>1, <2>1
    <3>. QED
      BY <3>1 DEF Elems
  <2>2. CASE i > Len(a)
    <3>1. i - Len(a) \in 1 .. Len(b) /\ c[i] = b[i - Len(a)]
      BY <1>1, <2>2
    <3>. QED
      BY <2>2, <3>1 DEF Elems
  <2>. QED
    BY <1>1, <2>1, <2>2
<1>3. ASSUME NEW i \in 1 .. Len(c), NEW j \in 1 .. Len(c),
             c[i].id = c[j].id, c[i].id # 0
      PROVE  i = j
  <2>1. CASE i \in 1 .. Len(a) /\ j \in 1 .. Len(a)
    BY <1>1, <1>3, <2>1 DEF Distinct
  <2>2. CASE i > Len(a) /\ j > Len(a)
    <3>1. i - Len(a) = j - Len(a)
      BY <1>1, <1>3, <2>2 DEF Distinct
    <3>. QED
      BY <1>1, <3>1
  <2>3. CASE c[i] \in Elems(a) /\ c[j] \in Elems(b)
    BY <1>3, <2>3 DEF Apart
  <2>4. CASE c[i] \in Elems(b) /\ c[j] \in Elems(a)
    BY <1>3, <2>4 DEF Apart
  <2>. QED
    BY <1>2, <2>1, <2>2, <2>3, <2>4
<1>. QED
  BY <1>3 DEF Distinct, c

\* A message is in one place, and each queue's messages are logged in the
\* order they were sent, whatever was cancelled, failed, disposed of or killed
\* in between.
THEOREM MessagesOnce == Spec => []MessageOnce
<1>1. Init => OrderInv
  <2>. DEFINE none == <<>>
  <2>. SUFFICES ASSUME Init
               PROVE  OrderInv
    OBVIOUS
  <2>1. Elems(none) = {} /\ InOrder(none)
    BY PlaceSeq
  <2>2. none \in Seq(Event) /\ Len(none) = 0
    OBVIOUS
  <2>3. /\ events = none /\ nextTurn = none /\ nextStep = none /\ turn.claimed = none
        /\ disk.events = none /\ disk.nextTurn = none /\ disk.nextStep = none
        /\ flushes = {} /\ sent = 0
    BY DEF Init, FreshTurn
  <2>. HIDE DEF none
  <2>4. Msgs(none) \in Seq(Place) /\ Len(Msgs(none)) = 0
    BY <2>2, MsgsType
  <2>. DEFINE k == Msgs(none)
  <2>. HIDE DEF k
  <2>5. Elems(k) = {} /\ InOrder(k)
    BY <2>4 DEF Elems, InOrder, k
  <2>6. Ordered(k, none, none, none, 0)
    BY <2>1, <2>5 DEF Ordered, Before
  <2>7. Carries(none)
    BY <2>2 DEF Carries
  <2>. QED
    BY <2>3, <2>6, <2>7 DEF OrderInv, SavedOrdered, k, none
<1>2. TypeOK /\ ClaimInv /\ OrderInv /\ [Next]_vars => OrderInv'
  BY NextOrders
<1>3. TypeOK /\ OrderInv => MessageOnce
  <2>. SUFFICES ASSUME TypeOK, OrderInv
               PROVE  MessageOnce
    OBVIOUS
  <2>. DEFINE k == Msgs(events)
              c == turn.claimed
              p == nextTurn \o nextStep
              q == p \o c
              places == q \o k
  <2>1. /\ events \in Seq(Event) /\ DOMAIN events = 1 .. Len(events)
        /\ Len(events) \in Nat
        /\ k \in Seq(Place) /\ Len(k) = Len(events)
        /\ \A i \in 1 .. Len(events) : k[i] = events[i].msg
    BY MsgsType DEF TypeOK
  <2>2. /\ nextTurn \in Seq(Msg) /\ nextStep \in Seq(Msg) /\ c \in Seq(Msg)
        /\ nextTurn \in Seq(Place) /\ nextStep \in Seq(Place) /\ c \in Seq(Place)
    BY PlaceSeq DEF TypeOK, Turn
  <2>3. Ordered(k, c, nextTurn, nextStep, sent) /\ Carries(events)
    BY DEF OrderInv
  <2>4. k = [i \in 1 .. Len(events) |-> IF i \in Entries THEN events[i].msg ELSE NoMsg]
    BY <2>1, <2>3 DEF Msgs, Carries, Entries
  <2>5. OncePlaced <=> \A i, j \in DOMAIN places :
                         places[i].id = places[j].id /\ places[i].id # 0 => i = j
    BY <2>4 DEF OncePlaced
  <2>. HIDE DEF k, c
  <2>6. \A m \in Elems(k) \cup Elems(c) \cup Elems(nextTurn) \cup Elems(nextStep) :
          m.id \in Nat
    BY <2>1, <2>2, ElemsTyped, LogElemsTyped DEF k
  <2>7. /\ Distinct(k) /\ Distinct(c) /\ Distinct(nextTurn) /\ Distinct(nextStep)
    BY <2>1, <2>2, <2>3, InOrderDistinct DEF Ordered
  <2>8. p \in Seq(Place) /\ Elems(p) = Elems(nextTurn) \cup Elems(nextStep)
    BY <2>2, ConcatParts
  <2>9. Distinct(p)
    BY <2>2, <2>3, <2>6, <2>7, BeforeApart, DistinctConcat DEF Ordered
  <2>. HIDE DEF p
  <2>10. q \in Seq(Place) /\ Elems(q) = Elems(p) \cup Elems(c)
    BY <2>2, <2>8, ConcatParts
  <2>11. Apart(Elems(p), Elems(c))
    BY <2>3, <2>6, <2>8, BeforeApart DEF Ordered
  <2>12. Distinct(q)
    BY <2>2, <2>7, <2>8, <2>9, <2>11, DistinctConcat
  <2>. HIDE DEF q
  <2>13. Apart(Elems(q), Elems(k))
    <3>1. Elems(q) = Elems(c) \cup Elems(nextTurn) \cup Elems(nextStep)
      BY <2>8, <2>10
    <3>2. Before(Elems(k), Elems(q))
      BY <2>3, <3>1 DEF Ordered
    <3>. QED
      BY <2>6, <3>2, BeforeApart
  <2>14. places \in Seq(Place) /\ Distinct(places)
    BY <2>1, <2>7, <2>10, <2>12, <2>13, ConcatParts, DistinctConcat
  <2>. HIDE DEF places
  <2>15. OncePlaced
    <3>1. DOMAIN places = 1 .. Len(places)
      BY <2>14
    <3>. QED
      BY <2>5, <2>14, <3>1 DEF Distinct
  <2>16. ASSUME NEW i \in Entries, NEW j \in Entries, i < j,
                events[i].msg.via = "followup" <=> events[j].msg.via = "followup"
         PROVE  events[i].msg.id < events[j].msg.id
    <3>1. i \in 1 .. Len(events) /\ j \in 1 .. Len(events)
          /\ events[i].type = "user/message" /\ events[j].type = "user/message"
      BY <2>1 DEF Entries
    <3>2. events[i].msg \in Msg /\ events[j].msg \in Msg
      BY <2>3, <3>1 DEF Carries
    <3>3. Ok(events[i].msg, events[j].msg)
      <4>1. Ok(k[i], k[j])
        BY <2>1, <2>3, <2>16, <3>1 DEF Ordered, InOrder
      <4>. QED
        BY <2>1, <3>1, <4>1
    <3>4. events[i].msg.id # 0 /\ events[j].msg.id # 0
      BY <3>2 DEF Msg
    <3>. QED
      BY <2>16, <3>3, <3>4 DEF Ok
  <2>. QED
    BY <2>15, <2>16 DEF MessageOnce
<1>. QED
  BY <1>1, <1>2, <1>3, TypeCorrect, ClaimAlways, PTL DEF Spec

=============================================================================
