---------------------------- MODULE BridgeProofs ----------------------------
(***************************************************************************)
(* Theorems about Bridge, for every number of messages, logins, failures   *)
(* and crashes.                                                            *)
(***************************************************************************)
EXTENDS Bridge, SequenceTheorems, TLAPS

Fates == Over \cup {"live", "unsent", "lost"}
SettleOps == {"folded", "dropped", "settled"}

\* The turn of an operation that admits or settles is a turn.
HasTurn(o) == o.op \in SettleOps \cup {"admit"} => o.turn \in Turn
ChainOK == \A o \in RangeOf(chain) : HasTurn(o)

\* An operation settles only what has ended its lifecycle, and so are the
\* folded turns still to be settled.
IsOver(o) == o.op \in SettleOps => fate[o.turn.id] \in Over
OverOK ==
  /\ \A m \in Ids : \A i \in DOMAIN hist[m] : fate[hist[m][i].id] \in Over
  /\ \A o \in RangeOf(chain) : IsOver(o)

\* A call of dispatchMessage exists once the message has arrived; one that
\* settles folded turns has one left.
CallOK ==
  \A m \in Ids : /\ (kind[m] = "none") <=> (pc[m] = "none")
                 /\ pc[m] = "fold" => hist[m] # << >>

\* The call of dispatchMessage that waits for an operation of the chain.
Waited(o) == o.op \in {"folded", "admit"}
Caller(o) == IF o.op = "folded" THEN o.for ELSE o.turn.id

\* An operation a call waits for settles the first of its folded turns or
\* admits its message, and no call waits for two operations.
WaitOK(o) ==
  /\ o.op = "folded" => /\ o.for \in Ids
                        /\ pc[o.for] = "fold"
                        /\ Journaled(Head(hist[o.for]))
  /\ o.op = "admit" => pc[o.turn.id] = "admit"
Single(q) ==
  \A i, j \in DOMAIN q :
    Waited(q[i]) /\ Waited(q[j]) /\ Caller(q[i]) = Caller(q[j]) => i = j
FoldOK == CallOK /\ (\A o \in RangeOf(chain) : WaitOK(o)) /\ Single(chain)

-----------------------------------------------------------------------------
\* Fate yields a fate for every message, keeps those that are over and gives
\* the new one to the others in S.
LEMMA FateType ==
  ASSUME TypeOK, NEW S, NEW f \in Fates
  PROVE  /\ Fate(S, f) \in [Ids -> Fates]
         /\ \A m \in Ids : fate[m] \in Over => Fate(S, f)[m] = fate[m]
         /\ \A m \in Ids : m \in S /\ f \in Over => Fate(S, f)[m] \in Over
BY DEF TypeOK, Fate, Fates

\* Settling one entry of the journal leaves a journal, with every other entry.
LEMMA SettledType ==
  ASSUME NEW j \in Seq(Ids), NEW id
  PROVE  /\ Settled(j, id) \in Seq(Ids)
         /\ \A m \in RangeOf(j) : m \notin RangeOf(Settled(j, id)) => m = id
<1>1. CASE id \notin RangeOf(j)
  BY <1>1 DEF Settled
<1>2. CASE id \in RangeOf(j)
  <2> DEFINE k == CHOOSE k \in DOMAIN j : j[k] = id
             a == SubSeq(j, 1, k - 1)
             b == SubSeq(j, k + 1, Len(j))
  <2>1. k \in 1..Len(j) /\ j[k] = id
    BY <1>2 DEF RangeOf
  <2>2. Settled(j, id) = a \o b
    BY <1>2 DEF Settled
  <2> HIDE DEF k
  <2>3. /\ a \in Seq(Ids) /\ Len(a) = k - 1
        /\ \A i \in 1..(k - 1) : a[i] = j[i]
    BY <2>1
  <2>4. /\ b \in Seq(Ids) /\ Len(b) = Len(j) - k
        /\ \A i \in 1..(Len(j) - k) : b[i] = j[k + i]
    BY <2>1
  <2> HIDE DEF a, b
  <2>5. a \o b \in Seq(Ids) /\ Len(a \o b) = Len(j) - 1
    <3>1. a \o b \in Seq(Ids) /\ Len(a \o b) = Len(a) + Len(b)
      BY <2>3, <2>4, ConcatProperties
    <3> QED
      BY <3>1, <2>1, <2>3, <2>4
  <2>6. \A i \in 1..(k - 1) : (a \o b)[i] = j[i]
    BY <2>1, <2>3, <2>4
  <2>7. \A i \in (k + 1)..Len(j) : (a \o b)[i - 1] = j[i]
    <3> TAKE i \in (k + 1)..Len(j)
    <3>1. i - 1 \in (Len(a) + 1)..(Len(a) + Len(b))
      BY <2>1, <2>3, <2>4
    <3>2. (a \o b)[i - 1] = b[(i - 1) - Len(a)]
      BY <3>1, <2>3, <2>4
    <3>3. (i - 1) - Len(a) = i - k /\ i - k \in 1..(Len(j) - k)
      BY <2>1, <2>3
    <3>4. b[i - k] = j[i]
      BY <3>3, <2>1, <2>4
    <3> QED
      BY <3>2, <3>3, <3>4
  <2>8. ASSUME NEW m \in RangeOf(j), m \notin RangeOf(a \o b)
        PROVE  m = id
    <3>1. PICK i \in 1..Len(j) : j[i] = m
      BY DEF RangeOf
    <3>2. CASE i < k
      <4>1. i \in DOMAIN (a \o b) /\ (a \o b)[i] = m
        BY <3>1, <3>2, <2>1, <2>5, <2>6
      <4> QED
        BY <4>1, <2>8 DEF RangeOf
    <3>3. CASE i > k
      <4>1. i - 1 \in DOMAIN (a \o b) /\ (a \o b)[i - 1] = m
        BY <3>1, <3>3, <2>1, <2>5, <2>7
      <4> QED
        BY <4>1, <2>8 DEF RangeOf
    <3> QED
      BY <3>1, <3>2, <3>3, <2>1
  <2> QED
    BY <2>2, <2>5, <2>8
<1> QED
  BY <1>1, <1>2

\* The pump takes a turn from the queue and makes it the active one.
LEMMA PumpTurnType ==
  ASSUME TypeOK, NEW q \in Seq(Turn), PumpTurn(q)
  PROVE  /\ pendingTurns' \in Seq(Turn)
         /\ activeTurn' \in Turn \cup {NoTurn}
         /\ pump' \in [Turn -> 0..MAX_SEND_ATTEMPTS]
<1>1. CASE q = << >>
  BY <1>1 DEF PumpTurn, TypeOK
<1>2. CASE q # << >>
  <2>1. Head(q) \in Turn /\ Tail(q) \in Seq(Turn)
    BY <1>2
  <2>2. pendingTurns' = Tail(q) /\ activeTurn' = Head(q)
        /\ pump' = [pump EXCEPT ![Head(q)] = 1]
    BY <1>2 DEF PumpTurn
  <2>3. 1 \in 0..MAX_SEND_ATTEMPTS
    BY BridgeAssumption
  <2> QED
    BY <2>1, <2>2, <2>3 DEF TypeOK
<1> QED
  BY <1>1, <1>2

\* Taking the next turn keeps the types of the line.
LEMMA PumpIfIdleType ==
  ASSUME TypeOK, NEW q \in Seq(Turn), PumpIfIdle(q)
  PROVE  /\ pendingTurns' \in Seq(Turn)
         /\ activeTurn' \in Turn \cup {NoTurn}
         /\ pump' \in [Turn -> 0..MAX_SEND_ATTEMPTS]
BY PumpTurnType DEF PumpIfIdle, TypeOK

\* So does ending the active turn.
LEMMA AdvanceQueueType ==
  ASSUME TypeOK, AdvanceQueue
  PROVE  /\ pendingTurns' \in Seq(Turn)
         /\ activeTurn' \in Turn \cup {NoTurn}
         /\ pump' \in [Turn -> 0..MAX_SEND_ATTEMPTS]
BY PumpIfIdleType DEF AdvanceQueue, TypeOK

-----------------------------------------------------------------------------
\* The generation of a replayed turn is within the bound.
LoginsOK == used["logins"] <= Logins

IInv == TypeOK /\ ChainOK /\ FoldOK /\ OverOK /\ LoginsOK

\* The invariant holds at the start.
LEMMA InitInv == Init => IInv
<1> SUFFICES ASSUME Init PROVE IInv
  OBVIOUS
<1>1. TypeOK
  <2>1. used \in [Budgets -> Nat]
    BY DEF Init
  <2>2. \A S : << >> \in Seq(S)
    OBVIOUS
  <2>3. hist \in [Ids -> Seq(Turn)]
    BY <2>2 DEF Init
  <2>4. pump \in [Turn -> 0..MAX_SEND_ATTEMPTS]
    BY BridgeAssumption DEF Init
  <2> QED
    BY <2>1, <2>2, <2>3, <2>4
       DEF Init, TypeOK, AllOutcomes, Over, DispatchPoints, ReplyPoints
<1>2. ChainOK /\ FoldOK /\ OverOK
  BY DEF Init, ChainOK, FoldOK, OverOK, CallOK, Single, RangeOf
<1>3. LoginsOK
  BY BridgeAssumption DEF Init, LoginsOK, Budgets
<1> QED
  BY <1>1, <1>2, <1>3 DEF IInv

\* The chain stays a sequence of operations when one ends or is added.
LEMMA OpType ==
  ASSUME NEW o \in JournalOps, NEW t \in Turn \cup {NoTurn}, NEW m \in 0..Messages
  PROVE  Op(o, t, m) \in ChainOp
BY DEF Op, ChainOp

\* The turn made of a message.
LEMMA NewType ==
  ASSUME NEW m \in Ids
  PROVE  New(m) \in Turn /\ m \in 0..Messages /\ 0 \in 0..Messages
BY BridgeAssumption DEF New, Turn, Ids

\* The ids of a queue of turns are ids of messages.
LEMMA IdsOfType ==
  ASSUME NEW q \in Seq(Turn)
  PROVE  IdsOf(q) \subseteq Ids
<1> SUFFICES ASSUME NEW i \in DOMAIN q PROVE q[i].id \in Ids
  BY DEF IdsOf
<1>1. q[i] \in Turn
  OBVIOUS
<1> QED
  BY <1>1 DEF Turn

\* What SettleOrBuild does to the call of dispatchMessage is of the right type.
LEMMA SettleOrBuildType ==
  ASSUME TypeOK, NEW m \in Ids, NEW h \in Seq(Turn), NEW k,
         NEW queue \in Seq(ChainOp), SettleOrBuild(m, h, k, queue)
  PROVE  /\ hist' \in [Ids -> Seq(Turn)]
         /\ pc' \in [Ids -> DispatchPoints]
         /\ chain' \in Seq(ChainOp)
<1>1. hist' \in [Ids -> Seq(Turn)]
  BY DEF SettleOrBuild, TypeOK
<1>2. pc' \in [Ids -> DispatchPoints]
  BY DEF SettleOrBuild, TypeOK, DispatchPoints
<1>3. New(m) \in Turn /\ m \in 0..Messages /\ 0 \in 0..Messages
  BY NewType
<1>4. CASE h # << >>
  <2>1. Head(h) \in Turn
    BY <1>4
  <2>2. Op("folded", Head(h), m) \in ChainOp
    BY <2>1, <1>3, OpType DEF JournalOps
  <2> QED
    BY <2>2, <1>1, <1>2, <1>4 DEF SettleOrBuild
<1>5. CASE h = << >>
  <2>1. Op("admit", New(m), 0) \in ChainOp
    BY <1>3, OpType DEF JournalOps
  <2> QED
    BY <2>1, <1>1, <1>2, <1>5 DEF SettleOrBuild
<1> QED
  BY <1>4, <1>5

\* Routing a message keeps the types.
LEMMA RouteType ==
  ASSUME TypeOK, NEW m \in Ids, NEW k \in AllKinds, Route(m, k)
  PROVE  /\ pendingTurns' \in Seq(Turn)
         /\ preserve' \in BOOLEAN
         /\ pc' \in [Ids -> DispatchPoints]
         /\ hist' \in [Ids -> Seq(Turn)]
         /\ carry' \in [Ids -> SUBSET Ids]
         /\ chain' \in Seq(ChainOp)
         /\ fate' \in [Ids -> Fates]
<1>1. CASE k = "stop"
  <2>1. /\ preserve' = (preserve \/ (canAbort /\ pendingTurns # << >>))
        /\ pc' = [pc EXCEPT ![m] = "done"]
        /\ UNCHANGED <<pendingTurns, hist, carry, chain, fate>>
    BY <1>1 DEF Route
  <2>2. preserve' \in BOOLEAN
    BY <2>1, Zenon DEF TypeOK
  <2>3. pc' \in [Ids -> DispatchPoints]
    BY <2>1 DEF TypeOK, DispatchPoints
  <2> QED
    BY <2>1, <2>2, <2>3 DEF TypeOK, Fates
<1>2. CASE k = "skill"
  <2>1. /\ pendingTurns' = Append(pendingTurns, New(m))
        /\ pc' = [pc EXCEPT ![m] = "typing"]
        /\ UNCHANGED <<preserve, hist, carry, chain, fate>>
    BY <1>2 DEF Route
  <2>2. pendingTurns' \in Seq(Turn)
    BY <2>1, NewType DEF TypeOK
  <2>3. pc' \in [Ids -> DispatchPoints]
    BY <2>1 DEF TypeOK, DispatchPoints
  <2> QED
    BY <2>1, <2>2, <2>3 DEF TypeOK, Fates
<1>3. CASE k \in {"text", "media"}
  <2> DEFINE folded == IF preserve THEN pendingTurns ELSE << >>
  <2>1. folded \in Seq(Turn)
    BY DEF TypeOK
  <2>2. IdsOf(folded) \subseteq Ids
    BY <2>1, IdsOfType
  <2>3. /\ carry' = [carry EXCEPT ![m] = IdsOf(folded)]
        /\ fate' = Fate(IdsOf(folded), "folded")
        /\ SettleOrBuild(m, folded, k, chain)
        /\ pendingTurns' = IF preserve THEN << >> ELSE pendingTurns
        /\ preserve' = FALSE
    BY <1>3 DEF Route
  <2> HIDE DEF folded
  <2>4. carry' \in [Ids -> SUBSET Ids]
    BY <2>2, <2>3 DEF TypeOK
  <2>5. fate' \in [Ids -> Fates]
    BY <2>3, FateType DEF Fates, Over
  <2>6. chain \in Seq(ChainOp)
    BY DEF TypeOK
  <2>7. /\ hist' \in [Ids -> Seq(Turn)]
        /\ pc' \in [Ids -> DispatchPoints]
        /\ chain' \in Seq(ChainOp)
    BY <2>1, <2>3, <2>6, SettleOrBuildType
  <2>8. pendingTurns' \in Seq(Turn)
    BY <2>3 DEF TypeOK
  <2>9. preserve' \in BOOLEAN
    BY <2>3
  <2> QED
    BY <2>4, <2>5, <2>7, <2>8, <2>9
<1> QED
  BY <1>1, <1>2, <1>3 DEF AllKinds

\* The end of the agent_settled handler keeps the types.
LEMMA FinishType ==
  ASSUME TypeOK, NEW t \in Turn, NEW f \in Fates, Finish(t, f)
  PROVE  /\ pendingTurns' \in Seq(Turn)
         /\ activeTurn' \in Turn \cup {NoTurn}
         /\ pump' \in [Turn -> 0..MAX_SEND_ATTEMPTS]
         /\ post' \in [Turn -> ReplyPoints]
         /\ chain' \in Seq(ChainOp)
         /\ fate' \in [Ids -> Fates]
<1>1. fate' \in [Ids -> Fates]
  BY FateType DEF Finish
<1>2. post' \in [Turn -> ReplyPoints]
  BY DEF Finish, TypeOK, ReplyPoints
<1>3. CASE Journaled(t)
  <2>1. 0 \in 0..Messages
    BY BridgeAssumption
  <2>2. Op("settled", t, 0) \in ChainOp
    BY <2>1, OpType DEF JournalOps
  <2>3. /\ chain' = Append(chain, Op("settled", t, 0))
        /\ UNCHANGED <<pendingTurns, activeTurn, pump>>
    BY <1>3 DEF Finish
  <2>4. chain' \in Seq(ChainOp)
    BY <2>2, <2>3 DEF TypeOK
  <2>5. /\ pendingTurns \in Seq(Turn)
        /\ activeTurn \in Turn \cup {NoTurn}
        /\ pump \in [Turn -> 0..MAX_SEND_ATTEMPTS]
    BY DEF TypeOK
  <2> QED
    BY <1>1, <1>2, <2>3, <2>4, <2>5
<1>4. CASE ~Journaled(t)
  <2>1. AdvanceQueue /\ UNCHANGED chain
    BY <1>4 DEF Finish
  <2> QED
    BY <1>1, <1>2, <2>1, AdvanceQueueType DEF TypeOK
<1> QED
  BY <1>3, <1>4

-----------------------------------------------------------------------------
\* Replayed turns are turns.
LEMMA ReplayedType ==
  ASSUME IInv
  PROVE  Replayed(journal) \in Seq(Turn)
<1>1. journal \in Seq(Ids) /\ used["logins"] \in 0..Logins
  BY DEF IInv, TypeOK, LoginsOK, Budgets
<1>2. \A i \in 1..Len(journal) : [id |-> journal[i], gen |-> used["logins"]] \in Turn
  BY <1>1 DEF Turn
<1> QED
  BY <1>1, <1>2 DEF Replayed

\* The operation at the head of the chain, and the rest.
LEMMA HeadType ==
  ASSUME IInv, NEW op, HeadIs(op)
  PROVE  /\ Head(chain) \in ChainOp /\ Head(chain).op = op
         /\ Tail(chain) \in Seq(ChainOp)
         /\ chain # << >> /\ Head(chain) \in RangeOf(chain)
BY DEF IInv, TypeOK, HeadIs, RangeOf

\* A settling leaves a journal.
LEMMA AfterSettleType ==
  ASSUME IInv, NEW ok, AfterSettle(ok)
  PROVE  journal' \in Seq(Ids)
BY SettledType DEF IInv, TypeOK, AfterSettle

\* Using up a bound, logins aside, leaves the number of logins alone.
LEMMA SpendType ==
  ASSUME TypeOK, NEW b \in Budgets, Spend(b)
  PROVE  /\ used' \in [Budgets -> Nat]
         /\ b # "logins" => used'["logins"] = used["logins"]
BY DEF TypeOK, Spend, Budgets

-----------------------------------------------------------------------------
\* Every step keeps the types.
LEMMA TypeStep ==
  ASSUME IInv, [Next]_vars
  PROVE  TypeOK'
<1> USE DEF bridgeVars, dispatchVars, pumpVars, postVars, diskVars, piVars
<1> TypeOK
  BY DEF IInv
<1>1. CASE UNCHANGED vars
  BY <1>1 DEF TypeOK, vars
<1>2. ASSUME NEW m \in Ids, Welcomed(m) PROVE TypeOK'
  <2>1. kind[m] \in AllKinds
    BY <1>2 DEF IInv, FoldOK, CallOK, TypeOK, Welcomed
  <2>2. Route(m, kind[m])
    BY <1>2 DEF Welcomed
  <2> QED
    BY <1>2, <2>1, <2>2, RouteType DEF TypeOK, Welcomed, Fates
<1>3. ASSUME NEW m \in Ids, SkipFolded(m) PROVE TypeOK'
  <2>1. Tail(hist[m]) \in Seq(Turn) /\ chain \in Seq(ChainOp)
    BY <1>3 DEF IInv, FoldOK, CallOK, TypeOK, SkipFolded
  <2>2. SettleOrBuild(m, Tail(hist[m]), kind[m], chain)
    BY <1>3 DEF SkipFolded
  <2> QED
    BY <1>3, <2>1, <2>2, SettleOrBuildType DEF TypeOK, SkipFolded
<1>4. ASSUME NEW m \in Ids, NEW ok \in BOOLEAN, Built(m, ok) PROVE TypeOK'
  <2>1. pc' \in [Ids -> DispatchPoints]
    BY <1>4 DEF TypeOK, Built, DispatchPoints
  <2>2. pendingTurns' \in Seq(Turn)
    <3>1. pendingTurns' = Append(pendingTurns, New(m)) \/ UNCHANGED pendingTurns
      BY <1>4 DEF Built
    <3>2. pendingTurns \in Seq(Turn) /\ New(m) \in Turn
      BY NewType DEF TypeOK
    <3>3. Append(pendingTurns, New(m)) \in Seq(Turn)
      BY <3>2
    <3> QED
      BY <3>1, <3>2, <3>3
  <2>3. fate' \in [Ids -> Fates]
    BY <1>4, FateType DEF TypeOK, Built, Fates
  <2> QED
    BY <1>4, <2>1, <2>2, <2>3 DEF TypeOK, Built, Fates
<1>5. ASSUME NEW m \in Ids, TypingDone(m) PROVE TypeOK'
  BY <1>5, PumpIfIdleType DEF TypeOK, TypingDone, DispatchPoints
<1>6. ASSUME NEW t \in Turn, Accepted(t) PROVE TypeOK'
  BY <1>6, BridgeAssumption DEF TypeOK, Accepted
<1>7. ASSUME NEW t \in Turn, Refused(t) PROVE TypeOK'
  <2>1. used' \in [Budgets -> Nat]
    BY <1>7, SpendType DEF Refused, Budgets
  <2>2. pump' \in [Turn -> 0..MAX_SEND_ATTEMPTS]
    BY <1>7, BridgeAssumption DEF TypeOK, Refused
  <2> QED
    BY <1>7, <2>1, <2>2 DEF TypeOK, Refused
<1>8. ASSUME NEW t \in Turn, GiveUp(t) PROVE TypeOK'
  <2>1. fate' \in [Ids -> Fates]
    BY <1>8, FateType DEF GiveUp, Fates, Over
  <2>2. Op("dropped", t, 0) \in ChainOp
    BY BridgeAssumption, OpType DEF JournalOps
  <2>3. chain' \in Seq(ChainOp)
    BY <1>8, <2>2 DEF TypeOK, GiveUp
  <2>4. pump' \in [Turn -> 0..MAX_SEND_ATTEMPTS]
    BY <1>8, BridgeAssumption DEF TypeOK, GiveUp
  <2>5. used' \in [Budgets -> Nat]
    BY <1>8, SpendType DEF GiveUp, Budgets
  <2> QED
    BY <1>8, <2>1, <2>3, <2>4, <2>5 DEF TypeOK, GiveUp, Fates
<1>9. CASE AgentStart
  BY <1>9 DEF TypeOK, AgentStart
<1>10. ASSUME NEW o \in Outcomes, AgentEnd(o) PROVE TypeOK'
  BY <1>10, BridgeAssumption DEF TypeOK, AgentEnd
<1>11. CASE AgentSettled
  <2>1. fate' \in [Ids -> Fates]
    BY <1>11, FateType DEF AgentSettled, TypeOK, Fates
  <2>2. post' \in [Turn -> ReplyPoints] /\ postKind' \in [Turn -> AllOutcomes]
    BY <1>11 DEF AgentSettled, TypeOK, ReplyPoints
  <2> QED
    BY <1>11, <2>1, <2>2 DEF TypeOK, AgentSettled, Fates, AllOutcomes
<1>12. CASE TuiRun
  <2>1. used' \in [Budgets -> Nat]
    BY <1>12, SpendType DEF TuiRun, Budgets
  <2> QED
    BY <1>12, <2>1 DEF TypeOK, TuiRun
<1>13. ASSUME NEW t \in Turn, ReplySent(t) PROVE TypeOK'
  <2>1. CASE postKind[t] = "attach" /\ HasBot
    BY <1>13, <2>1 DEF TypeOK, ReplySent, ReplyPoints
  <2>2. CASE ~(postKind[t] = "attach" /\ HasBot)
    <3>1. PICK f \in Fates : Finish(t, f)
      BY <1>13, <2>2 DEF ReplySent, Fates, Over, TypeOK, AllOutcomes
    <3> QED
      BY <1>13, <3>1, FinishType DEF TypeOK, ReplySent, Fates
  <2> QED
    BY <2>1, <2>2
<1>14. ASSUME NEW t \in Turn, AttachmentsSent(t) PROVE TypeOK'
  <2>1. "answered" \in Fates /\ Finish(t, "answered")
    BY <1>14 DEF AttachmentsSent, Fates, Over
  <2> QED
    BY <1>14, <2>1, FinishType DEF TypeOK, AttachmentsSent, Fates
<1>15. ASSUME NEW t \in Turn, ReplyFailed(t) PROVE TypeOK'
  <2>1. CASE HasReplyDeliverable(postKind[t])
    <3>1. fate' \in [Ids -> Fates]
      BY <1>15, <2>1, FateType DEF ReplyFailed, Fates
    <3>2. post' \in [Turn -> ReplyPoints]
      BY <1>15, <2>1 DEF ReplyFailed, TypeOK, ReplyPoints
    <3>3. AdvanceQueue /\ UNCHANGED chain
      BY <1>15, <2>1 DEF ReplyFailed
    <3> QED
      BY <1>15, <3>1, <3>2, <3>3, AdvanceQueueType DEF TypeOK, ReplyFailed, Fates
  <2>2. CASE ~HasReplyDeliverable(postKind[t])
    <3>1. "silent" \in Fates /\ Finish(t, "silent")
      BY <1>15, <2>2 DEF ReplyFailed, Fates, Over
    <3> QED
      BY <1>15, <3>1, FinishType DEF TypeOK, ReplyFailed, Fates
  <2> QED
    BY <2>1, <2>2
<1>16. ASSUME NEW ok \in DiskResults, Admit(ok) PROVE TypeOK'
  <2>1. Tail(chain) \in Seq(ChainOp) /\ Head(chain).turn \in Turn
    BY <1>16, HeadType DEF Admit, IInv, ChainOK, HasTurn
  <2>2. Head(chain).turn.id \in Ids
    BY <2>1 DEF Turn
  <2> QED
    BY <1>16, <2>1, <2>2 DEF TypeOK, Admit, DispatchPoints
<1>17. ASSUME NEW ok \in DiskResults, SettleFolded(ok) PROVE TypeOK'
  <2> DEFINE m == Head(chain).for
  <2>1. m \in Ids /\ pc[m] = "fold" /\ Tail(chain) \in Seq(ChainOp)
    BY <1>17, HeadType DEF SettleFolded, IInv, FoldOK, WaitOK
  <2>2. SettleOrBuild(m, Tail(hist[m]), kind[m], Tail(chain))
    BY <1>17 DEF SettleFolded
  <2>3. Tail(hist[m]) \in Seq(Turn)
    BY <2>1 DEF IInv, FoldOK, CallOK, TypeOK
  <2>4. journal' \in Seq(Ids)
    BY <1>17, AfterSettleType DEF SettleFolded
  <2> HIDE DEF m
  <2>5. /\ hist' \in [Ids -> Seq(Turn)]
        /\ pc' \in [Ids -> DispatchPoints]
        /\ chain' \in Seq(ChainOp)
    BY <2>1, <2>2, <2>3, SettleOrBuildType
  <2> QED
    BY <1>17, <2>4, <2>5 DEF TypeOK, SettleFolded
<1>18. ASSUME NEW ok \in DiskResults, SettleDropped(ok) PROVE TypeOK'
  BY <1>18, HeadType, AfterSettleType DEF TypeOK, SettleDropped
<1>19. ASSUME NEW ok \in DiskResults, SettleAnswered(ok) PROVE TypeOK'
  <2>1. Tail(chain) \in Seq(ChainOp) /\ journal' \in Seq(Ids)
    BY <1>19, HeadType, AfterSettleType DEF SettleAnswered
  <2>2. post' \in [Turn -> ReplyPoints]
    BY <1>19 DEF SettleAnswered, TypeOK, ReplyPoints
  <2>3. AdvanceQueue
    BY <1>19 DEF SettleAnswered
  <2> QED
    BY <1>19, <2>1, <2>2, <2>3, AdvanceQueueType DEF TypeOK, SettleAnswered
<1>20. ASSUME NEW ok \in DiskResults, Replay(ok) PROVE TypeOK'
  <2>1. Op("compact", NoTurn, 0) \in ChainOp
    BY BridgeAssumption, OpType DEF JournalOps
  <2>2. chain' \in Seq(ChainOp)
    BY <1>20, <2>1, HeadType DEF Replay
  <2>3. pendingTurns' \in Seq(Turn)
    <3>1. \/ pendingTurns' = pendingTurns \o Replayed(journal)
          \/ UNCHANGED pendingTurns
      BY <1>20 DEF Replay
    <3>2. pendingTurns \in Seq(Turn) /\ Replayed(journal) \in Seq(Turn)
      BY ReplayedType DEF TypeOK
    <3>3. pendingTurns \o Replayed(journal) \in Seq(Turn)
      BY <3>2
    <3> QED
      BY <3>1, <3>2, <3>3
  <2>4. fate' \in [Ids -> Fates]
    BY <1>20 DEF Replay, TypeOK, Fates
  <2> QED
    BY <1>20, <2>2, <2>3, <2>4 DEF TypeOK, Replay, Fates
<1>21. ASSUME NEW ok \in DiskResults, Discard(ok) PROVE TypeOK'
  BY <1>21, HeadType DEF TypeOK, Discard
<1>22. CASE Compact
  BY <1>22, HeadType, PumpIfIdleType DEF TypeOK, Compact
<1>23. ASSUME NEW m \in Ids, NEW k \in Kinds, Arrive(m, k) PROVE TypeOK'
  <2>1. k \in AllKinds
    BY BridgeAssumption
  <2>2. CASE ~welcomed /\ pc' = [pc EXCEPT ![m] = "welcome"]
             /\ UNCHANGED <<pendingTurns, preserve, hist, carry, chain, fate>>
    BY <1>23, <2>1, <2>2 DEF TypeOK, Arrive, DispatchPoints
  <2>3. CASE Route(m, k)
    BY <1>23, <2>1, <2>3, RouteType DEF TypeOK, Arrive, Fates
  <2> QED
    BY <1>23, <2>2, <2>3 DEF Arrive
<1>24. CASE Login
  <2>1. Op("replay", NoTurn, 0) \in ChainOp
    BY BridgeAssumption, OpType DEF JournalOps
  <2>2. chain' \in Seq(ChainOp)
    BY <1>24, <2>1 DEF TypeOK, Login
  <2>3. used' \in [Budgets -> Nat]
    BY <1>24, SpendType DEF Login, Budgets
  <2> QED
    BY <1>24, <2>2, <2>3 DEF TypeOK, Login
<1>25. CASE StartFailed
  <2>1. used' \in [Budgets -> Nat]
    BY <1>25, SpendType DEF StartFailed, Budgets
  <2> QED
    BY <1>25, <2>1 DEF TypeOK, StartFailed
<1>26. CASE Stop
  <2>1. used' \in [Budgets -> Nat]
    BY <1>26, SpendType DEF Stop, Budgets
  <2> QED
    BY <1>26, <2>1 DEF TypeOK, Stop
<1>27. CASE Stopped
  <2>1. pendingTurns' \in Seq(Turn) /\ lastEnd' \in AllOutcomes
    BY <1>27 DEF Stopped, AllOutcomes
  <2> QED
    BY <1>27, <2>1 DEF TypeOK, Stopped
<1>28. CASE SessionExpired
  <2>1. Op("discard", NoTurn, 0) \in ChainOp
    BY BridgeAssumption, OpType DEF JournalOps
  <2>2. chain' \in Seq(ChainOp)
    BY <1>28, <2>1 DEF TypeOK, SessionExpired
  <2>3. used' \in [Budgets -> Nat]
    BY <1>28, SpendType DEF SessionExpired, Budgets
  <2> QED
    BY <1>28, <2>2, <2>3 DEF TypeOK, SessionExpired
<1>29. CASE Crash
  <2>1. pump' \in [Turn -> 0..MAX_SEND_ATTEMPTS]
    BY <1>29, BridgeAssumption DEF Crash
  <2>2. post' \in [Turn -> ReplyPoints]
    BY <1>29 DEF Crash, ReplyPoints
  <2>3. pc' \in [Ids -> DispatchPoints]
    BY <1>29 DEF Crash, DispatchPoints
  <2>4. hist' \in [Ids -> Seq(Turn)]
    BY <1>29 DEF Crash
  <2>5. used' \in [Budgets -> Nat]
    BY <1>29, SpendType DEF Crash, Budgets
  <2>6. /\ pendingTurns' \in Seq(Turn) /\ chain' \in Seq(ChainOp)
        /\ lastEnd' \in AllOutcomes
    BY <1>29 DEF Crash, AllOutcomes
  <2> QED
    BY <1>29, <2>1, <2>2, <2>3, <2>4, <2>5, <2>6 DEF TypeOK, Crash
<1>30. CASE LoginFailed
  BY <1>30 DEF TypeOK, LoginFailed
<1> QED
  BY <1>1, <1>2, <1>3, <1>4, <1>5, <1>6, <1>7, <1>8, <1>9, <1>10, <1>11, <1>12,
     <1>13, <1>14, <1>15, <1>16, <1>17, <1>18, <1>19, <1>20, <1>21, <1>22, <1>23,
     <1>24, <1>25, <1>26, <1>27, <1>28, <1>29, <1>30
     DEF Next, DispatchStep, PumpStep, ReplyStep, DiskStep, PiStep, Environment

-----------------------------------------------------------------------------
\* The operations of a chain one operation longer or shorter.
LEMMA RangeAppend ==
  ASSUME NEW S, NEW q \in Seq(S), NEW o \in S
  PROVE  \A p \in RangeOf(Append(q, o)) : p \in RangeOf(q) \/ p = o
<1> SUFFICES ASSUME NEW i \in DOMAIN Append(q, o), Append(q, o)[i] \notin RangeOf(q)
             PROVE  Append(q, o)[i] = o
  BY DEF RangeOf
<1>1. i \in 1..(Len(q) + 1)
  OBVIOUS
<1>2. i \in 1..Len(q) => Append(q, o)[i] = q[i] /\ q[i] \in RangeOf(q)
  BY DEF RangeOf
<1> QED
  BY <1>1, <1>2

\* The tail of a sequence holds nothing new.
LEMMA RangeTail ==
  ASSUME NEW S, NEW q \in Seq(S), q # << >>
  PROVE  \A p \in RangeOf(Tail(q)) : p \in RangeOf(q)
<1> SUFFICES ASSUME NEW i \in DOMAIN Tail(q)
             PROVE  Tail(q)[i] \in RangeOf(q)
  BY DEF RangeOf
<1>1. i \in 1..(Len(q) - 1) /\ Tail(q)[i] = q[i + 1]
  OBVIOUS
<1>2. i + 1 \in DOMAIN q
  BY <1>1
<1> QED
  BY <1>1, <1>2 DEF RangeOf

\* No call waits for two operations when one is added that no call in the
\* chain waits for, or one is removed.
LEMMA SingleAppend ==
  ASSUME NEW q \in Seq(ChainOp), NEW o \in ChainOp, Single(q),
         Waited(o) => \A p \in RangeOf(q) : Waited(p) => Caller(p) # Caller(o)
  PROVE  Single(Append(q, o))
<1> DEFINE r == Append(q, o)
<1> SUFFICES ASSUME NEW i \in DOMAIN r, NEW j \in DOMAIN r,
                    Waited(r[i]), Waited(r[j]), Caller(r[i]) = Caller(r[j])
             PROVE  i = j
  BY DEF Single
<1>1. /\ i \in 1..(Len(q) + 1) /\ j \in 1..(Len(q) + 1)
      /\ r[Len(q) + 1] = o
      /\ \A n \in 1..Len(q) : r[n] = q[n] /\ q[n] \in RangeOf(q)
  BY DEF RangeOf
<1> HIDE DEF r
<1>2. CASE i \in 1..Len(q) /\ j \in 1..Len(q)
  BY <1>1, <1>2 DEF Single
<1>3. CASE i = Len(q) + 1 /\ j \in 1..Len(q)
  BY <1>1, <1>3
<1>4. CASE i \in 1..Len(q) /\ j = Len(q) + 1
  BY <1>1, <1>4
<1> QED
  BY <1>1, <1>2, <1>3, <1>4

\* Behind the head of the chain there is no other operation of the same call.
LEMMA SingleTail ==
  ASSUME NEW q \in Seq(ChainOp), q # << >>, Single(q)
  PROVE  /\ Single(Tail(q))
         /\ Waited(Head(q)) => \A p \in RangeOf(Tail(q)) :
                                 Waited(p) => Caller(p) # Caller(Head(q))
<1> DEFINE r == Tail(q)
<1>1. /\ DOMAIN r = 1..(Len(q) - 1) /\ Len(q) \in Nat \ {0}
      /\ \A n \in 1..(Len(q) - 1) : r[n] = q[n + 1]
      /\ Head(q) = q[1]
  OBVIOUS
<1> HIDE DEF r
<1>2. Single(r)
  <2> SUFFICES ASSUME NEW i \in DOMAIN r, NEW j \in DOMAIN r,
                      Waited(r[i]), Waited(r[j]), Caller(r[i]) = Caller(r[j])
               PROVE  i = j
    BY DEF Single
  <2>1. i + 1 \in DOMAIN q /\ j + 1 \in DOMAIN q
        /\ r[i] = q[i + 1] /\ r[j] = q[j + 1]
    BY <1>1
  <2>2. i + 1 = j + 1
    BY <2>1 DEF Single
  <2> QED
    BY <1>1, <2>2
<1>3. ASSUME Waited(Head(q)), NEW n \in DOMAIN r, Waited(r[n])
      PROVE  Caller(r[n]) # Caller(Head(q))
  <2>1. n + 1 \in DOMAIN q /\ 1 \in DOMAIN q /\ r[n] = q[n + 1] /\ n + 1 # 1
    BY <1>1
  <2> QED
    BY <1>1, <1>3, <2>1 DEF Single
<1> QED
  BY <1>2, <1>3 DEF RangeOf, r

\* What is over stays over.
LEMMA OverStays ==
  ASSUME IInv, [Next]_vars, NEW m \in Ids, fate[m] \in Over
  PROVE  fate'[m] \in Over
<1> DEFINE Kept == UNCHANGED fate
           Ended == \E S : \E f \in Fates : fate' = Fate(S, f)
<1>1. \A S : \A f \in Fates : Fate(S, f)[m] = fate[m]
  BY FateType DEF IInv
<1>2. Kept \/ Ended => fate'[m] \in Over
  BY <1>1
<1> USE DEF Fates, Over
<1>3. CASE UNCHANGED vars
  BY <1>2, <1>3 DEF vars
<1>4. ASSUME NEW n \in Ids, NEW k, Route(n, k) PROVE Kept \/ Ended
  BY <1>4 DEF Route
<1>5. CASE DispatchStep
  <2>1. ASSUME NEW n \in Ids, Welcomed(n) PROVE Kept \/ Ended
    BY <1>4, <2>1 DEF Welcomed
  <2>2. ASSUME NEW n \in Ids, SkipFolded(n) \/ TypingDone(n) PROVE Kept
    BY <2>2 DEF SkipFolded, TypingDone
  <2>3. ASSUME NEW n \in Ids, NEW ok, Built(n, ok) PROVE Kept \/ Ended
    BY <2>3 DEF Built
  <2> QED
    BY <1>2, <1>5, <2>1, <2>2, <2>3 DEF DispatchStep
<1>6. CASE PumpStep
  <2>1. ASSUME NEW t \in Turn, Accepted(t) \/ Refused(t) PROVE Kept
    BY <2>1 DEF Accepted, Refused
  <2>2. ASSUME NEW t \in Turn, GiveUp(t) PROVE Ended
    BY <2>2 DEF GiveUp
  <2> QED
    BY <1>2, <1>6, <2>1, <2>2 DEF PumpStep
<1>7. CASE ReplyStep
  <2>1. ASSUME NEW t \in Turn, ReplySent(t) PROVE Kept \/ Ended
    BY <2>1 DEF ReplySent, Finish
  <2>2. ASSUME NEW t \in Turn, AttachmentsSent(t) PROVE Ended
    BY <2>2 DEF AttachmentsSent, Finish
  <2>3. ASSUME NEW t \in Turn, ReplyFailed(t) PROVE Ended
    BY <2>3 DEF ReplyFailed, Finish
  <2> QED
    BY <1>2, <1>7, <2>1, <2>2, <2>3 DEF ReplyStep
<1>8. CASE DiskStep
  <2>1. ASSUME NEW ok, Admit(ok) \/ SettleFolded(ok) \/ SettleDropped(ok)
                         \/ SettleAnswered(ok) \/ Discard(ok)
        PROVE  Kept
    BY <2>1 DEF Admit, SettleFolded, SettleDropped, SettleAnswered, Discard
  <2>2. ASSUME NEW ok, Replay(ok) PROVE fate'[m] \in Over
    BY <2>2 DEF Replay
  <2>3. ASSUME Compact PROVE Kept
    BY <2>3 DEF Compact
  <2> QED
    BY <1>2, <1>8, <2>1, <2>2, <2>3 DEF DiskStep
<1>9. CASE PiStep
  <2>1. ASSUME AgentStart PROVE Kept
    BY <2>1 DEF AgentStart
  <2>2. ASSUME NEW o, AgentEnd(o) PROVE Kept
    BY <2>2 DEF AgentEnd
  <2>3. ASSUME AgentSettled PROVE Kept \/ Ended
    BY <2>3 DEF AgentSettled
  <2> QED
    BY <1>2, <1>9, <2>1, <2>2, <2>3 DEF PiStep
<1>10. CASE Environment
  <2>1. ASSUME NEW n \in Ids, NEW k, Arrive(n, k) PROVE Kept \/ Ended
    BY <1>4, <2>1 DEF Arrive
  <2>2. ASSUME \/ TuiRun \/ Login \/ LoginFailed \/ StartFailed \/ Stop \/ Stopped
               \/ SessionExpired \/ Crash
        PROVE  Kept
    BY <2>2
       DEF TuiRun, Login, LoginFailed, StartFailed, Stop, Stopped, SessionExpired,
           Crash
  <2> QED
    BY <1>2, <1>10, <2>1, <2>2 DEF Environment
<1> QED
  BY <1>3, <1>5, <1>6, <1>7, <1>8, <1>9, <1>10 DEF Next

-----------------------------------------------------------------------------
\* What a step may add to the chain, and leave in the folded turns.
Good(o) == HasTurn(o) /\ (o.op \in SettleOps => fate'[o.turn.id] \in Over)
ChainGrows == \A o \in RangeOf(chain') : o \in RangeOf(chain) \/ Good(o)
HistOver == \A m \in Ids : \A i \in DOMAIN hist'[m] : fate'[hist'[m][i].id] \in Over

\* Folded turns that stay are over as before.
LEMMA HistKept ==
  ASSUME IInv, [Next]_vars, UNCHANGED hist
  PROVE  HistOver
<1> SUFFICES ASSUME NEW m \in Ids, NEW i \in DOMAIN hist[m]
             PROVE  fate'[hist[m][i].id] \in Over
  BY DEF HistOver
<1>1. hist[m] \in Seq(Turn)
  BY DEF IInv, TypeOK
<1>2. hist[m][i] \in Turn
  BY <1>1
<1>3. hist[m][i].id \in Ids /\ fate[hist[m][i].id] \in Over
  BY <1>2 DEF IInv, OverOK, Turn
<1> QED
  BY <1>3, OverStays

\* A chain to which only good operations are added stays good.
LEMMA ChainGood ==
  ASSUME IInv, [Next]_vars, ChainGrows, HistOver
  PROVE  ChainOK' /\ OverOK'
<1>1. ASSUME NEW o \in RangeOf(chain'), o \in RangeOf(chain)
      PROVE  Good(o)
  <2>1. HasTurn(o) /\ IsOver(o)
    BY <1>1 DEF IInv, ChainOK, OverOK
  <2>2. o.op \in SettleOps => o.turn.id \in Ids /\ fate[o.turn.id] \in Over
    BY <2>1 DEF HasTurn, IsOver, Turn
  <2> QED
    BY <2>1, <2>2, OverStays DEF Good
<1>2. \A o \in RangeOf(chain') : Good(o)
  BY <1>1 DEF ChainGrows
<1>3. ChainOK'
  BY <1>2 DEF ChainOK, Good, RangeOf, HasTurn
<1>4. OverOK'
  BY <1>2 DEF OverOK, HistOver, Good, RangeOf, IsOver
<1> QED
  BY <1>3, <1>4

\* A chain that grows by a good operation, or loses its head.
LEMMA GrowsAppend ==
  ASSUME IInv, NEW q \in Seq(ChainOp), NEW o \in ChainOp, Good(o),
         \A p \in RangeOf(q) : p \in RangeOf(chain),
         chain' = Append(q, o)
  PROVE  ChainGrows
BY RangeAppend DEF ChainGrows

\* Taking the head off the chain adds nothing to it.
LEMMA GrowsTail ==
  ASSUME IInv, NEW op, HeadIs(op)
  PROVE  /\ Tail(chain) \in Seq(ChainOp)
         /\ \A p \in RangeOf(Tail(chain)) : p \in RangeOf(chain)
         /\ chain' = Tail(chain) => ChainGrows
<1>1. chain \in Seq(ChainOp) /\ chain # << >>
  BY DEF IInv, TypeOK, HeadIs
<1>2. Tail(chain) \in Seq(ChainOp)
  BY <1>1
<1>3. \A p \in RangeOf(Tail(chain)) : p \in RangeOf(chain)
  BY <1>1, RangeTail
<1> QED
  BY <1>2, <1>3 DEF ChainGrows

\* Operations the other actions add to the chain.
LEMMA GoodOps ==
  /\ \A t \in Turn : \A m : \A op \in SettleOps :
        fate'[t.id] \in Over => Good(Op(op, t, m))
  /\ \A t \in Turn : \A m : Good(Op("admit", t, m))
  /\ \A op \in {"replay", "compact", "discard"} : \A m : Good(Op(op, NoTurn, m))
BY DEF Good, HasTurn, Op, SettleOps

\* The next operation of a fold is a settling of a turn that is over, or a build.
LEMMA SettleOrBuildOver ==
  ASSUME IInv, [Next]_vars, NEW m \in Ids, NEW h \in Seq(Turn), NEW k,
         NEW queue \in Seq(ChainOp), SettleOrBuild(m, h, k, queue),
         \A p \in RangeOf(queue) : p \in RangeOf(chain),
         \A i \in DOMAIN h : fate'[h[i].id] \in Over
  PROVE  ChainGrows /\ HistOver
<1>1. HistOver
  <2> SUFFICES ASSUME NEW n \in Ids, NEW i \in DOMAIN hist'[n]
               PROVE  fate'[hist'[n][i].id] \in Over
    BY DEF HistOver
  <2>1. hist' = [hist EXCEPT ![m] = h] /\ hist \in [Ids -> Seq(Turn)]
    BY DEF SettleOrBuild, IInv, TypeOK
  <2>2. CASE n = m
    BY <2>1, <2>2
  <2>3. CASE n # m
    <3>1. hist'[n] = hist[n] /\ hist[n] \in Seq(Turn)
      BY <2>1, <2>3
    <3>2. hist[n][i] \in Turn /\ fate[hist[n][i].id] \in Over
      BY <3>1 DEF IInv, OverOK
    <3> QED
      BY <3>1, <3>2, OverStays DEF Turn
  <2> QED
    BY <2>2, <2>3
<1>2. New(m) \in Turn /\ m \in 0..Messages /\ 0 \in 0..Messages
  BY NewType
<1>3. ChainGrows
  <2>1. CASE chain' = queue
    BY <2>1 DEF ChainGrows
  <2>2. CASE h # << >> /\ chain' = Append(queue, Op("folded", Head(h), m))
    <3>1. Head(h) \in Turn /\ fate'[Head(h).id] \in Over
      BY <2>2
    <3>2. Op("folded", Head(h), m) \in ChainOp
      BY <3>1, <1>2, OpType DEF JournalOps
    <3> QED
      BY <2>2, <3>1, <3>2, GoodOps, GrowsAppend DEF SettleOps
  <2>3. CASE chain' = Append(queue, Op("admit", New(m), 0))
    <3>1. Op("admit", New(m), 0) \in ChainOp
      BY <1>2, OpType DEF JournalOps
    <3> QED
      BY <2>3, <3>1, <1>2, GoodOps, GrowsAppend
  <2> QED
    BY <2>1, <2>2, <2>3 DEF SettleOrBuild
<1> QED
  BY <1>1, <1>3

\* Routing a message leaves what is to be settled over.
LEMMA RouteOver ==
  ASSUME IInv, [Next]_vars, NEW m \in Ids, NEW k \in AllKinds, Route(m, k)
  PROVE  ChainGrows /\ HistOver
<1>1. CASE k \in {"stop", "skill"}
  <2>1. UNCHANGED <<hist, chain>>
    BY <1>1 DEF Route
  <2> QED
    BY <2>1, HistKept DEF ChainGrows
<1>2. CASE k \in {"text", "media"}
  <2> DEFINE folded == IF preserve THEN pendingTurns ELSE << >>
  <2>1. folded \in Seq(Turn) /\ chain \in Seq(ChainOp)
    BY DEF IInv, TypeOK
  <2>2. fate' = Fate(IdsOf(folded), "folded") /\ SettleOrBuild(m, folded, k, chain)
    BY <1>2 DEF Route
  <2> HIDE DEF folded
  <2>3. ASSUME NEW i \in DOMAIN folded PROVE fate'[folded[i].id] \in Over
    <3>1. folded[i] \in Turn /\ folded[i].id \in IdsOf(folded)
      BY <2>1 DEF IdsOf
    <3>2. folded[i].id \in Ids /\ "folded" \in Fates /\ "folded" \in Over
      BY <3>1 DEF Turn, Fates, Over
    <3> QED
      BY <2>2, <3>1, <3>2, FateType DEF IInv
  <2> QED
    BY <2>1, <2>2, <2>3, SettleOrBuildOver
<1> QED
  BY <1>1, <1>2 DEF AllKinds

\* So does ending a turn.
LEMMA FinishOver ==
  ASSUME IInv, [Next]_vars, NEW t \in Turn, NEW f \in Over, Finish(t, f)
  PROVE  ChainGrows
<1>1. fate'[t.id] \in Over
  BY FateType DEF Finish, IInv, Turn, Fates
<1>2. Op("settled", t, 0) \in ChainOp /\ chain \in Seq(ChainOp)
  BY BridgeAssumption, OpType DEF JournalOps, IInv, TypeOK
<1>3. Good(Op("settled", t, 0))
  BY <1>1, GoodOps DEF SettleOps
<1>4. chain' = Append(chain, Op("settled", t, 0)) \/ UNCHANGED chain
  BY DEF Finish
<1> QED
  BY <1>2, <1>3, <1>4, GrowsAppend DEF ChainGrows

\* Every step settles only what is over.
LEMMA OverStep ==
  ASSUME IInv, [Next]_vars
  PROVE  ChainOK' /\ OverOK'
<1> USE DEF bridgeVars, dispatchVars, pumpVars, postVars, diskVars, piVars
<1> SUFFICES ChainGrows /\ HistOver
  BY ChainGood
<1>1. ASSUME UNCHANGED <<hist, chain>> PROVE ChainGrows /\ HistOver
  BY <1>1, HistKept DEF ChainGrows
<1>2. CASE UNCHANGED vars
  BY <1>1, <1>2 DEF vars
<1>3. CASE DispatchStep
  <2>1. ASSUME NEW m \in Ids, Welcomed(m) PROVE ChainGrows /\ HistOver
    <3>1. kind[m] \in AllKinds /\ Route(m, kind[m])
      BY <2>1 DEF IInv, FoldOK, CallOK, TypeOK, Welcomed
    <3> QED
      BY <3>1, RouteOver
  <2>2. ASSUME NEW m \in Ids, SkipFolded(m) PROVE ChainGrows /\ HistOver
    <3>1. hist[m] \in Seq(Turn) /\ hist[m] # << >> /\ chain \in Seq(ChainOp)
      BY <2>2 DEF SkipFolded, IInv, FoldOK, CallOK, TypeOK
    <3>2. ASSUME NEW i \in DOMAIN Tail(hist[m])
          PROVE  fate'[Tail(hist[m])[i].id] \in Over
      <4>1. i + 1 \in DOMAIN hist[m] /\ Tail(hist[m])[i] = hist[m][i + 1]
        BY <3>1
      <4> QED
        BY <4>1, <2>2 DEF SkipFolded, IInv, OverOK
    <3>3. Tail(hist[m]) \in Seq(Turn)
      BY <3>1
    <3>4. SettleOrBuild(m, Tail(hist[m]), kind[m], chain)
      BY <2>2 DEF SkipFolded
    <3> QED
      BY <3>1, <3>2, <3>3, <3>4, SettleOrBuildOver
  <2>3. ASSUME NEW m \in Ids, NEW ok, Built(m, ok) PROVE ChainGrows /\ HistOver
    BY <1>1, <2>3 DEF Built
  <2>4. ASSUME NEW m \in Ids, TypingDone(m) PROVE ChainGrows /\ HistOver
    BY <1>1, <2>4 DEF TypingDone
  <2> QED
    BY <1>3, <2>1, <2>2, <2>3, <2>4 DEF DispatchStep
<1>4. CASE PumpStep
  <2>1. ASSUME NEW t \in Turn, Accepted(t) \/ Refused(t) PROVE ChainGrows /\ HistOver
    BY <1>1, <2>1 DEF Accepted, Refused
  <2>2. ASSUME NEW t \in Turn, GiveUp(t) PROVE ChainGrows /\ HistOver
    <3>1. HistOver
      BY <2>2, HistKept DEF GiveUp
    <3>2. fate'[t.id] \in Over
      BY <2>2, FateType DEF GiveUp, IInv, Turn, Fates, Over
    <3>3. Op("dropped", t, 0) \in ChainOp /\ chain \in Seq(ChainOp)
      BY BridgeAssumption, OpType DEF JournalOps, IInv, TypeOK
    <3>4. Good(Op("dropped", t, 0))
      BY <3>2, GoodOps DEF SettleOps
    <3>5. chain' = Append(chain, Op("dropped", t, 0)) \/ UNCHANGED chain
      BY <2>2 DEF GiveUp
    <3> QED
      BY <3>1, <3>3, <3>4, <3>5, GrowsAppend DEF ChainGrows
  <2> QED
    BY <1>4, <2>1, <2>2 DEF PumpStep
<1>5. CASE ReplyStep
  <2>1. ASSUME NEW t \in Turn, ReplySent(t) PROVE ChainGrows
    <3>1. CASE UNCHANGED chain
      BY <3>1 DEF ChainGrows
    <3>2. CASE \E f \in Over : Finish(t, f)
      BY <3>2, FinishOver
    <3> QED
      BY <2>1, <3>1, <3>2 DEF ReplySent, Over
  <2>2. ASSUME NEW t \in Turn, AttachmentsSent(t) PROVE ChainGrows
    BY <2>2, FinishOver DEF AttachmentsSent, Over
  <2>3. ASSUME NEW t \in Turn, ReplyFailed(t) PROVE ChainGrows
    <3>1. CASE UNCHANGED chain
      BY <3>1 DEF ChainGrows
    <3>2. CASE Finish(t, "silent")
      BY <3>2, FinishOver DEF Over
    <3> QED
      BY <2>3, <3>1, <3>2 DEF ReplyFailed
  <2>4. UNCHANGED hist
    BY <1>5 DEF ReplyStep, ReplySent, AttachmentsSent, ReplyFailed
  <2> QED
    BY <1>5, <2>1, <2>2, <2>3, <2>4, HistKept DEF ReplyStep
<1>6. CASE DiskStep
  <2>1. ASSUME NEW ok, SettleFolded(ok) PROVE ChainGrows /\ HistOver
    <3> DEFINE m == Head(chain).for
    <3>1. /\ m \in Ids /\ hist[m] \in Seq(Turn) /\ hist[m] # << >>
      BY <2>1, HeadType DEF SettleFolded, IInv, FoldOK, CallOK, WaitOK, TypeOK
    <3>2. SettleOrBuild(m, Tail(hist[m]), kind[m], Tail(chain)) /\ UNCHANGED fate
      BY <2>1 DEF SettleFolded
    <3>3. /\ Tail(chain) \in Seq(ChainOp)
          /\ \A p \in RangeOf(Tail(chain)) : p \in RangeOf(chain)
      BY <2>1, GrowsTail DEF SettleFolded
    <3> HIDE DEF m
    <3>4. ASSUME NEW i \in DOMAIN Tail(hist[m])
          PROVE  fate'[Tail(hist[m])[i].id] \in Over
      <4>1. i + 1 \in DOMAIN hist[m] /\ Tail(hist[m])[i] = hist[m][i + 1]
        BY <3>1
      <4> QED
        BY <4>1, <3>1, <3>2 DEF IInv, OverOK
    <3>5. Tail(hist[m]) \in Seq(Turn)
      BY <3>1
    <3> QED
      BY <3>1, <3>2, <3>3, <3>4, <3>5, SettleOrBuildOver
  <2>2. ASSUME NEW ok, Replay(ok) PROVE ChainGrows /\ HistOver
    <3>1. HistOver
      BY <2>2, HistKept DEF Replay
    <3>2. Op("compact", NoTurn, 0) \in ChainOp
      BY BridgeAssumption, OpType DEF JournalOps
    <3> QED
      BY <2>2, <3>1, <3>2, GrowsTail, GrowsAppend, GoodOps DEF Replay
  <2>3. ASSUME NEW ok, Admit(ok) \/ SettleDropped(ok) \/ SettleAnswered(ok)
                         \/ Discard(ok) \/ Compact
        PROVE  ChainGrows /\ HistOver
    <3>1. UNCHANGED hist
      BY <2>3 DEF Admit, SettleDropped, SettleAnswered, Discard, Compact
    <3>2. \E op : HeadIs(op) /\ chain' = Tail(chain)
      BY <2>3 DEF Admit, SettleDropped, SettleAnswered, Discard, Compact
    <3> QED
      BY <3>1, <3>2, GrowsTail, HistKept
  <2> QED
    BY <1>6, <2>1, <2>2, <2>3 DEF DiskStep
<1>7. CASE PiStep
  BY <1>1, <1>7 DEF PiStep, AgentStart, AgentEnd, AgentSettled
<1>8. CASE Environment
  <2>1. ASSUME NEW m \in Ids, NEW k \in Kinds, Arrive(m, k)
        PROVE  ChainGrows /\ HistOver
    <3>1. k \in AllKinds /\ (UNCHANGED <<hist, chain>> \/ Route(m, k))
      BY <2>1, BridgeAssumption DEF Arrive
    <3> QED
      BY <1>1, <3>1, RouteOver
  <2>2. ASSUME NEW o, o = Op("replay", NoTurn, 0) \/ o = Op("discard", NoTurn, 0),
               chain' = Append(chain, o), UNCHANGED hist
        PROVE  ChainGrows /\ HistOver
    <3>1. 0 \in 0..Messages /\ chain \in Seq(ChainOp)
      BY BridgeAssumption DEF IInv, TypeOK
    <3>2. o \in ChainOp
      BY <2>2, <3>1, OpType DEF JournalOps
    <3> QED
      BY <2>2, <3>1, <3>2, GrowsAppend, GoodOps, HistKept
  <2>3. ASSUME Login \/ SessionExpired PROVE ChainGrows /\ HistOver
    BY <2>2, <2>3 DEF Login, SessionExpired
  <2>4. ASSUME Crash PROVE ChainGrows /\ HistOver
    BY <2>4 DEF Crash, ChainGrows, HistOver, RangeOf
  <2>5. ASSUME TuiRun \/ LoginFailed \/ StartFailed \/ Stop \/ Stopped
        PROVE  ChainGrows /\ HistOver
    BY <1>1, <2>5 DEF TuiRun, LoginFailed, StartFailed, Stop, Stopped
  <2> QED
    BY <1>8, <2>1, <2>3, <2>4, <2>5 DEF Environment
<1> QED
  BY <1>2, <1>3, <1>4, <1>5, <1>6, <1>7, <1>8 DEF Next

-----------------------------------------------------------------------------
\* A step that leaves the calls of dispatchMessage alone, and adds no operation
\* one of them waits for, keeps what they wait for.
LEMMA QuietFold ==
  ASSUME IInv, UNCHANGED <<kind, pc, hist>>, Single(chain'),
         \A o \in RangeOf(chain') : Waited(o) => o \in RangeOf(chain)
  PROVE  FoldOK'
<1>1. CallOK'
  BY DEF IInv, FoldOK, CallOK
<1>2. \A o \in RangeOf(chain') : WaitOK(o)'
  BY DEF IInv, FoldOK, WaitOK, Waited, Journaled
<1> QED
  BY <1>1, <1>2 DEF FoldOK, RangeOf, Single, Waited, Caller

\* The chain may lose a head for which no call waits,
LEMMA QuietTail ==
  ASSUME IInv, NEW op, HeadIs(op), chain' = Tail(chain), UNCHANGED <<kind, pc, hist>>
  PROVE  FoldOK'
<1>1. chain \in Seq(ChainOp) /\ chain # << >> /\ Single(chain)
  BY DEF IInv, TypeOK, FoldOK, HeadIs
<1>2. Single(chain') /\ \A o \in RangeOf(chain') : o \in RangeOf(chain)
  BY <1>1, SingleTail, RangeTail
<1> QED
  BY <1>2, QuietFold

\* get an operation for which no call waits,
LEMMA QuietAppend ==
  ASSUME IInv, NEW q \in Seq(ChainOp), Single(q),
         \A o \in RangeOf(q) : o \in RangeOf(chain),
         NEW n \in ChainOp, ~Waited(n), chain' = Append(q, n),
         UNCHANGED <<kind, pc, hist>>
  PROVE  FoldOK'
<1>1. Single(chain')
  BY SingleAppend
<1>2. \A o \in RangeOf(chain') : Waited(o) => o \in RangeOf(chain)
  BY RangeAppend
<1> QED
  BY <1>1, <1>2, QuietFold

\* or stay as it is, while the calls stay where they are.
LEMMA QuietKept ==
  ASSUME IInv, UNCHANGED <<kind, pc, hist, chain>>
  PROVE  FoldOK'
BY QuietFold DEF IInv, FoldOK

\* A call m that waits for no operation moves on to a point at which it waits
\* for none.
LEMMA MoveFold ==
  ASSUME IInv, NEW m \in Ids, NEW k \in AllKinds, NEW p \in DispatchPoints,
         p \notin {"none", "fold"},
         kind' = [kind EXCEPT ![m] = k], kind[m] \in {k, "none"},
         pc' = [pc EXCEPT ![m] = p], UNCHANGED hist,
         Single(chain'), \A o \in RangeOf(chain') : o \in RangeOf(chain),
         \A o \in RangeOf(chain') : Waited(o) => Caller(o) # m
  PROVE  FoldOK'
<1>1. CallOK'
  BY DEF IInv, FoldOK, CallOK, TypeOK, AllKinds
<1>2. ASSUME NEW o \in RangeOf(chain') PROVE WaitOK(o)'
  <2>1. WaitOK(o)
    BY <1>2 DEF IInv, FoldOK
  <2>2. CASE o.op = "folded"
    <3>1. /\ o.for \in Ids /\ o.for # m /\ pc[o.for] = "fold"
          /\ Journaled(Head(hist[o.for]))
      BY <1>2, <2>1, <2>2 DEF WaitOK, Waited, Caller
    <3>2. hist[o.for] \in Seq(Turn) /\ hist[o.for] # << >>
      BY <3>1 DEF IInv, FoldOK, CallOK, TypeOK
    <3>3. Head(hist[o.for]) \in Turn /\ Head(hist[o.for]).id \in Ids
      <4>1. Head(hist[o.for]) \in Turn
        BY <3>2
      <4> QED
        BY <4>1 DEF Turn
    <3>4. kind'[Head(hist[o.for]).id] = "text"
      BY <3>1, <3>3 DEF Journaled, IInv, TypeOK
    <3> QED
      BY <2>2, <3>1, <3>4 DEF WaitOK, Journaled, IInv, TypeOK
  <2>3. CASE o.op = "admit"
    <3>1. o.turn.id \in Ids /\ o.turn.id # m /\ pc[o.turn.id] = "admit"
      BY <1>2, <2>1, <2>3 DEF WaitOK, Waited, Caller, IInv, ChainOK, HasTurn, Turn
    <3> QED
      BY <2>3, <3>1 DEF WaitOK, IInv, TypeOK
  <2> QED
    BY <2>2, <2>3 DEF WaitOK
<1> QED
  BY <1>1, <1>2 DEF FoldOK, RangeOf, Single, Waited, Caller

\* A call m that waits for no operation settles what is left of the folded
\* turns or goes on.
LEMMA SettleOrBuildFold ==
  ASSUME IInv, NEW m \in Ids, NEW h \in Seq(Turn), NEW k \in AllKinds,
         NEW q \in Seq(ChainOp), SettleOrBuild(m, h, k, q),
         kind' = [kind EXCEPT ![m] = k], kind[m] \in {k, "none"},
         Single(q), \A o \in RangeOf(q) : o \in RangeOf(chain),
         \A o \in RangeOf(q) : Waited(o) => Caller(o) # m
  PROVE  FoldOK'
<1>1. /\ hist' = [hist EXCEPT ![m] = h]
      /\ hist \in [Ids -> Seq(Turn)] /\ pc \in [Ids -> DispatchPoints]
      /\ kind \in [Ids -> AllKinds \cup {"none"}]
  BY DEF SettleOrBuild, IInv, TypeOK
<1>2. CallOK'
  BY <1>1 DEF SettleOrBuild, IInv, FoldOK, CallOK, AllKinds
<1>3. ASSUME NEW o \in RangeOf(q) PROVE WaitOK(o)'
  <2>1. WaitOK(o)
    BY <1>3 DEF IInv, FoldOK
  <2>2. CASE o.op = "folded"
    <3>1. /\ o.for \in Ids /\ o.for # m /\ pc[o.for] = "fold"
          /\ Journaled(Head(hist[o.for]))
      BY <1>3, <2>1, <2>2 DEF WaitOK, Waited, Caller
    <3>2. hist[o.for] \in Seq(Turn) /\ hist[o.for] # << >>
      BY <3>1 DEF IInv, FoldOK, CallOK, TypeOK
    <3>3. Head(hist[o.for]) \in Turn /\ Head(hist[o.for]).id \in Ids
      <4>1. Head(hist[o.for]) \in Turn
        BY <3>2
      <4> QED
        BY <4>1 DEF Turn
    <3>4. kind'[Head(hist[o.for]).id] = "text"
      BY <1>1, <3>1, <3>3 DEF Journaled
    <3>5. pc'[o.for] = "fold" /\ hist'[o.for] = hist[o.for]
      BY <1>1, <3>1 DEF SettleOrBuild
    <3> QED
      BY <2>2, <3>1, <3>4, <3>5 DEF WaitOK, Journaled
  <2>3. CASE o.op = "admit"
    <3>1. o.turn.id \in Ids /\ o.turn.id # m /\ pc[o.turn.id] = "admit"
      BY <1>3, <2>1, <2>3 DEF WaitOK, Waited, Caller, IInv, ChainOK, HasTurn, Turn
    <3>2. pc'[o.turn.id] = "admit"
      BY <1>1, <3>1 DEF SettleOrBuild
    <3> QED
      BY <2>3, <3>2 DEF WaitOK
  <2> QED
    BY <2>2, <2>3 DEF WaitOK
<1>4. New(m) \in Turn /\ m \in 0..Messages /\ 0 \in 0..Messages
  BY NewType
<1>5. CASE chain' = q
  BY <1>2, <1>3, <1>5 DEF FoldOK, RangeOf, Single, Waited, Caller
<1>6. ASSUME NEW o \in ChainOp, Waited(o), Caller(o) = m, WaitOK(o)',
             chain' = Append(q, o)
      PROVE  FoldOK'
  <2>1. Single(chain')
    BY <1>6, SingleAppend
  <2>2. \A p \in RangeOf(chain') : p \in RangeOf(q) \/ p = o
    BY <1>6, RangeAppend
  <2>3. \A p \in RangeOf(chain') : WaitOK(p)'
    BY <1>3, <1>6, <2>2
  <2> QED
    BY <1>2, <2>1, <2>3 DEF FoldOK, RangeOf, Single, Waited, Caller
<1>7. CASE h # << >> /\ Journaled(Head(h)) /\ chain' = Append(q, Op("folded", Head(h), m))
           /\ pc' = [pc EXCEPT ![m] = "fold"]
  <2> DEFINE o == Op("folded", Head(h), m)
  <2>1. Head(h) \in Turn
    BY <1>7
  <2>2. o \in ChainOp
    BY <2>1, <1>4, OpType DEF JournalOps
  <2>3. kind'[Head(h).id] = "text"
    BY <1>1, <1>7, <2>1 DEF Journaled, Turn
  <2>4. WaitOK(o)'
    BY <1>1, <1>7, <2>3 DEF WaitOK, Op, Journaled
  <2> QED
    BY <1>6, <1>7, <2>2, <2>4 DEF Waited, Caller, Op
<1>8. CASE chain' = Append(q, Op("admit", New(m), 0)) /\ pc' = [pc EXCEPT ![m] = "admit"]
  <2> DEFINE o == Op("admit", New(m), 0)
  <2>1. o \in ChainOp
    BY <1>4, OpType DEF JournalOps
  <2>2. WaitOK(o)'
    BY <1>1, <1>8 DEF WaitOK, Op, New
  <2> QED
    BY <1>6, <1>8, <2>1, <2>2 DEF Waited, Caller, Op, New
<1> QED
  BY <1>5, <1>7, <1>8 DEF SettleOrBuild

\* Routing keeps the operations of the chain and the calls that wait together.
LEMMA RouteFold ==
  ASSUME IInv, NEW m \in Ids, NEW k \in AllKinds, Route(m, k),
         kind' = [kind EXCEPT ![m] = k], kind[m] \in {k, "none"},
         pc[m] \in {"none", "welcome"}
  PROVE  FoldOK'
<1>1. chain \in Seq(ChainOp) /\ Single(chain)
  BY DEF IInv, TypeOK, FoldOK
<1>2. \A o \in RangeOf(chain) : Waited(o) => Caller(o) # m
  BY DEF IInv, FoldOK, WaitOK, Waited, Caller
<1>3. CASE k = "stop"
  <2>1. "done" \in DispatchPoints \ {"none", "fold"}
    BY DEF DispatchPoints
  <2>2. pc' = [pc EXCEPT ![m] = "done"] /\ UNCHANGED <<hist, chain>>
    BY <1>3 DEF Route
  <2> QED
    BY <1>1, <1>2, <2>1, <2>2, MoveFold
<1>4. CASE k = "skill"
  <2>1. "typing" \in DispatchPoints \ {"none", "fold"}
    BY DEF DispatchPoints
  <2>2. pc' = [pc EXCEPT ![m] = "typing"] /\ UNCHANGED <<hist, chain>>
    BY <1>4 DEF Route
  <2> QED
    BY <1>1, <1>2, <2>1, <2>2, MoveFold
<1>5. CASE k \in {"text", "media"}
  <2> DEFINE folded == IF preserve THEN pendingTurns ELSE << >>
  <2>1. folded \in Seq(Turn)
    BY DEF IInv, TypeOK
  <2>2. SettleOrBuild(m, folded, k, chain)
    BY <1>5 DEF Route
  <2> HIDE DEF folded
  <2> QED
    BY <1>1, <1>2, <2>1, <2>2, SettleOrBuildFold
<1> QED
  BY <1>3, <1>4, <1>5 DEF AllKinds

\* Every step keeps what the calls of dispatchMessage wait for.
LEMMA FoldStep ==
  ASSUME IInv, [Next]_vars
  PROVE  FoldOK'
<1> USE DEF bridgeVars, dispatchVars, pumpVars, postVars, diskVars, piVars
<1>1. /\ chain \in Seq(ChainOp) /\ Single(chain)
      /\ 0 \in 0..Messages
      /\ kind \in [Ids -> AllKinds \cup {"none"}]
      /\ \A m \in Ids : kind' = [kind EXCEPT ![m] = kind[m]] <=> UNCHANGED kind
  BY BridgeAssumption DEF IInv, TypeOK, FoldOK
<1>2. CASE UNCHANGED vars
  BY <1>2, QuietKept DEF vars
<1>3. CASE DispatchStep
  <2>1. ASSUME NEW m \in Ids, Welcomed(m) PROVE FoldOK'
    <3>1. kind[m] \in AllKinds /\ UNCHANGED kind /\ pc[m] = "welcome"
      BY <1>1, <2>1 DEF IInv, FoldOK, CallOK, Welcomed
    <3> QED
      BY <1>1, <2>1, <3>1, RouteFold DEF Welcomed
  <2>2. ASSUME NEW m \in Ids, SkipFolded(m) PROVE FoldOK'
    <3>1. /\ hist[m] \in Seq(Turn) /\ hist[m] # << >> /\ UNCHANGED kind
          /\ pc[m] = "fold" /\ ~Journaled(Head(hist[m])) /\ kind[m] \in AllKinds
      BY <1>1, <2>2 DEF SkipFolded, IInv, FoldOK, CallOK, TypeOK
    <3>2. Tail(hist[m]) \in Seq(Turn)
      BY <3>1
    <3>3. \A o \in RangeOf(chain) : Waited(o) => Caller(o) # m
      BY <3>1 DEF IInv, FoldOK, WaitOK, Waited, Caller
    <3>4. SettleOrBuild(m, Tail(hist[m]), kind[m], chain)
      BY <2>2 DEF SkipFolded
    <3> QED
      BY <1>1, <3>1, <3>2, <3>3, <3>4, SettleOrBuildFold
  <2>3. ASSUME NEW m \in Ids, pc[m] \in {"build", "typing"}, UNCHANGED <<kind, hist, chain>>,
               NEW p \in {"typing", "done", "failed"}, pc' = [pc EXCEPT ![m] = p]
        PROVE  FoldOK'
    <3>1. p \in DispatchPoints \ {"none", "fold"} /\ kind[m] \in AllKinds
      BY <1>1, <2>3 DEF DispatchPoints, IInv, FoldOK, CallOK
    <3>2. \A o \in RangeOf(chain) : Waited(o) => Caller(o) # m
      BY <2>3 DEF IInv, FoldOK, WaitOK, Waited, Caller
    <3> QED
      BY <1>1, <2>3, <3>1, <3>2, MoveFold
  <2>4. ASSUME NEW m \in Ids, NEW ok, Built(m, ok) PROVE FoldOK'
    BY <2>3, <2>4 DEF Built
  <2>5. ASSUME NEW m \in Ids, TypingDone(m) PROVE FoldOK'
    BY <2>3, <2>5 DEF TypingDone
  <2> QED
    BY <1>3, <2>1, <2>2, <2>4, <2>5 DEF DispatchStep
<1>4. ASSUME NEW o \in ChainOp, ~Waited(o), chain' = Append(chain, o),
             UNCHANGED <<kind, pc, hist>>
      PROVE  FoldOK'
  BY <1>1, <1>4, QuietAppend
<1>5. CASE PumpStep
  <2>1. ASSUME NEW t \in Turn, Accepted(t) \/ Refused(t) PROVE FoldOK'
    BY <2>1, QuietKept DEF Accepted, Refused
  <2>2. ASSUME NEW t \in Turn, GiveUp(t) PROVE FoldOK'
    <3>1. Op("dropped", t, 0) \in ChainOp /\ ~Waited(Op("dropped", t, 0))
      BY <1>1, OpType DEF JournalOps, Waited, Op
    <3>2. /\ chain' = Append(chain, Op("dropped", t, 0)) \/ UNCHANGED chain
          /\ UNCHANGED <<kind, pc, hist>>
      BY <2>2 DEF GiveUp
    <3> QED
      BY <1>4, <3>1, <3>2, QuietKept
  <2> QED
    BY <1>5, <2>1, <2>2 DEF PumpStep
<1>6. CASE ReplyStep
  <2>1. PICK t \in Turn : ReplySent(t) \/ AttachmentsSent(t) \/ ReplyFailed(t)
    BY <1>6 DEF ReplyStep
  <2>2. Op("settled", t, 0) \in ChainOp /\ ~Waited(Op("settled", t, 0))
    BY <1>1, OpType DEF JournalOps, Waited, Op
  <2>3. /\ chain' = Append(chain, Op("settled", t, 0)) \/ UNCHANGED chain
        /\ UNCHANGED <<kind, pc, hist>>
    BY <2>1 DEF ReplySent, AttachmentsSent, ReplyFailed, Finish
  <2> QED
    BY <1>4, <2>2, <2>3, QuietKept
<1>7. CASE DiskStep
  <2>1. ASSUME NEW ok, Admit(ok) PROVE FoldOK'
    <3> DEFINE t == Head(chain).turn
    <3>1. /\ chain # << >> /\ Head(chain) \in RangeOf(chain)
          /\ Head(chain).op = "admit"
      BY <2>1, HeadType DEF Admit
    <3>2. t.id \in Ids /\ pc[t.id] = "admit"
      BY <3>1 DEF IInv, FoldOK, WaitOK, ChainOK, HasTurn, Turn
    <3>3. /\ Single(Tail(chain))
          /\ \A o \in RangeOf(Tail(chain)) : o \in RangeOf(chain)
      BY <1>1, <3>1, SingleTail, RangeTail
    <3>4. \A o \in RangeOf(Tail(chain)) : Waited(o) => Caller(o) # t.id
      BY <1>1, <3>1, SingleTail DEF Waited, Caller
    <3>5. /\ kind[t.id] \in AllKinds
          /\ "typing" \in DispatchPoints \ {"none", "fold"}
      BY <1>1, <3>2 DEF IInv, FoldOK, CallOK, DispatchPoints
    <3>6. /\ chain' = Tail(chain) /\ pc' = [pc EXCEPT ![t.id] = "typing"]
          /\ UNCHANGED <<kind, hist>>
      BY <2>1 DEF Admit
    <3> HIDE DEF t
    <3> QED
      BY <1>1, <3>2, <3>3, <3>4, <3>5, <3>6, MoveFold
  <2>2. ASSUME NEW ok, SettleFolded(ok) PROVE FoldOK'
    <3> DEFINE m == Head(chain).for
    <3>1. /\ chain # << >> /\ Head(chain) \in RangeOf(chain)
          /\ Head(chain).op = "folded" /\ Tail(chain) \in Seq(ChainOp)
      BY <2>2, HeadType DEF SettleFolded
    <3>2. m \in Ids /\ pc[m] = "fold" /\ hist[m] \in Seq(Turn) /\ hist[m] # << >>
      BY <3>1 DEF IInv, FoldOK, CallOK, WaitOK, TypeOK
    <3>3. /\ Single(Tail(chain))
          /\ \A o \in RangeOf(Tail(chain)) : o \in RangeOf(chain)
      BY <1>1, <3>1, SingleTail, RangeTail
    <3>4. \A o \in RangeOf(Tail(chain)) : Waited(o) => Caller(o) # m
      BY <1>1, <3>1, SingleTail DEF Waited, Caller
    <3>5. /\ SettleOrBuild(m, Tail(hist[m]), kind[m], Tail(chain))
          /\ UNCHANGED kind
      BY <2>2 DEF SettleFolded
    <3> HIDE DEF m
    <3>6. kind[m] \in AllKinds /\ Tail(hist[m]) \in Seq(Turn)
      BY <1>1, <3>2 DEF IInv, FoldOK, CallOK
    <3> QED
      BY <1>1, <3>1, <3>2, <3>3, <3>4, <3>5, <3>6, SettleOrBuildFold
  <2>3. ASSUME NEW ok, Replay(ok) PROVE FoldOK'
    <3>1. chain # << >> /\ Tail(chain) \in Seq(ChainOp)
      BY <2>3, HeadType DEF Replay
    <3>2. /\ Single(Tail(chain))
          /\ \A o \in RangeOf(Tail(chain)) : o \in RangeOf(chain)
      BY <1>1, <3>1, SingleTail, RangeTail
    <3>3. Op("compact", NoTurn, 0) \in ChainOp /\ ~Waited(Op("compact", NoTurn, 0))
      BY <1>1, OpType DEF JournalOps, Waited, Op
    <3>4. /\ chain' = Append(Tail(chain), Op("compact", NoTurn, 0))
          /\ UNCHANGED <<kind, pc, hist>>
      BY <2>3 DEF Replay
    <3> QED
      BY <3>1, <3>2, <3>3, <3>4, QuietAppend
  <2>4. ASSUME NEW ok, SettleDropped(ok) \/ SettleAnswered(ok) \/ Discard(ok) \/ Compact
        PROVE  FoldOK'
    <3>1. \E op : HeadIs(op)
      BY <2>4 DEF SettleDropped, SettleAnswered, Discard, Compact
    <3>2. chain' = Tail(chain) /\ UNCHANGED <<kind, pc, hist>>
      BY <2>4 DEF SettleDropped, SettleAnswered, Discard, Compact
    <3> QED
      BY <3>1, <3>2, QuietTail
  <2> QED
    BY <1>7, <2>1, <2>2, <2>3, <2>4 DEF DiskStep
<1>8. CASE PiStep
  BY <1>8, QuietKept DEF PiStep, AgentStart, AgentEnd, AgentSettled
<1>9. CASE Environment
  <2>1. ASSUME NEW m \in Ids, NEW k \in Kinds, Arrive(m, k) PROVE FoldOK'
    <3>1. k \in AllKinds /\ kind[m] = "none" /\ pc[m] = "none"
          /\ kind' = [kind EXCEPT ![m] = k]
      BY <2>1, BridgeAssumption DEF Arrive, IInv, FoldOK, CallOK
    <3>2. CASE pc' = [pc EXCEPT ![m] = "welcome"] /\ UNCHANGED <<hist, chain>>
      <4>1. "welcome" \in DispatchPoints \ {"none", "fold"}
        BY DEF DispatchPoints
      <4>2. \A o \in RangeOf(chain) : Waited(o) => Caller(o) # m
        BY <3>1 DEF IInv, FoldOK, WaitOK, Waited, Caller
      <4> QED
        BY <1>1, <3>1, <3>2, <4>1, <4>2, MoveFold
    <3>3. CASE Route(m, k)
      BY <3>1, <3>3, RouteFold
    <3> QED
      BY <2>1, <3>2, <3>3 DEF Arrive
  <2>2. ASSUME NEW op \in {"replay", "discard"}
        PROVE  Op(op, NoTurn, 0) \in ChainOp /\ ~Waited(Op(op, NoTurn, 0))
    BY <1>1, OpType DEF JournalOps, Waited, Op
  <2>3. ASSUME Login \/ SessionExpired PROVE FoldOK'
    BY <1>4, <2>2, <2>3 DEF Login, SessionExpired
  <2>4. ASSUME Crash PROVE FoldOK'
    BY <2>4 DEF Crash, FoldOK, CallOK, Single, RangeOf
  <2>5. ASSUME TuiRun \/ LoginFailed \/ StartFailed \/ Stop \/ Stopped PROVE FoldOK'
    BY <2>5, QuietKept DEF TuiRun, LoginFailed, StartFailed, Stop, Stopped
  <2> QED
    BY <1>9, <2>1, <2>3, <2>4, <2>5 DEF Environment
<1> QED
  BY <1>2, <1>3, <1>5, <1>6, <1>7, <1>8, <1>9 DEF Next

\* The number of logins stays within its bound.
LEMMA LoginsStep ==
  ASSUME IInv, [Next]_vars
  PROVE  LoginsOK'
<1>1. used["logins"] <= Logins /\ used \in [Budgets -> Nat]
  BY DEF IInv, LoginsOK, TypeOK
<1>2. CASE UNCHANGED used
  BY <1>1, <1>2 DEF LoginsOK
<1>3. ASSUME NEW b \in Budgets, b # "logins", Spend(b) PROVE LoginsOK'
  BY <1>1, <1>3, SpendType DEF IInv, LoginsOK
<1>4. CASE Login
  <2>1. used' = [used EXCEPT !["logins"] = @ + 1] /\ used["logins"] < Logins
    BY <1>4 DEF Login, Spend
  <2>2. used'["logins"] = used["logins"] + 1 /\ used["logins"] \in Nat
    BY <1>1, <2>1 DEF Budgets
  <2> QED
    BY <2>1, <2>2, BridgeAssumption DEF LoginsOK
<1>5. CASE DispatchStep \/ ReplyStep \/ DiskStep \/ PiStep
  <2>1. UNCHANGED used
    BY <1>5
       DEF DispatchStep, ReplyStep, DiskStep, PiStep, Welcomed, SkipFolded, Built,
           TypingDone, ReplySent, AttachmentsSent, ReplyFailed, Admit,
           SettleFolded, SettleDropped, SettleAnswered, Replay, Discard, Compact,
           AgentStart, AgentEnd, AgentSettled
  <2> QED
    BY <1>2, <2>1
<1>6. CASE PumpStep
  BY <1>2, <1>3, <1>6 DEF PumpStep, Accepted, Refused, GiveUp, Budgets
<1>7. CASE Environment
  <2>1. ASSUME \/ TuiRun \/ StartFailed \/ Stop \/ SessionExpired \/ Crash
        PROVE  LoginsOK'
    BY <1>3, <2>1 DEF TuiRun, StartFailed, Stop, SessionExpired, Crash, Budgets
  <2>2. ASSUME \/ Stopped \/ LoginFailed
               \/ \E m \in Ids, k \in Kinds : Arrive(m, k)
        PROVE  LoginsOK'
    BY <1>2, <2>2 DEF Stopped, LoginFailed, Arrive
  <2> QED
    BY <1>4, <1>7, <2>1, <2>2 DEF Environment
<1> QED
  BY <1>2, <1>5, <1>6, <1>7 DEF Next, vars

-----------------------------------------------------------------------------
\* IInv is an invariant of the bridge.
LEMMA Inductive == Spec => []IInv
<1>1. IInv /\ [Next]_vars => IInv'
  BY TypeStep, OverStep, FoldStep, LoginsStep DEF IInv
<1> QED
  BY InitInv, <1>1, PTL DEF Spec

\* Type correctness: in particular an operation that settles a folded turn
\* always finds the call of dispatchMessage that waits for it, at its await,
\* with a turn left to settle.
THEOREM TypeCorrect == Spec => []TypeOK
<1>1. IInv => TypeOK
  BY DEF IInv
<1> QED
  BY Inductive, <1>1, PTL

\* Only the end of a turn's lifecycle removes its entry from the journal,
\* whatever fails, disconnects, logs in again or crashes meanwhile, for every
\* number of messages: settleTurn is never called for a turn whose reply has
\* not been sent, dropped or folded.
THEOREM SettlesOnlyWhenOver == Spec => SettledOnlyWhenOver
<1> DEFINE A == \A m \in RangeOf(journal) :
                  m \notin RangeOf(journal') => fate[m] \in Over \/ HeadIs("discard")
<1>1. ASSUME IInv, [Next]_vars PROVE A
  <2> USE DEF diskVars
  <2>1. CASE journal' = journal
    BY <2>1
  <2>2. ASSUME NEW op \in SettleOps, HeadIs(op), NEW ok, AfterSettle(ok)
        PROVE  A
    <3>1. /\ Head(chain) \in RangeOf(chain) /\ Head(chain).op = op
          /\ journal \in Seq(Ids)
      BY <2>2, <1>1, HeadType DEF IInv, TypeOK
    <3>2. fate[Head(chain).turn.id] \in Over
      BY <3>1, <1>1 DEF IInv, OverOK, IsOver
    <3>3. \A m \in RangeOf(journal) :
            m \notin RangeOf(journal') => m = Head(chain).turn.id
      BY <2>2, <3>1, SettledType DEF AfterSettle
    <3> QED
      BY <3>2, <3>3
  <2>3. ASSUME NEW ok, Admit(ok) PROVE A
    <3>1. \/ journal' = journal
          \/ journal' = Append(journal, Head(chain).turn.id)
      BY <2>3 DEF Admit
    <3>2. ASSUME NEW m \in RangeOf(journal), NEW id
          PROVE  m \in RangeOf(Append(journal, id))
      <4>1. PICK i \in 1..Len(journal) : journal[i] = m
        BY <1>1 DEF RangeOf, IInv, TypeOK
      <4>2. i \in DOMAIN Append(journal, id) /\ Append(journal, id)[i] = m
        BY <4>1, <1>1 DEF IInv, TypeOK
      <4> QED
        BY <4>2 DEF RangeOf
    <3> QED
      BY <3>1, <3>2
  <2>4. ASSUME NEW ok, Discard(ok) PROVE A
    BY <2>4 DEF Discard
  <2>5. CASE DiskStep
    <3>1. ASSUME NEW ok, SettleFolded(ok) \/ SettleDropped(ok) \/ SettleAnswered(ok)
          PROVE  A
      BY <2>2, <3>1 DEF SettleFolded, SettleDropped, SettleAnswered, SettleOps
    <3>2. ASSUME NEW ok, Replay(ok) \/ Compact PROVE A
      BY <2>1, <3>2 DEF Replay, Compact
    <3> QED
      BY <2>3, <2>4, <2>5, <3>1, <3>2 DEF DiskStep
  <2>6. CASE DispatchStep \/ PumpStep \/ ReplyStep \/ PiStep
    <3>1. UNCHANGED journal
      BY <2>6
         DEF DispatchStep, PumpStep, ReplyStep, PiStep, Welcomed, SkipFolded, Built,
             TypingDone, Accepted, Refused, GiveUp, ReplySent, AttachmentsSent,
             ReplyFailed, AgentStart, AgentEnd, AgentSettled
    <3> QED
      BY <2>1, <3>1
  <2>7. CASE Environment
    <3>1. UNCHANGED journal
      BY <2>7
         DEF Environment, Arrive, TuiRun, Login, LoginFailed, StartFailed, Stop, Stopped,
             SessionExpired, Crash
    <3> QED
      BY <2>1, <3>1
  <2> QED
    BY <1>1, <2>1, <2>5, <2>6, <2>7 DEF Next, vars
<1>2. IInv /\ [Next]_vars => [A]_vars
  BY <1>1
<1> QED
  BY Inductive, <1>2, PTL DEF Spec, SettledOnlyWhenOver

=============================================================================
