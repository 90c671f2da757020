----------------------------- MODULE TurnProofs -----------------------------
(***************************************************************************)
(* What the bridge keeps of each turn, for every number of messages,       *)
(* logins, failures and crashes: it keeps the promise of TurnPromise, and  *)
(* where the user neither disconnects nor types at the terminal it works   *)
(* on one turn at a time, in order, and on no turn a crash would lose.     *)
(***************************************************************************)
EXTENDS BridgeProofs

\* Where a call of dispatchMessage has not made a turn of its message yet.
Early == {"none", "welcome", "fold", "build", "admit"}
IsEarly(m) == pc[m] \in Early

LineOf(a, q) == IF a = NoTurn THEN q ELSE <<a>> \o q

\* What a step may do to the line: a beginning and an end of it go, the turn
\* of a message joins it, or the journal is replayed into it.
LineShrinks == \E s \in Nat : /\ Len(Line') + s <= Len(Line)
                              /\ \A i \in 1..Len(Line') : Line'[i] = Line[i + s]
LineGrows == \E t \in Turn : /\ IsEarly(t.id) /\ ~IsEarly(t.id)'
                             /\ Line' = Append(Line, t)
                             /\ \/ /\ t = Head(chain).turn
                                   /\ \E ok \in DiskResults : Admit(ok)
                                \/ kind'[t.id] # "text" /\ UNCHANGED journal
\* Only a media message is built without an entry in the journal.
BuildOK == \A m \in Ids : pc[m] = "build" => kind[m] = "media"

LineReplays == /\ \E ok \in DiskResults : Replay(ok)
               /\ Line' = Line \o Replayed(journal)

\* What a step may do to the journal.
JournalAdmits == /\ \E ok \in DiskResults : Admit(ok)
                 /\ journal' = Append(journal, Head(chain).turn.id)
JournalSettles == /\ \E op \in SettleOps : HeadIs(op)
                  /\ journal' = Settled(journal, Head(chain).turn.id)
JournalEmpties == HeadIs("discard") /\ journal' = << >> /\ \E ok \in DiskResults : Discard(ok)

\* The places at which the bridge knows of message m.
Waits(m) == \E i \in DOMAIN Line : Line[i].id = m
Works(m) == \E t \in Turn : t.id = m /\ (pump[t] > 0 \/ post[t] # "none")
Named(m) == Waits(m) \/ Works(m) \/ m \in RangeOf(journal) \/ fate[m] \in Over

\* A message that has no turn yet is known nowhere.
BornOK == \A m \in Ids : IsEarly(m) => ~Named(m)

\* The journal has one entry per message.
OnceOK == \A i, j \in DOMAIN journal : journal[i] = journal[j] => i = j

-----------------------------------------------------------------------------
\* No turn is NoTurn.
LEMMA NoTurnIsNone == NoTurn \notin Turn
BY DEF NoTurn, Turn, Ids

\* The line of an active turn and a queue.
LEMMA LineOfType ==
  ASSUME NEW a \in Turn \cup {NoTurn}, NEW q \in Seq(Turn)
  PROVE  /\ LineOf(a, q) \in Seq(Turn)
         /\ a = NoTurn => LineOf(a, q) = q
         /\ a # NoTurn => /\ Len(LineOf(a, q)) = Len(q) + 1
                          /\ LineOf(a, q)[1] = a
                          /\ \A i \in 1..Len(q) : LineOf(a, q)[i + 1] = q[i]
<1>1. CASE a = NoTurn
  BY <1>1 DEF LineOf
<1>2. CASE a # NoTurn
  <2>1. <<a>> \in Seq(Turn) /\ Len(<<a>>) = 1 /\ <<a>>[1] = a
    BY <1>2
  <2>2. LineOf(a, q) = <<a>> \o q
    BY <1>2 DEF LineOf
  <2> QED
    BY <1>2, <2>1, <2>2
<1> QED
  BY <1>1, <1>2

\* The pump takes the first turn of the queue: the line stays.
LEMMA PumpKeepsLine ==
  ASSUME TypeOK, PumpIfIdle(pendingTurns)
  PROVE  Line' = Line
<1>1. CASE activeTurn = NoTurn /\ pendingTurns # << >>
  <2>1. /\ pendingTurns' = Tail(pendingTurns) /\ activeTurn' = Head(pendingTurns)
        /\ pendingTurns \in Seq(Turn)
    BY <1>1 DEF PumpIfIdle, PumpTurn, TypeOK
  <2>2. Head(pendingTurns) \in Turn /\ Tail(pendingTurns) \in Seq(Turn)
    BY <1>1, <2>1
  <2>3. Line' = <<Head(pendingTurns)>> \o Tail(pendingTurns)
    BY <2>1, <2>2, NoTurnIsNone DEF Line
  <2>4. <<Head(pendingTurns)>> \o Tail(pendingTurns) = pendingTurns
    BY <1>1, <2>1, <2>2
  <2> QED
    BY <1>1, <2>3, <2>4 DEF Line
<1>2. CASE activeTurn # NoTurn \/ pendingTurns = << >>
  BY <1>2 DEF PumpIfIdle, PumpTurn, Line
<1> QED
  BY <1>1, <1>2

\* Taking the next turn when no other is active keeps the line.
LEMMA AdvanceKeepsLine ==
  ASSUME TypeOK, AdvanceQueue
  PROVE  Line' = Line
BY PumpKeepsLine DEF AdvanceQueue, Line

\* A line that stays, or of which a part stays, shrinks.
LEMMA KeptShrinks ==
  ASSUME TypeOK, Line' = Line
  PROVE  LineShrinks
<1>1. Line \in Seq(Turn)
  BY LineOfType DEF TypeOK, Line, LineOf
<1>2. /\ 0 \in Nat /\ Len(Line') + 0 <= Len(Line)
      /\ \A i \in 1..Len(Line') : Line'[i] = Line[i + 0]
  BY <1>1
<1> QED
  BY <1>2 DEF LineShrinks

\* The active turn leaves the line.
LEMMA ActiveLeaves ==
  ASSUME TypeOK, activeTurn' = NoTurn, UNCHANGED pendingTurns
  PROVE  LineShrinks
<1>1. Line' = pendingTurns
  BY DEF Line
<1>2. CASE activeTurn = NoTurn
  BY <1>1, <1>2, KeptShrinks DEF Line
<1>3. CASE activeTurn # NoTurn
  <2>1. Line = LineOf(activeTurn, pendingTurns)
    BY DEF Line, LineOf
  <2>2. pendingTurns \in Seq(Turn) /\ activeTurn \in Turn \cup {NoTurn}
    BY DEF TypeOK
  <2>3. Len(Line) = Len(pendingTurns) + 1
        /\ \A i \in 1..Len(pendingTurns) : Line[i + 1] = pendingTurns[i]
    BY <1>3, <2>1, <2>2, LineOfType
  <2>4. /\ 1 \in Nat /\ Len(Line') + 1 <= Len(Line)
        /\ \A i \in 1..Len(Line') : Line'[i] = Line[i + 1]
    BY <1>1, <2>2, <2>3
  <2> QED
    BY <2>4 DEF LineShrinks
<1> QED
  BY <1>2, <1>3

\* The queue is emptied, and perhaps the active turn leaves too.
LEMMA QueueLeaves ==
  ASSUME TypeOK, pendingTurns' = << >>, activeTurn' \in {activeTurn, NoTurn}
  PROVE  LineShrinks
<1>1. Line = LineOf(activeTurn, pendingTurns) /\ Line' = LineOf(activeTurn', << >>)
  BY DEF Line, LineOf
<1>2. pendingTurns \in Seq(Turn) /\ activeTurn \in Turn \cup {NoTurn}
  BY DEF TypeOK
<1>3. << >> \in Seq(Turn) /\ Len(<< >>) = 0
  OBVIOUS
<1>4. /\ Line \in Seq(Turn)
      /\ activeTurn # NoTurn => Len(Line) = Len(pendingTurns) + 1 /\ Line[1] = activeTurn
  BY <1>1, <1>2, LineOfType
<1>5. /\ activeTurn' = NoTurn => Line' = << >>
      /\ activeTurn' # NoTurn => Len(Line') = 1 /\ Line'[1] = activeTurn'
  <2>1. ASSUME NEW a \in Turn \cup {NoTurn}
        PROVE  /\ a = NoTurn => LineOf(a, << >>) = << >>
               /\ a # NoTurn => Len(LineOf(a, << >>)) = 1 /\ LineOf(a, << >>)[1] = a
    <3> DEFINE e == << >>
    <3>1. e \in Seq(Turn) /\ Len(e) = 0
      BY <1>3
    <3> HIDE DEF e
    <3>2. /\ a = NoTurn => LineOf(a, e) = e
          /\ a # NoTurn => Len(LineOf(a, e)) = 1 /\ LineOf(a, e)[1] = a
      <4>1. a # NoTurn => Len(LineOf(a, e)) = Len(e) + 1 /\ LineOf(a, e)[1] = a
        BY <3>1, LineOfType, Zenon
      <4>2. a = NoTurn => LineOf(a, e) = e
        BY DEF LineOf
      <4> QED
        BY <3>1, <4>1, <4>2
    <3> QED
      BY <3>2 DEF e
  <2>2. activeTurn' \in Turn \cup {NoTurn}
    BY <1>2
  <2> QED
    BY <1>1, <2>1, <2>2
<1>6. /\ 0 \in Nat /\ Len(Line') + 0 <= Len(Line)
      /\ \A i \in 1..Len(Line') : Line'[i] = Line[i + 0]
  <2>1. CASE activeTurn' = NoTurn
    BY <1>4, <1>5, <2>1
  <2>2. CASE activeTurn' # NoTurn
    BY <1>2, <1>4, <1>5, <2>2
  <2> QED
    BY <2>1, <2>2
<1> QED
  BY <1>6 DEF LineShrinks

\* Turns queued join the line at its end.
LEMMA QueuedJoin ==
  ASSUME TypeOK, NEW q \in Seq(Turn), pendingTurns' = pendingTurns \o q,
         UNCHANGED activeTurn
  PROVE  Line' = Line \o q
<1>1. pendingTurns \in Seq(Turn) /\ activeTurn \in Turn \cup {NoTurn}
  BY DEF TypeOK
<1>2. CASE activeTurn = NoTurn
  BY <1>2 DEF Line
<1>3. CASE activeTurn # NoTurn
  <2>1. <<activeTurn>> \in Seq(Turn)
    BY <1>1, <1>3
  <2>2. <<activeTurn>> \o (pendingTurns \o q) = (<<activeTurn>> \o pendingTurns) \o q
    BY <1>1, <2>1, ConcatAssociative
  <2> QED
    BY <1>3, <2>2 DEF Line
<1> QED
  BY <1>2, <1>3

\* A turn joins the line.
LEMMA OneJoins ==
  ASSUME TypeOK, NEW t \in Turn, pendingTurns' = Append(pendingTurns, t),
         UNCHANGED activeTurn
  PROVE  Line' = Append(Line, t)
<1>1. <<t>> \in Seq(Turn) /\ pendingTurns \in Seq(Turn)
  BY DEF TypeOK
<1>2. pendingTurns' = pendingTurns \o <<t>>
  BY <1>1, AppendIsConcat
<1>3. Line' = Line \o <<t>>
  BY <1>1, <1>2, QueuedJoin
<1>4. Line \in Seq(Turn)
  BY LineOfType DEF TypeOK, Line, LineOf
<1> QED
  BY <1>3, <1>4, AppendIsConcat

\* A turn of a message that has none yet joins the line.
LEMMA NewJoins ==
  ASSUME IInv, NEW m \in Ids, IsEarly(m), ~IsEarly(m)', kind'[m] # "text",
         pendingTurns' = Append(pendingTurns, New(m)), UNCHANGED <<activeTurn, journal>>
  PROVE  LineGrows
<1>1. New(m) \in Turn /\ New(m).id = m
  BY NewType DEF New
<1>2. Line' = Append(Line, New(m))
  BY <1>1, OneJoins DEF IInv
<1> QED
  BY <1>1, <1>2 DEF LineGrows

\* Routing a message makes its turn join the line, or ends turns of the line.
LEMMA RouteLine ==
  ASSUME IInv, NEW m \in Ids, NEW k \in AllKinds, Route(m, k), IsEarly(m), kind'[m] = k,
         UNCHANGED <<activeTurn, journal>>
  PROVE  LineShrinks \/ LineGrows
<1>1. pc \in [Ids -> DispatchPoints] /\ TypeOK
  BY DEF IInv, TypeOK
<1>2. CASE k = "stop"
  BY <1>1, <1>2, KeptShrinks DEF Route, Line
<1>3. CASE k = "skill"
  <2>1. ~IsEarly(m)' /\ pendingTurns' = Append(pendingTurns, New(m))
    BY <1>1, <1>3 DEF Route, IsEarly, Early
  <2> QED
    BY <1>3, <2>1, NewJoins
<1>4. CASE k \in {"text", "media"}
  <2>1. pendingTurns' = IF preserve THEN << >> ELSE pendingTurns
    BY <1>4 DEF Route
  <2> QED
    BY <1>1, <2>1, KeptShrinks, QueueLeaves DEF Line
<1> QED
  BY <1>2, <1>3, <1>4 DEF AllKinds

\* Ending a turn that is not in the line leaves the line.
LEMMA FinishLine ==
  ASSUME TypeOK, NEW t \in Turn, NEW f, Finish(t, f)
  PROVE  Line' = Line
BY AdvanceKeepsLine DEF Finish, Line

\* Every step shortens the line, adds one turn to it or replays the journal.
LEMMA LineStep ==
  ASSUME IInv, BuildOK, [Next]_vars
  PROVE  LineShrinks \/ LineGrows \/ LineReplays
<1> USE DEF bridgeVars, dispatchVars, pumpVars, postVars, diskVars, piVars
<1>1. TypeOK /\ kind \in [Ids -> AllKinds \cup {"none"}] /\ pc \in [Ids -> DispatchPoints]
  BY DEF IInv, TypeOK
<1>2. ASSUME Line' = Line PROVE LineShrinks
  BY <1>1, <1>2, KeptShrinks
<1>3. ASSUME UNCHANGED <<activeTurn, pendingTurns>> PROVE LineShrinks
  BY <1>2, <1>3 DEF Line
<1>4. CASE UNCHANGED vars
  BY <1>3, <1>4 DEF vars
<1>5. CASE DispatchStep
  <2>1. ASSUME NEW m \in Ids, Welcomed(m) PROVE LineShrinks \/ LineGrows
    <3>1. /\ kind[m] \in AllKinds /\ IsEarly(m) /\ kind'[m] = kind[m]
          /\ Route(m, kind[m]) /\ UNCHANGED <<activeTurn, journal>>
      BY <1>1, <2>1 DEF Welcomed, IInv, FoldOK, CallOK, IsEarly, Early
    <3> QED
      BY <3>1, RouteLine
  <2>2. ASSUME NEW m \in Ids, SkipFolded(m) PROVE LineShrinks
    BY <1>3, <2>2 DEF SkipFolded
  <2>3. ASSUME NEW m \in Ids, NEW ok, Built(m, ok) PROVE LineShrinks \/ LineGrows
    <3>1. CASE ok
      <4>1. /\ IsEarly(m) /\ ~IsEarly(m)' /\ kind'[m] # "text"
            /\ pendingTurns' = Append(pendingTurns, New(m))
            /\ UNCHANGED <<activeTurn, journal>>
        BY <1>1, <2>3, <3>1 DEF Built, BuildOK, IsEarly, Early
      <4> QED
        BY <4>1, NewJoins
    <3>2. CASE ~ok
      BY <1>3, <2>3, <3>2 DEF Built
    <3> QED
      BY <3>1, <3>2
  <2>4. ASSUME NEW m \in Ids, TypingDone(m) PROVE LineShrinks
    BY <1>1, <1>2, <2>4, PumpKeepsLine DEF TypingDone
  <2> QED
    BY <1>5, <2>1, <2>2, <2>3, <2>4 DEF DispatchStep
<1>6. CASE PumpStep
  BY <1>1, <1>3, <1>6, ActiveLeaves DEF PumpStep, Accepted, Refused, GiveUp
<1>7. CASE ReplyStep
  <2>1. ASSUME NEW t \in Turn, ReplySent(t) PROVE LineShrinks
    BY <1>1, <1>2, <1>3, <2>1, FinishLine DEF ReplySent
  <2>2. ASSUME NEW t \in Turn, AttachmentsSent(t) PROVE LineShrinks
    BY <1>1, <1>2, <2>2, FinishLine DEF AttachmentsSent
  <2>3. ASSUME NEW t \in Turn, ReplyFailed(t) PROVE LineShrinks
    BY <1>1, <1>2, <2>3, FinishLine, AdvanceKeepsLine DEF ReplyFailed
  <2> QED
    BY <1>7, <2>1, <2>2, <2>3 DEF ReplyStep
<1>8. CASE DiskStep
  <2>1. ASSUME NEW ok \in DiskResults, Admit(ok) PROVE LineGrows
    <3>1. PICK t \in Turn : t = Head(chain).turn /\ t.id \in Ids /\ pc[t.id] = "admit"
      <4>1. Head(chain) \in RangeOf(chain) /\ Head(chain).op = "admit"
        BY <2>1, HeadType DEF Admit
      <4> QED
        BY <4>1 DEF IInv, FoldOK, WaitOK, ChainOK, HasTurn, Turn
    <3>2. /\ pendingTurns' = Append(pendingTurns, t) /\ UNCHANGED activeTurn
          /\ pc' = [pc EXCEPT ![t.id] = "typing"]
      BY <2>1, <3>1 DEF Admit
    <3>3. IsEarly(t.id) /\ ~IsEarly(t.id)'
      BY <1>1, <3>1, <3>2 DEF IsEarly, Early
    <3>4. Line' = Append(Line, t)
      BY <1>1, <3>1, <3>2, OneJoins
    <3> QED
      BY <2>1, <3>1, <3>3, <3>4 DEF LineGrows
  <2>2. ASSUME NEW ok, SettleFolded(ok) \/ SettleDropped(ok) \/ Discard(ok) PROVE LineShrinks
    BY <1>3, <2>2 DEF SettleFolded, SettleDropped, Discard
  <2>3. ASSUME NEW ok, SettleAnswered(ok) PROVE LineShrinks
    BY <1>1, <1>2, <2>3, AdvanceKeepsLine DEF SettleAnswered
  <2>4. ASSUME NEW ok \in DiskResults, Replay(ok) PROVE LineShrinks \/ LineReplays
    <3>1. CASE ok
      <4>1. pendingTurns' = pendingTurns \o Replayed(journal) /\ UNCHANGED activeTurn
        BY <2>4, <3>1 DEF Replay
      <4>2. Line' = Line \o Replayed(journal)
        BY <1>1, <4>1, ReplayedType, QueuedJoin
      <4> QED
        BY <2>4, <4>2 DEF LineReplays
    <3>2. CASE ~ok
      BY <1>3, <2>4, <3>2 DEF Replay
    <3> QED
      BY <3>1, <3>2
  <2>5. ASSUME Compact PROVE LineShrinks
    BY <1>1, <1>2, <2>5, PumpKeepsLine DEF Compact
  <2> QED
    BY <1>8, <2>1, <2>2, <2>3, <2>4, <2>5 DEF DiskStep
<1>9. CASE PiStep
  BY <1>1, <1>3, <1>9, ActiveLeaves DEF PiStep, AgentStart, AgentEnd, AgentSettled
<1>10. CASE Environment
  <2>1. ASSUME NEW m \in Ids, NEW k \in Kinds, Arrive(m, k) PROVE LineShrinks \/ LineGrows
    <3>1. k \in AllKinds /\ IsEarly(m) /\ kind'[m] = k /\ UNCHANGED <<activeTurn, journal>>
      BY <1>1, <2>1, BridgeAssumption DEF Arrive, IInv, FoldOK, CallOK, IsEarly, Early
    <3> QED
      BY <1>3, <2>1, <3>1, RouteLine DEF Arrive
  <2>2. ASSUME Stopped \/ Crash PROVE LineShrinks
    BY <1>1, <2>2, QueueLeaves DEF Stopped, Crash
  <2>3. ASSUME TuiRun \/ Login \/ LoginFailed \/ StartFailed \/ Stop \/ SessionExpired
        PROVE  LineShrinks
    BY <1>3, <2>3 DEF TuiRun, Login, LoginFailed, StartFailed, Stop, SessionExpired
  <2> QED
    BY <1>10, <2>1, <2>2, <2>3 DEF Environment
<1> QED
  BY <1>4, <1>5, <1>6, <1>7, <1>8, <1>9, <1>10 DEF Next

-----------------------------------------------------------------------------
\* A call of dispatchMessage never goes back to where it has no turn.
LEMMA EarlyStep ==
  ASSUME IInv, [Next]_vars, NEW m \in Ids, IsEarly(m)'
  PROVE  IsEarly(m)
<1> USE DEF bridgeVars, dispatchVars, pumpVars, postVars, diskVars, piVars, IsEarly, Early
<1>1. pc \in [Ids -> DispatchPoints]
  BY DEF IInv, TypeOK
<1>2. ASSUME UNCHANGED pc PROVE IsEarly(m)
  BY <1>2
<1>3. ASSUME NEW n \in Ids, IsEarly(n), NEW p, pc' = [pc EXCEPT ![n] = p] PROVE IsEarly(m)
  BY <1>1, <1>3
<1>4. ASSUME NEW n \in Ids, IsEarly(n), NEW k, Route(n, k) PROVE IsEarly(m)
  BY <1>3, <1>4 DEF Route, SettleOrBuild
<1>5. CASE DispatchStep
  <2>1. ASSUME NEW n \in Ids, Welcomed(n) PROVE IsEarly(m)
    BY <1>4, <2>1 DEF Welcomed
  <2>2. ASSUME NEW n \in Ids, SkipFolded(n) PROVE IsEarly(m)
    BY <1>3, <2>2 DEF SkipFolded, SettleOrBuild
  <2>3. ASSUME NEW n \in Ids, NEW ok, Built(n, ok) PROVE IsEarly(m)
    BY <1>3, <2>3 DEF Built
  <2>4. ASSUME NEW n \in Ids, TypingDone(n) PROVE IsEarly(m)
    BY <1>1, <2>4 DEF TypingDone
  <2> QED
    BY <1>5, <2>1, <2>2, <2>3, <2>4 DEF DispatchStep
<1>6. CASE DiskStep
  <2>1. ASSUME NEW ok, Admit(ok) PROVE IsEarly(m)
    BY <1>1, <2>1 DEF Admit
  <2>2. ASSUME NEW ok, SettleFolded(ok) PROVE IsEarly(m)
    <3>1. PICK n \in Ids : n = Head(chain).for /\ pc[n] = "fold"
      <4>1. Head(chain) \in RangeOf(chain) /\ Head(chain).op = "folded"
        BY <2>2, HeadType DEF SettleFolded
      <4> QED
        BY <4>1 DEF IInv, FoldOK, WaitOK
    <3> QED
      BY <1>3, <2>2, <3>1 DEF SettleFolded, SettleOrBuild
  <2>3. ASSUME NEW ok, \/ SettleDropped(ok) \/ SettleAnswered(ok) \/ Replay(ok)
                       \/ Discard(ok) \/ Compact
        PROVE  IsEarly(m)
    BY <2>3 DEF SettleDropped, SettleAnswered, Replay, Discard, Compact
  <2> QED
    BY <1>6, <2>1, <2>2, <2>3 DEF DiskStep
<1>7. CASE Environment
  <2>1. ASSUME NEW n \in Ids, NEW k \in Kinds, Arrive(n, k) PROVE IsEarly(m)
    <3>1. IsEarly(n)
      BY <2>1 DEF Arrive, IInv, FoldOK, CallOK
    <3> QED
      BY <1>3, <1>4, <2>1, <3>1 DEF Arrive
  <2>2. ASSUME Crash PROVE IsEarly(m)
    BY <2>2 DEF Crash, IInv, FoldOK, CallOK
  <2>3. ASSUME \/ TuiRun \/ Login \/ LoginFailed \/ StartFailed \/ Stop \/ Stopped
               \/ SessionExpired
        PROVE  IsEarly(m)
    BY <2>3 DEF TuiRun, Login, LoginFailed, StartFailed, Stop, Stopped, SessionExpired
  <2> QED
    BY <1>7, <2>1, <2>2, <2>3 DEF Environment
<1>8. CASE PumpStep \/ ReplyStep \/ PiStep \/ UNCHANGED vars
  <2>1. UNCHANGED pc
    BY <1>8
       DEF PumpStep, ReplyStep, PiStep, Accepted, Refused, GiveUp, ReplySent,
           AttachmentsSent, ReplyFailed, AgentStart, AgentEnd, AgentSettled, vars
  <2> QED
    BY <2>1
<1> QED
  BY <1>5, <1>6, <1>7, <1>8 DEF Next

\* Every step leaves the journal or ends one operation on it, which leaves
\* the fates.
LEMMA JournalStep ==
  ASSUME IInv, [Next]_vars
  PROVE  \/ UNCHANGED journal
         \/ (JournalAdmits \/ JournalSettles \/ JournalEmpties) /\ UNCHANGED fate
<1> USE DEF bridgeVars, dispatchVars, pumpVars, postVars, diskVars, piVars
<1>1. CASE DiskStep
  <2>1. ASSUME NEW ok \in DiskResults, Admit(ok)
        PROVE  UNCHANGED journal \/ (JournalAdmits /\ UNCHANGED fate)
    BY <2>1 DEF Admit, JournalAdmits
  <2>2. ASSUME NEW ok, SettleFolded(ok) \/ SettleDropped(ok) \/ SettleAnswered(ok)
        PROVE  UNCHANGED journal \/ (JournalSettles /\ UNCHANGED fate)
    BY <2>2
       DEF SettleFolded, SettleDropped, SettleAnswered, AfterSettle, JournalSettles,
           SettleOps
  <2>3. ASSUME NEW ok \in DiskResults, Discard(ok)
        PROVE  UNCHANGED journal \/ (JournalEmpties /\ UNCHANGED fate)
    BY <2>3 DEF Discard, JournalEmpties
  <2>4. ASSUME NEW ok, Replay(ok) \/ Compact PROVE UNCHANGED journal
    BY <2>4 DEF Replay, Compact
  <2> QED
    BY <1>1, <2>1, <2>2, <2>3, <2>4 DEF DiskStep
<1>2. CASE DispatchStep \/ PumpStep \/ ReplyStep \/ PiStep
  BY <1>2
     DEF DispatchStep, PumpStep, ReplyStep, PiStep, Welcomed, SkipFolded, Built,
         TypingDone, Accepted, Refused, GiveUp, ReplySent, AttachmentsSent,
         ReplyFailed, AgentStart, AgentEnd, AgentSettled
<1>3. CASE Environment
  BY <1>3
     DEF Environment, Arrive, TuiRun, Login, LoginFailed, StartFailed, Stop, Stopped,
         SessionExpired, Crash
<1> QED
  BY <1>1, <1>2, <1>3 DEF Next, vars

\* The turn an operation of the chain is about.
LEMMA HeadTurn ==
  ASSUME IInv, NEW op \in SettleOps \cup {"admit"}, HeadIs(op)
  PROVE  /\ Head(chain).turn \in Turn /\ Head(chain).turn.id \in Ids
         /\ op \in SettleOps => fate[Head(chain).turn.id] \in Over
         /\ op = "admit" => pc[Head(chain).turn.id] = "admit"
<1>1. Head(chain) \in RangeOf(chain) /\ Head(chain).op = op
  BY HeadType
<1>2. Head(chain).turn \in Turn
  BY <1>1 DEF IInv, ChainOK, HasTurn
<1> QED
  BY <1>1, <1>2 DEF IInv, OverOK, IsOver, FoldOK, WaitOK, Turn

-----------------------------------------------------------------------------
\* The active turn and the queued ones are in the line.
LEMMA LineHolds ==
  ASSUME TypeOK, NEW t \in Turn, t = activeTurn \/ t \in RangeOf(pendingTurns)
  PROVE  t \in RangeOf(Line) /\ Waits(t.id)
<1>1. pendingTurns \in Seq(Turn) /\ activeTurn \in Turn \cup {NoTurn}
  BY DEF TypeOK
<1>2. Line = LineOf(activeTurn, pendingTurns) /\ Line \in Seq(Turn)
  BY <1>1, LineOfType DEF Line, LineOf
<1>3. \E i \in DOMAIN Line : Line[i] = t
  <2>1. CASE t = activeTurn
    <3>1. Len(Line) = Len(pendingTurns) + 1 /\ Line[1] = t
      BY <1>1, <1>2, <2>1, LineOfType, NoTurnIsNone
    <3> QED
      BY <1>1, <1>2, <3>1
  <2>2. CASE t \in RangeOf(pendingTurns)
    <3>1. PICK i \in 1..Len(pendingTurns) : pendingTurns[i] = t
      BY <1>1, <2>2 DEF RangeOf
    <3>2. CASE activeTurn = NoTurn
      BY <1>1, <3>1, <3>2 DEF Line
    <3>3. CASE activeTurn # NoTurn
      <4>1. /\ Len(Line) = Len(pendingTurns) + 1
            /\ \A j \in 1..Len(pendingTurns) : Line[j + 1] = pendingTurns[j]
        <5>1. Line = LineOf(activeTurn, pendingTurns)
          BY <1>2
        <5> QED
          BY <1>1, <3>3, <5>1, LineOfType
      <4>2. i + 1 \in DOMAIN Line
        BY <1>1, <1>2, <3>1, <4>1
      <4> QED
        BY <3>1, <4>1, <4>2
    <3> QED
      BY <3>2, <3>3
  <2> QED
    BY <2>1, <2>2
<1> QED
  BY <1>3 DEF RangeOf, Waits

\* A pump loop starts with the first turn of the queue.
LEMMA PumpStarts ==
  ASSUME TypeOK, PumpIfIdle(pendingTurns) \/ AdvanceQueue, NEW t \in Turn
  PROVE  \/ pump'[t] = pump[t]
         \/ t \in RangeOf(pendingTurns) /\ activeTurn = NoTurn /\ activeTurn' = t
<1>1. CASE activeTurn = NoTurn /\ pendingTurns # << >> /\ PumpTurn(pendingTurns)
  <2>1. Head(pendingTurns) \in RangeOf(pendingTurns)
    <3>1. pendingTurns \in Seq(Turn) /\ 1 \in DOMAIN pendingTurns
      BY <1>1 DEF TypeOK
    <3> QED
      BY <3>1 DEF RangeOf
  <2>2. /\ pump' = [pump EXCEPT ![Head(pendingTurns)] = 1]
        /\ activeTurn' = Head(pendingTurns)
    BY <1>1 DEF PumpTurn
  <2> QED
    BY <1>1, <2>1, <2>2 DEF TypeOK
<1>2. CASE UNCHANGED pump
  BY <1>2
<1> QED
  BY <1>1, <1>2 DEF AdvanceQueue, PumpIfIdle, PumpTurn

\* The bridge starts to work only on turns of the line.
LEMMA WorksStep ==
  ASSUME IInv, [Next]_vars, NEW t \in Turn
  PROVE  /\ pump'[t] > 0 => pump[t] > 0 \/ t \in RangeOf(pendingTurns)
         /\ post'[t] # "none" => post[t] # "none" \/ t = activeTurn
<1> USE DEF bridgeVars, dispatchVars, pumpVars, postVars, diskVars, piVars
<1> DEFINE Pumped == pump'[t] > 0 => pump[t] > 0 \/ t \in RangeOf(pendingTurns)
           Posted == post'[t] # "none" => post[t] # "none" \/ t = activeTurn
<1>1. /\ TypeOK /\ post \in [Turn -> ReplyPoints] /\ pump \in [Turn -> 0..MAX_SEND_ATTEMPTS]
  BY DEF IInv, TypeOK
<1>2. ASSUME PumpIfIdle(pendingTurns) \/ AdvanceQueue \/ UNCHANGED pump PROVE Pumped
  BY <1>1, <1>2, PumpStarts
<1>3. ASSUME UNCHANGED post PROVE Posted
  BY <1>3
<1>4. CASE DispatchStep
  BY <1>2, <1>3, <1>4 DEF DispatchStep, Welcomed, SkipFolded, Built, TypingDone
<1>5. CASE PumpStep
  BY <1>1, <1>3, <1>5 DEF PumpStep, Accepted, Refused, GiveUp
<1>6. CASE ReplyStep
  <2>1. PICK u \in Turn : ReplySent(u) \/ AttachmentsSent(u) \/ ReplyFailed(u)
    BY <1>6 DEF ReplyStep
  <2>2. post[u] # "none" /\ \E p : post' = [post EXCEPT ![u] = p]
    BY <2>1 DEF ReplySent, AttachmentsSent, ReplyFailed, Finish
  <2>3. AdvanceQueue \/ UNCHANGED pump
    BY <2>1 DEF ReplySent, AttachmentsSent, ReplyFailed, Finish
  <2> QED
    BY <1>1, <1>2, <2>2, <2>3
<1>7. CASE DiskStep
  <2>1. ASSUME NEW ok, SettleAnswered(ok) PROVE Pumped /\ Posted
    BY <1>1, <1>2, <2>1 DEF SettleAnswered
  <2>2. ASSUME NEW ok, \/ Admit(ok) \/ SettleFolded(ok) \/ SettleDropped(ok)
                       \/ Replay(ok) \/ Discard(ok)
        PROVE  UNCHANGED <<pump, post>>
    BY <2>2 DEF Admit, SettleFolded, SettleDropped, Replay, Discard
  <2>3. ASSUME Compact PROVE Pumped /\ Posted
    BY <1>2, <1>3, <2>3 DEF Compact
  <2> QED
    BY <1>2, <1>3, <1>7, <2>1, <2>2, <2>3 DEF DiskStep
<1>8. CASE PiStep
  BY <1>1, <1>2, <1>3, <1>8 DEF PiStep, AgentStart, AgentEnd, AgentSettled
<1>9. CASE Environment
  <2>1. ASSUME Crash PROVE Pumped /\ Posted
    BY <2>1 DEF Crash
  <2>2. ASSUME \/ TuiRun \/ Login \/ LoginFailed \/ StartFailed \/ Stop \/ Stopped
               \/ SessionExpired \/ \E m \in Ids, k \in Kinds : Arrive(m, k)
        PROVE  UNCHANGED <<pump, post>>
    BY <2>2
       DEF TuiRun, Login, LoginFailed, StartFailed, Stop, Stopped, SessionExpired, Arrive
  <2> QED
    BY <1>2, <1>3, <1>9, <2>1, <2>2 DEF Environment
<1> QED
  BY <1>2, <1>3, <1>4, <1>5, <1>6, <1>7, <1>8, <1>9 DEF Next, vars

\* Only a message of a turn the bridge holds comes to its end.
LEMMA FateStep ==
  ASSUME IInv, [Next]_vars, NEW m \in Ids, fate'[m] \in Over
  PROVE  fate[m] \in Over \/ Waits(m) \/ Works(m)
<1> USE DEF bridgeVars, dispatchVars, pumpVars, postVars, diskVars, piVars
<1> DEFINE Known == fate[m] \in Over \/ Waits(m) \/ Works(m)
<1>1. TypeOK
  BY DEF IInv
<1>2. ASSUME NEW S, NEW f, fate' = Fate(S, f), m \in S /\ f \in Over => Waits(m) \/ Works(m)
      PROVE  Known
  BY <1>2 DEF Fate
<1>3. ASSUME NEW n \in Ids, NEW k \in AllKinds, Route(n, k) PROVE Known
  <2>1. CASE UNCHANGED fate
    BY <2>1
  <2>2. CASE fate' = Fate(IdsOf(IF preserve THEN pendingTurns ELSE << >>), "folded")
    <3>1. ASSUME m \in IdsOf(IF preserve THEN pendingTurns ELSE << >>) PROVE Waits(m)
      <4>1. PICK i \in DOMAIN pendingTurns : pendingTurns[i].id = m
        BY <3>1 DEF IdsOf
      <4>2. pendingTurns[i] \in Turn /\ pendingTurns[i] \in RangeOf(pendingTurns)
        BY <1>1, <4>1 DEF TypeOK, RangeOf
      <4> QED
        BY <1>1, <4>1, <4>2, LineHolds
    <3> QED
      BY <1>2, <2>2, <3>1
  <2> QED
    BY <1>3, <2>1, <2>2 DEF Route, AllKinds
<1>4. CASE DispatchStep
  <2>1. ASSUME NEW n \in Ids, Welcomed(n) PROVE Known
    <3>1. kind[n] \in AllKinds /\ Route(n, kind[n])
      BY <2>1 DEF Welcomed, IInv, FoldOK, CallOK, TypeOK
    <3> QED
      BY <1>3, <3>1
  <2>2. ASSUME NEW n \in Ids, NEW ok, Built(n, ok) PROVE Known
    <3>1. "lost" \notin Over
      BY DEF Over
    <3> QED
      BY <1>2, <2>2, <3>1 DEF Built
  <2>3. ASSUME NEW n \in Ids, SkipFolded(n) \/ TypingDone(n) PROVE UNCHANGED fate
    BY <2>3 DEF SkipFolded, TypingDone
  <2> QED
    BY <1>4, <2>1, <2>2, <2>3 DEF DispatchStep
<1>5. CASE PumpStep
  <2>1. ASSUME NEW t \in Turn, GiveUp(t) PROVE Known
    BY <1>2, <2>1 DEF GiveUp, Works
  <2>2. ASSUME NEW t \in Turn, Accepted(t) \/ Refused(t) PROVE UNCHANGED fate
    BY <2>2 DEF Accepted, Refused
  <2> QED
    BY <1>5, <2>1, <2>2 DEF PumpStep
<1>6. CASE ReplyStep
  <2>1. PICK t \in Turn : ReplySent(t) \/ AttachmentsSent(t) \/ ReplyFailed(t)
    BY <1>6 DEF ReplyStep
  <2>2. post[t] # "none" /\ (UNCHANGED fate \/ \E f : fate' = Fate({t.id}, f))
    BY <2>1 DEF ReplySent, AttachmentsSent, ReplyFailed, Finish
  <2> QED
    BY <1>2, <2>2 DEF Works
<1>7. CASE DiskStep
  BY <1>7
     DEF DiskStep, Admit, SettleFolded, SettleDropped, SettleAnswered, Replay, Discard,
         Compact, Over
<1>8. CASE PiStep
  <2>1. "unsent" \notin Over
    BY DEF Over
  <2> QED
    BY <1>2, <1>8, <2>1 DEF PiStep, AgentStart, AgentEnd, AgentSettled
<1>9. CASE Environment
  <2>1. ASSUME NEW n \in Ids, NEW k \in Kinds, Arrive(n, k) PROVE Known
    BY <1>3, <2>1, BridgeAssumption DEF Arrive
  <2>2. ASSUME \/ TuiRun \/ Login \/ LoginFailed \/ StartFailed \/ Stop \/ Stopped
               \/ SessionExpired \/ Crash
        PROVE  UNCHANGED fate
    BY <2>2
       DEF TuiRun, Login, LoginFailed, StartFailed, Stop, Stopped, SessionExpired, Crash
  <2> QED
    BY <1>9, <2>1, <2>2 DEF Environment
<1> QED
  BY <1>4, <1>5, <1>6, <1>7, <1>8, <1>9 DEF Next, vars

-----------------------------------------------------------------------------
\* An entry added.
LEMMA RangeAppended ==
  ASSUME NEW S, NEW q \in Seq(S), NEW e \in S
  PROVE  RangeOf(Append(q, e)) = RangeOf(q) \cup {e}
<1>1. RangeOf(Append(q, e)) \subseteq RangeOf(q) \cup {e}
  BY RangeAppend
<1>2. /\ DOMAIN Append(q, e) = 1..(Len(q) + 1) /\ Append(q, e)[Len(q) + 1] = e
      /\ \A i \in 1..Len(q) : Append(q, e)[i] = q[i]
      /\ DOMAIN q = 1..Len(q) /\ Len(q) + 1 \in 1..(Len(q) + 1)
  OBVIOUS
<1>3. RangeOf(q) \cup {e} \subseteq RangeOf(Append(q, e))
  BY <1>2 DEF RangeOf
<1> QED
  BY <1>1, <1>3

\* Settling keeps the order of the entries, and adds none; where the journal
\* has one entry per message, the settled one is gone.
LEMMA SettledOrder ==
  ASSUME NEW j \in Seq(Ids), NEW id
  PROVE  /\ \A p \in DOMAIN Settled(j, id) : \E i \in DOMAIN j : Settled(j, id)[p] = j[i]
         /\ \A p, q \in DOMAIN Settled(j, id) :
              \E k, l \in DOMAIN j : /\ Settled(j, id)[p] = j[k] /\ Settled(j, id)[q] = j[l]
                                     /\ p < q <=> k < l
                                     /\ k = l <=> p = q
         /\ (\A i, k \in DOMAIN j : j[i] = j[k] => i = k) => id \notin RangeOf(Settled(j, id))
<1>1. CASE id \notin RangeOf(j)
  BY <1>1 DEF Settled
<1>2. CASE id \in RangeOf(j)
  <2> DEFINE n == CHOOSE n \in DOMAIN j : j[n] = id
             a == SubSeq(j, 1, n - 1)
             b == SubSeq(j, n + 1, Len(j))
             At(p) == IF p < n THEN p ELSE p + 1
  <2>1. n \in 1..Len(j) /\ j[n] = id
    BY <1>2 DEF RangeOf
  <2>2. Settled(j, id) = a \o b
    BY <1>2 DEF Settled
  <2> HIDE DEF n
  <2>3. /\ a \in Seq(Ids) /\ Len(a) = n - 1
        /\ \A i \in 1..(n - 1) : a[i] = j[i]
    BY <2>1
  <2>4. /\ b \in Seq(Ids) /\ Len(b) = Len(j) - n
        /\ \A i \in 1..(Len(j) - n) : b[i] = j[n + i]
    BY <2>1
  <2> HIDE DEF a, b
  <2>5. a \o b \in Seq(Ids) /\ Len(a \o b) = Len(j) - 1
    <3>1. a \o b \in Seq(Ids) /\ Len(a \o b) = Len(a) + Len(b)
      BY <2>3, <2>4, ConcatProperties
    <3> QED
      BY <3>1, <2>1, <2>3, <2>4
  <2>6. ASSUME NEW p \in 1..(Len(j) - 1)
        PROVE  At(p) \in 1..Len(j) /\ At(p) # n /\ (a \o b)[p] = j[At(p)]
    <3>1. At(p) \in 1..Len(j) /\ At(p) # n
      BY <2>1
    <3>2. CASE p < n
      <4>1. (a \o b)[p] = a[p]
        BY <3>2, <2>1, <2>3, <2>4
      <4> QED
        BY <3>1, <3>2, <4>1, <2>1, <2>3
    <3>3. CASE p >= n
      <4>1. p \in (Len(a) + 1)..(Len(a) + Len(b))
        BY <3>3, <2>1, <2>3, <2>4
      <4>2. (a \o b)[p] = b[p - Len(a)]
        BY <4>1, <2>3, <2>4, ConcatProperties
      <4>3. p - Len(a) \in 1..(Len(j) - n) /\ n + (p - Len(a)) = p + 1
        BY <3>3, <2>1, <2>3
      <4>4. b[p - Len(a)] = j[n + (p - Len(a))]
        BY <4>3, <2>4
      <4>5. At(p) = p + 1
        BY <3>3, <2>1
      <4> QED
        BY <3>1, <4>2, <4>3, <4>4, <4>5
    <3>4. p < n \/ p >= n
      BY <2>1
    <3> QED
      BY <3>1, <3>2, <3>3, <3>4
  <2>7. ASSUME NEW p \in 1..(Len(j) - 1), NEW q \in 1..(Len(j) - 1)
        PROVE  (p < q <=> At(p) < At(q)) /\ (At(p) = At(q) <=> p = q)
    BY <2>1
  <2>8. DOMAIN Settled(j, id) = 1..(Len(j) - 1) /\ DOMAIN j = 1..Len(j)
    BY <2>2, <2>5
  <2> HIDE DEF At
  <2>9. ASSUME \A i, k \in DOMAIN j : j[i] = j[k] => i = k
        PROVE  id \notin RangeOf(Settled(j, id))
    <3> SUFFICES ASSUME NEW p \in 1..(Len(j) - 1), Settled(j, id)[p] = id PROVE FALSE
      BY <2>8 DEF RangeOf
    <3>1. At(p) \in DOMAIN j /\ At(p) # n /\ j[At(p)] = id
      BY <2>2, <2>6, <2>8
    <3> QED
      BY <2>1, <2>8, <2>9, <3>1
  <2>10. \A p \in 1..(Len(j) - 1) : At(p) \in DOMAIN j /\ Settled(j, id)[p] = j[At(p)]
    BY <2>2, <2>6, <2>8
  <2>11. \A p, q \in DOMAIN Settled(j, id) :
           \E k, l \in DOMAIN j : /\ Settled(j, id)[p] = j[k] /\ Settled(j, id)[q] = j[l]
                                  /\ p < q <=> k < l
                                  /\ k = l <=> p = q
    <3> TAKE p, q \in DOMAIN Settled(j, id)
    <3>1. /\ At(p) \in DOMAIN j /\ Settled(j, id)[p] = j[At(p)]
          /\ At(q) \in DOMAIN j /\ Settled(j, id)[q] = j[At(q)]
      BY <2>8, <2>10
    <3>2. (p < q <=> At(p) < At(q)) /\ (At(p) = At(q) <=> p = q)
      BY <2>7, <2>8
    <3> QED
      BY <3>1, <3>2
  <2> QED
    BY <2>8, <2>9, <2>10, <2>11
<1> QED
  BY <1>1, <1>2

\* A message joins the line when it is admitted or has no entry.
Joins(m) == \/ kind'[m] # "text"
            \/ \E ok \in DiskResults : Admit(ok) /\ Head(chain).turn.id = m

\* A message comes into the line, or into the journal, once it has a turn.
LEMMA WaitsStep ==
  ASSUME IInv, BuildOK, [Next]_vars, NEW m \in Ids, Waits(m)'
  PROVE  \/ Waits(m)
         \/ IsEarly(m) /\ ~IsEarly(m)' /\ Joins(m)
         \/ LineReplays /\ m \in RangeOf(journal)
<1>1. PICK i \in DOMAIN Line' : Line'[i].id = m
  BY DEF Waits
<1>2. Line \in Seq(Turn) /\ journal \in Seq(Ids) /\ Replayed(journal) \in Seq(Turn)
  BY LineOfType, ReplayedType DEF IInv, TypeOK, Line, LineOf
<1>3. CASE LineShrinks
  <2>1. PICK s \in Nat : /\ Len(Line') + s <= Len(Line)
                         /\ \A k \in 1..Len(Line') : Line'[k] = Line[k + s]
    BY <1>3 DEF LineShrinks
  <2>2. TypeOK'
    BY TypeStep
  <2>3. Line' \in Seq(Turn)
    BY <2>2, LineOfType DEF TypeOK, Line, LineOf
  <2>4. i \in 1..Len(Line') /\ i + s \in DOMAIN Line
    BY <1>1, <1>2, <2>1, <2>3
  <2> QED
    BY <1>1, <2>1, <2>4 DEF Waits
<1>4. CASE LineGrows
  <2>1. PICK t \in Turn : /\ IsEarly(t.id) /\ ~IsEarly(t.id)' /\ Joins(t.id)
                         /\ Line' = Append(Line, t)
    BY <1>4 DEF LineGrows, Joins
  <2>2. i \in 1..(Len(Line) + 1) /\ Line'[Len(Line) + 1] = t
        /\ \A k \in 1..Len(Line) : Line'[k] = Line[k]
    BY <1>1, <1>2, <2>1
  <2>3. CASE i \in 1..Len(Line)
    BY <1>1, <1>2, <2>2, <2>3 DEF Waits
  <2>4. CASE i = Len(Line) + 1
    BY <1>1, <2>1, <2>2, <2>4
  <2> QED
    BY <1>2, <2>2, <2>3, <2>4
<1>5. CASE LineReplays
  <2> DEFINE r == Replayed(journal)
  <2>1. Line' = Line \o r /\ r \in Seq(Turn) /\ Len(r) = Len(journal)
        /\ \A k \in 1..Len(journal) : r[k].id = journal[k]
    BY <1>2, <1>5 DEF LineReplays, Replayed
  <2> HIDE DEF r
  <2>2. /\ i \in 1..(Len(Line) + Len(r))
        /\ \A k \in 1..Len(Line) : Line'[k] = Line[k]
    BY <1>1, <1>2, <2>1
  <2>3. CASE i \in 1..Len(Line)
    BY <1>1, <1>2, <2>2, <2>3 DEF Waits
  <2>4. CASE i \notin 1..Len(Line)
    <3>1. i - Len(Line) \in 1..Len(r) /\ Line'[i] = r[i - Len(Line)]
      BY <1>2, <2>1, <2>2, <2>4
    <3>2. i - Len(Line) \in DOMAIN journal /\ journal[i - Len(Line)] = m
      BY <1>1, <1>2, <2>1, <3>1
    <3> QED
      BY <1>5, <3>2 DEF RangeOf
  <2> QED
    BY <2>3, <2>4
<1> QED
  BY <1>3, <1>4, <1>5, LineStep

\* An entry of the journal was in it before, or its message has just been admitted.
LEMMA JournaledStep ==
  ASSUME IInv, [Next]_vars, NEW m \in Ids, m \in RangeOf(journal')
  PROVE  m \in RangeOf(journal) \/ (IsEarly(m) /\ ~IsEarly(m)')
<1>1. journal \in Seq(Ids) /\ pc \in [Ids -> DispatchPoints]
  BY DEF IInv, TypeOK
<1>2. CASE JournalAdmits
  <2>1. PICK t \in Turn : t = Head(chain).turn /\ t.id \in Ids /\ pc[t.id] = "admit"
    BY <1>2, HeadTurn DEF JournalAdmits, Admit
  <2>2. pc' = [pc EXCEPT ![t.id] = "typing"] /\ journal' = Append(journal, t.id)
    BY <1>2, <2>1 DEF JournalAdmits, Admit
  <2>3. IsEarly(t.id) /\ ~IsEarly(t.id)'
    BY <1>1, <2>1, <2>2 DEF IsEarly, Early
  <2>4. m \in RangeOf(journal) \/ m = t.id
    BY <1>1, <2>1, <2>2, RangeAppend
  <2> QED
    BY <2>3, <2>4
<1>3. CASE JournalSettles
  BY <1>1, <1>3, SettledOrder DEF JournalSettles, RangeOf
<1>4. CASE JournalEmpties
  BY <1>4 DEF JournalEmpties, RangeOf
<1> QED
  BY <1>2, <1>3, <1>4, JournalStep

-----------------------------------------------------------------------------
\* What holds of the turns for every value of the constants.
TurnInv == IInv /\ BuildOK /\ BornOK /\ OnceOK

\* The invariant holds at the start.
LEMMA TurnInit == Init => TurnInv
<1> SUFFICES ASSUME Init PROVE TurnInv
  OBVIOUS
<1>1. IInv
  BY InitInv
<1>2. BuildOK
  BY DEF Init, BuildOK
<1>3. Line = << >>
  BY DEF Init, Line
<1>4. BornOK
  BY <1>3 DEF Init, BornOK, Named, Waits, Works, RangeOf, Over
<1>5. OnceOK
  BY DEF Init, OnceOK
<1> QED
  BY <1>1, <1>2, <1>4, <1>5 DEF TurnInv

\* Only a media message comes to the point where it is built.
LEMMA BuildStep ==
  ASSUME IInv, BuildOK, [Next]_vars
  PROVE  BuildOK'
<1> USE DEF bridgeVars, dispatchVars, pumpVars, postVars, diskVars, piVars
<1> SUFFICES ASSUME NEW m \in Ids, pc'[m] = "build" PROVE kind'[m] = "media"
  BY DEF BuildOK
<1>1. /\ pc \in [Ids -> DispatchPoints] /\ kind \in [Ids -> AllKinds \cup {"none"}]
      /\ kind[m] = "none" => pc[m] = "none"
  BY DEF IInv, TypeOK, FoldOK, CallOK
<1>2. ASSUME UNCHANGED kind, NEW n \in Ids, NEW p, p # "build" \/ kind[n] = "media",
             pc' = [pc EXCEPT ![n] = p] \/ UNCHANGED pc
      PROVE  kind'[m] = "media"
  BY <1>1, <1>2 DEF BuildOK
<1>3. ASSUME NEW n \in Ids, NEW h, NEW q, SettleOrBuild(n, h, kind[n], q), UNCHANGED kind
      PROVE  kind'[m] = "media"
  BY <1>2, <1>3 DEF SettleOrBuild
<1>4. CASE DispatchStep
  <2>1. ASSUME NEW n \in Ids, Welcomed(n) PROVE kind'[m] = "media"
    BY <1>2, <1>3, <2>1 DEF Welcomed, Route
  <2>2. ASSUME NEW n \in Ids, SkipFolded(n) PROVE kind'[m] = "media"
    BY <1>3, <2>2 DEF SkipFolded
  <2>3. ASSUME NEW n \in Ids, NEW ok, Built(n, ok) PROVE kind'[m] = "media"
    BY <1>2, <2>3 DEF Built
  <2>4. ASSUME NEW n \in Ids, TypingDone(n) PROVE kind'[m] = "media"
    BY <1>2, <2>4 DEF TypingDone
  <2> QED
    BY <1>4, <2>1, <2>2, <2>3, <2>4 DEF DispatchStep
<1>5. CASE DiskStep
  <2>1. ASSUME NEW ok, Admit(ok) PROVE kind'[m] = "media"
    <3>1. Head(chain).turn.id \in Ids
      BY <2>1, HeadTurn DEF Admit
    <3> QED
      BY <1>2, <2>1, <3>1 DEF Admit
  <2>2. ASSUME NEW ok, SettleFolded(ok) PROVE kind'[m] = "media"
    <3>1. Head(chain).for \in Ids
      <4>1. Head(chain) \in RangeOf(chain) /\ Head(chain).op = "folded"
        BY <2>2, HeadType DEF SettleFolded
      <4> QED
        BY <4>1 DEF IInv, FoldOK, WaitOK
    <3> QED
      BY <1>3, <2>2, <3>1 DEF SettleFolded
  <2>3. ASSUME NEW ok, \/ SettleDropped(ok) \/ SettleAnswered(ok) \/ Replay(ok)
                       \/ Discard(ok) \/ Compact
        PROVE  UNCHANGED <<kind, pc>>
    BY <2>3 DEF SettleDropped, SettleAnswered, Replay, Discard, Compact
  <2> QED
    BY <1>5, <2>1, <2>2, <2>3 DEF DiskStep, BuildOK
<1>6. CASE Environment
  <2>1. ASSUME NEW n \in Ids, NEW k \in Kinds, Arrive(n, k) PROVE kind'[m] = "media"
    <3>1. kind[n] = "none" /\ kind' = [kind EXCEPT ![n] = k]
      BY <2>1 DEF Arrive
    <3>2. CASE m = n
      BY <1>1, <2>1, <3>1, <3>2 DEF Arrive, Route, SettleOrBuild
    <3>3. CASE m # n
      <4>1. pc'[m] = pc[m]
        BY <1>1, <2>1, <3>3 DEF Arrive, Route, SettleOrBuild
      <4> QED
        BY <1>1, <3>1, <3>3, <4>1 DEF BuildOK
    <3> QED
      BY <3>2, <3>3
  <2>2. ASSUME Crash PROVE pc'[m] # "build"
    BY <2>2 DEF Crash
  <2>3. ASSUME \/ TuiRun \/ Login \/ LoginFailed \/ StartFailed \/ Stop \/ Stopped
               \/ SessionExpired
        PROVE  UNCHANGED <<kind, pc>>
    BY <2>3 DEF TuiRun, Login, LoginFailed, StartFailed, Stop, Stopped, SessionExpired
  <2> QED
    BY <1>6, <2>1, <2>2, <2>3 DEF Environment, BuildOK
<1>7. CASE PumpStep \/ ReplyStep \/ PiStep \/ UNCHANGED vars
  <2>1. UNCHANGED <<kind, pc>>
    BY <1>7
       DEF PumpStep, ReplyStep, PiStep, Accepted, Refused, GiveUp, ReplySent,
           AttachmentsSent, ReplyFailed, AgentStart, AgentEnd, AgentSettled, vars
  <2> QED
    BY <2>1 DEF BuildOK
<1> QED
  BY <1>4, <1>5, <1>6, <1>7 DEF Next

\* A message the bridge gets to know has its turn.
LEMMA BornStep ==
  ASSUME TurnInv, [Next]_vars
  PROVE  BornOK'
<1> SUFFICES ASSUME NEW m \in Ids, IsEarly(m)', Named(m)' PROVE FALSE
  BY DEF BornOK
<1>1. IInv /\ BuildOK /\ IsEarly(m) /\ ~Named(m) /\ TypeOK
  BY EarlyStep DEF TurnInv, BornOK, IInv
<1>2. ~Waits(m)'
  BY <1>1, WaitsStep DEF Named
<1>3. ~Works(m)'
  <2> SUFFICES ASSUME NEW t \in Turn, t.id = m, pump'[t] > 0 \/ post'[t] # "none"
               PROVE  FALSE
    BY DEF Works
  <2>1. \/ pump[t] > 0 \/ post[t] # "none"
        \/ t \in RangeOf(pendingTurns) \/ t = activeTurn
    BY <1>1, WorksStep
  <2> QED
    BY <1>1, <2>1, LineHolds DEF Named, Works
<1>4. m \notin RangeOf(journal')
  BY <1>1, JournaledStep DEF Named
<1>5. fate'[m] \notin Over
  BY <1>1, FateStep DEF Named
<1> QED
  BY <1>2, <1>3, <1>4, <1>5 DEF Named, RangeOf, Waits, Works

\* A message is admitted once.
LEMMA OnceStep ==
  ASSUME TurnInv, [Next]_vars
  PROVE  OnceOK'
<1>1. IInv /\ OnceOK /\ BornOK /\ journal \in Seq(Ids)
  BY DEF TurnInv, IInv, TypeOK
<1>2. CASE UNCHANGED journal
  BY <1>1, <1>2 DEF OnceOK
<1>3. CASE JournalAdmits
  <2>1. PICK m \in Ids : m = Head(chain).turn.id /\ pc[m] = "admit"
    BY <1>1, <1>3, HeadTurn DEF JournalAdmits, Admit
  <2>2. journal' = Append(journal, m) /\ m \notin RangeOf(journal)
    BY <1>1, <1>3, <2>1 DEF JournalAdmits, BornOK, IsEarly, Early, Named
  <2>3. /\ DOMAIN journal' = 1..(Len(journal) + 1) /\ journal'[Len(journal) + 1] = m
        /\ \A i \in 1..Len(journal) : journal'[i] = journal[i] /\ journal[i] # m
    BY <1>1, <2>1, <2>2 DEF RangeOf
  <2> QED
    BY <1>1, <2>3 DEF OnceOK
<1>4. CASE JournalSettles
  BY <1>1, <1>4, SettledOrder DEF JournalSettles, OnceOK
<1>5. CASE JournalEmpties
  BY <1>5 DEF JournalEmpties, OnceOK
<1> QED
  BY <1>1, <1>2, <1>3, <1>4, <1>5, JournalStep

\* The invariant of BridgeProofs, step by step.
LEMMA IInvStep ==
  ASSUME IInv, [Next]_vars
  PROVE  IInv'
BY TypeStep, OverStep, FoldStep, LoginsStep DEF IInv

\* No step breaks the invariant.
LEMMA TurnStep ==
  ASSUME TurnInv, [Next]_vars
  PROVE  TurnInv'
BY IInvStep, BuildStep, BornStep, OnceStep DEF TurnInv

-----------------------------------------------------------------------------
(***************************************************************************)
(* One turn in flight.  Where the user neither disconnects nor starts a    *)
(* run at the terminal, only the active turn is pumped or in pi's run, and *)
(* it is pumped only while pi is idle.  A Disconnect while a run is under  *)
(* way, and a run of the user's own, each break this: see the README.      *)
(***************************************************************************)
Undisturbed == Disconnects = 0 /\ TuiRuns = 0

FlightOK ==
  /\ conn # "stopping"
  /\ \A t \in Turn : pump[t] > 0 => t = activeTurn /\ run = "idle"
  /\ inPi \subseteq {activeTurn}
  /\ (run = "idle") <=> (inPi = {})

\* Without disconnects there is none.
LEMMA NoDisconnect ==
  ASSUME TypeOK, Disconnects = 0
  PROVE  ~Stop
BY DEF TypeOK, Stop, Budgets

\* Without runs from the terminal there is none.
LEMMA NoTuiRun ==
  ASSUME TypeOK, TuiRuns = 0
  PROVE  ~TuiRun
BY DEF TypeOK, TuiRun, Budgets

\* The pump takes a turn only when none is active, pi being idle then.
LEMMA PumpFlight ==
  ASSUME TypeOK, FlightOK, PumpIfIdle(pendingTurns) \/ AdvanceQueue,
         UNCHANGED <<conn, run, inPi>>
  PROVE  FlightOK'
<1>1. CASE UNCHANGED <<activeTurn, pump>>
  BY <1>1 DEF FlightOK
<1>2. CASE activeTurn = NoTurn /\ PumpTurn(pendingTurns) /\ pendingTurns # << >>
  <2>1. /\ activeTurn' = Head(pendingTurns)
        /\ pump' = [pump EXCEPT ![Head(pendingTurns)] = 1]
    BY <1>2 DEF PumpTurn
  <2>2. \A t \in Turn : ~(pump[t] > 0)
    BY <1>2, NoTurnIsNone DEF FlightOK
  <2>3. inPi = {}
    BY <1>2, NoTurnIsNone DEF FlightOK, TypeOK
  <2>4. \A t \in Turn : pump'[t] > 0 => t = activeTurn'
    BY <2>1, <2>2 DEF TypeOK
  <2> QED
    BY <2>3, <2>4 DEF FlightOK
<1> QED
  BY <1>1, <1>2 DEF AdvanceQueue, PumpIfIdle, PumpTurn

\* An undisturbed step keeps the run and the active turn together.
LEMMA FlightStep ==
  ASSUME IInv, FlightOK, [Next]_vars, Undisturbed
  PROVE  FlightOK'
<1> USE DEF bridgeVars, dispatchVars, pumpVars, postVars, diskVars, piVars
<1>1. /\ TypeOK /\ ~Stop /\ ~TuiRun /\ pump \in [Turn -> 0..MAX_SEND_ATTEMPTS]
      /\ inPi \subseteq Turn
  BY NoDisconnect, NoTuiRun DEF IInv, TypeOK, Undisturbed
<1>2. ASSUME UNCHANGED <<conn, activeTurn, pump, run, inPi>> PROVE FlightOK'
  BY <1>2 DEF FlightOK
<1>3. ASSUME PumpIfIdle(pendingTurns) \/ AdvanceQueue, UNCHANGED <<conn, run, inPi>>
      PROVE  FlightOK'
  BY <1>1, <1>3, PumpFlight
<1>4. CASE UNCHANGED vars
  BY <1>2, <1>4 DEF vars
<1>5. CASE DispatchStep
  <2>1. ASSUME NEW m \in Ids, Welcomed(m) \/ SkipFolded(m) \/ \E ok \in BOOLEAN : Built(m, ok)
        PROVE  FlightOK'
    BY <1>2, <2>1 DEF Welcomed, SkipFolded, Built
  <2>2. ASSUME NEW m \in Ids, TypingDone(m) PROVE FlightOK'
    BY <1>3, <2>2 DEF TypingDone
  <2> QED
    BY <1>5, <2>1, <2>2 DEF DispatchStep
<1>6. CASE PumpStep
  <2>1. ASSUME NEW t \in Turn, Accepted(t) PROVE FlightOK'
    <3>1. t = activeTurn /\ run = "idle" /\ inPi = {}
      BY <2>1 DEF Accepted, FlightOK
    <3>2. /\ activeTurn' = t /\ run' = "starting" /\ inPi' = {t} /\ conn' = conn
          /\ pump' = [pump EXCEPT ![t] = 0]
      BY <2>1, <3>1 DEF Accepted
    <3>3. \A u \in Turn : ~(pump'[u] > 0)
      BY <1>1, <3>1, <3>2 DEF FlightOK
    <3> QED
      BY <3>2, <3>3 DEF FlightOK
  <2>2. ASSUME NEW t \in Turn, Refused(t) PROVE FlightOK'
    BY <1>1, <2>2 DEF Refused, FlightOK
  <2>3. ASSUME NEW t \in Turn, GiveUp(t) PROVE FlightOK'
    <3>1. t = activeTurn /\ run = "idle" /\ inPi = {}
      BY <2>3 DEF GiveUp, FlightOK
    <3>2. /\ run' = "idle" /\ inPi' = {} /\ conn' = conn
          /\ pump' = [pump EXCEPT ![t] = 0]
      BY <2>3, <3>1 DEF GiveUp
    <3>3. \A u \in Turn : ~(pump'[u] > 0)
      BY <1>1, <3>1, <3>2 DEF FlightOK
    <3> QED
      BY <3>2, <3>3 DEF FlightOK
  <2> QED
    BY <1>6, <2>1, <2>2, <2>3 DEF PumpStep
<1>7. CASE ReplyStep
  <2>1. PICK t \in Turn : ReplySent(t) \/ AttachmentsSent(t) \/ ReplyFailed(t)
    BY <1>7 DEF ReplyStep
  <2>2. /\ AdvanceQueue \/ UNCHANGED <<activeTurn, pump>>
        /\ UNCHANGED <<conn, run, inPi>>
    BY <2>1 DEF ReplySent, AttachmentsSent, ReplyFailed, Finish
  <2> QED
    BY <1>2, <1>3, <2>2
<1>8. CASE DiskStep
  <2>1. ASSUME NEW ok, \/ Admit(ok) \/ SettleFolded(ok) \/ SettleDropped(ok) \/ Replay(ok)
                       \/ Discard(ok)
        PROVE  FlightOK'
    BY <1>2, <2>1 DEF Admit, SettleFolded, SettleDropped, Replay, Discard
  <2>2. ASSUME NEW ok, SettleAnswered(ok) \/ Compact PROVE FlightOK'
    BY <1>3, <2>2 DEF SettleAnswered, Compact
  <2> QED
    BY <1>8, <2>1, <2>2 DEF DiskStep
<1>9. CASE PiStep
  <2>1. ASSUME AgentStart \/ \E o \in Outcomes : AgentEnd(o) PROVE FlightOK'
    BY <2>1 DEF AgentStart, AgentEnd, FlightOK
  <2>2. ASSUME AgentSettled PROVE FlightOK'
    <3>1. \A t \in Turn : ~(pump[t] > 0)
      BY <2>2 DEF AgentSettled, FlightOK
    <3> QED
      BY <2>2, <3>1 DEF AgentSettled, FlightOK
  <2> QED
    BY <1>9, <2>1, <2>2 DEF PiStep
<1>10. CASE Environment
  <2>1. ASSUME NEW m \in Ids, NEW k \in Kinds, Arrive(m, k) PROVE FlightOK'
    BY <1>2, <2>1 DEF Arrive
  <2>2. ASSUME Login \/ LoginFailed \/ StartFailed \/ SessionExpired PROVE FlightOK'
    BY <2>2 DEF Login, LoginFailed, StartFailed, SessionExpired, FlightOK
  <2>3. ~Stopped
    BY DEF Stopped, FlightOK
  <2>4. ASSUME Crash PROVE FlightOK'
    BY <2>4 DEF Crash, FlightOK
  <2> QED
    BY <1>1, <1>10, <2>1, <2>2, <2>3, <2>4 DEF Environment
<1> QED
  BY <1>4, <1>5, <1>6, <1>7, <1>8, <1>9, <1>10 DEF Next

\* At the start nothing runs.
LEMMA FlightInit == Init => FlightOK
BY DEF Init, FlightOK

\* The turn in pi's run is the active turn, so the reply answers the message
\* the run was about; as long as nobody disconnects the bridge and nobody
\* uses the terminal.
THEOREM RunIsAboutActiveTurn ==
  ASSUME Disconnects = 0, TuiRuns = 0
  PROVE  Spec => []InFlightIsActive
<1>1. IInv /\ FlightOK /\ [Next]_vars => (IInv /\ FlightOK)'
  BY IInvStep, FlightStep DEF Undisturbed
<1>2. FlightOK => InFlightIsActive
  BY DEF FlightOK, InFlightIsActive
<1> QED
  BY InitInv, FlightInit, <1>1, <1>2, PTL DEF Spec

-----------------------------------------------------------------------------
(***************************************************************************)
(* Nothing admitted is forgotten.  Once the replay that follows a login is *)
(* done, the bridge cares for every journaled message whose lifecycle goes *)
(* on: its turn is in the line, or its reply is under way.                 *)
(***************************************************************************)
Replies(m) == \E t \in Turn : t.id = m /\ post[t] \in {"text", "files"}
Cared(m) == Waits(m) \/ Replies(m)
Replaying == \E o \in RangeOf(chain) : o.op = "replay"
CaredOK ==
  conn = "up" /\ ~Replaying =>
    \A m \in Ids : m \in RangeOf(journal) /\ fate[m] = "live" => Cared(m)

\* Reading the journal after a login works, and pi refuses no prompt or the
\* user leaves the bridge alone: without the first a journaled turn waits for
\* the login after this one, without the second a give-up may hit a turn that
\* took the place of the refused one.
Reliable == FALSE \notin DiskResults /\ (SendFailures = 0 \/ Undisturbed)

\* Who waits: the active turn or a queued one.
LEMMA WaitsIs ==
  ASSUME TypeOK, NEW m \in Ids
  PROVE  Waits(m) => \/ activeTurn \in Turn /\ activeTurn.id = m
                     \/ m \in IdsOf(pendingTurns)
<1> SUFFICES ASSUME NEW i \in DOMAIN Line, Line[i].id = m
             PROVE  \/ activeTurn \in Turn /\ activeTurn.id = m
                    \/ m \in IdsOf(pendingTurns)
  BY DEF Waits
<1>1. pendingTurns \in Seq(Turn) /\ activeTurn \in Turn \cup {NoTurn}
  BY DEF TypeOK
<1>2. CASE activeTurn = NoTurn
  BY <1>1, <1>2 DEF Line, IdsOf
<1>3. CASE activeTurn # NoTurn
  <2>1. Line = LineOf(activeTurn, pendingTurns)
    BY <1>3 DEF Line, LineOf
  <2>2. /\ Line \in Seq(Turn) /\ Len(Line) = Len(pendingTurns) + 1
        /\ Line[1] = activeTurn
        /\ \A k \in 1..Len(pendingTurns) : Line[k + 1] = pendingTurns[k]
    BY <1>1, <1>3, <2>1, LineOfType
  <2>3. CASE i = 1
    BY <1>1, <1>3, <2>2, <2>3
  <2>4. CASE i # 1
    <3>1. i - 1 \in 1..Len(pendingTurns)
      BY <1>1, <2>2, <2>4
    <3>2. Line[(i - 1) + 1] = pendingTurns[i - 1] /\ (i - 1) + 1 = i
      BY <1>1, <2>2, <3>1
    <3>3. i - 1 \in DOMAIN pendingTurns /\ pendingTurns[i - 1].id = m
      BY <1>1, <3>1, <3>2
    <3> QED
      BY <3>3 DEF IdsOf
  <2> QED
    BY <2>3, <2>4
<1> QED
  BY <1>1, <1>2, <1>3

\* Who waits goes on waiting when the line stays or grows.
LEMMA WaitsOn ==
  ASSUME TypeOK, NEW m \in Ids, Waits(m),
         \/ Line' = Line
         \/ \E t \in Turn : pendingTurns' = Append(pendingTurns, t) /\ UNCHANGED activeTurn
  PROVE  Waits(m)'
<1>1. Line \in Seq(Turn)
  BY LineOfType DEF TypeOK, Line, LineOf
<1>2. PICK i \in DOMAIN Line : Line[i].id = m
  BY DEF Waits
<1>3. Line' = Line \/ \E t \in Turn : Line' = Append(Line, t)
  BY OneJoins
<1>4. i \in DOMAIN Line' /\ Line'[i].id = m
  BY <1>1, <1>2, <1>3
<1> QED
  BY <1>4 DEF Waits

\* Only a replay brings a message back to life.
LEMMA LiveStep ==
  ASSUME IInv, [Next]_vars, NEW m \in Ids, fate'[m] = "live",
         \A ok \in DiskResults : ~Replay(ok)
  PROVE  fate[m] = "live"
<1> USE DEF bridgeVars, dispatchVars, pumpVars, postVars, diskVars, piVars
<1>1. ASSUME NEW S, NEW f, f # "live", fate' = Fate(S, f) PROVE fate[m] = "live"
  BY <1>1 DEF Fate
<1>2. ASSUME NEW n, NEW k, Route(n, k) PROVE fate[m] = "live"
  BY <1>1, <1>2 DEF Route
<1>3. CASE DispatchStep
  BY <1>1, <1>2, <1>3 DEF DispatchStep, Welcomed, SkipFolded, Built, TypingDone
<1>4. CASE PumpStep
  BY <1>1, <1>4 DEF PumpStep, Accepted, Refused, GiveUp
<1>5. CASE ReplyStep
  <2>1. ASSUME NEW t \in Turn, ReplySent(t) PROVE fate[m] = "live"
    BY <1>1, <2>1 DEF ReplySent, Finish
  <2>2. ASSUME NEW t \in Turn, AttachmentsSent(t) PROVE fate[m] = "live"
    BY <1>1, <2>2 DEF AttachmentsSent, Finish
  <2>3. ASSUME NEW t \in Turn, ReplyFailed(t) PROVE fate[m] = "live"
    BY <1>1, <2>3 DEF ReplyFailed, Finish
  <2> QED
    BY <1>5, <2>1, <2>2, <2>3 DEF ReplyStep
<1>6. CASE DiskStep
  BY <1>6 DEF DiskStep, Admit, SettleFolded, SettleDropped, SettleAnswered, Discard, Compact
<1>7. CASE PiStep
  BY <1>1, <1>7 DEF PiStep, AgentStart, AgentEnd, AgentSettled
<1>8. CASE Environment
  BY <1>2, <1>8
     DEF Environment, Arrive, TuiRun, Login, LoginFailed, StartFailed, Stop, Stopped,
         SessionExpired, Crash
<1> QED
  BY <1>3, <1>4, <1>5, <1>6, <1>7, <1>8 DEF Next, vars

\* What a step leaves of the chain before it adds to it: all, or all but the
\* operation that ends: a replay in a step of Replay, a discarding in one of Discard.
ChainRest(q) ==
  \/ q = chain
  \/ /\ chain # << >> /\ q = Tail(chain)
     /\ Head(chain).op = "replay" => \E ok \in DiskResults : Replay(ok)
     /\ Head(chain).op = "discard" => \E ok \in DiskResults : Discard(ok)

\* Only Login adds a replay to the chain, and only SessionExpired a discarding.
ChainStays == \E q \in Seq(ChainOp) :
  /\ ChainRest(q)
  /\ \/ chain' = q
     \/ \E o \in ChainOp : /\ chain' = Append(q, o)
                           /\ o.op # "replay" /\ (o.op = "discard" => SessionExpired)

\* A step appends to the chain and takes its head, no more.
LEMMA ChainStep ==
  ASSUME IInv, [Next]_vars, ~Login, ~Crash
  PROVE  ChainStays
<1> USE DEF bridgeVars, dispatchVars, pumpVars, postVars, diskVars, piVars
<1>1. chain \in Seq(ChainOp) /\ 0 \in 0..Messages
  BY BridgeAssumption DEF IInv, TypeOK
<1>2. ASSUME chain' = chain \/ \E o \in ChainOp : /\ chain' = Append(chain, o)
                                                  /\ o.op \notin {"replay", "discard"}
      PROVE  ChainStays
  BY <1>1, <1>2 DEF ChainStays, ChainRest
<1>3. ASSUME NEW op, op \notin {"replay", "discard"}, HeadIs(op),
             chain' = Tail(chain) \/ \E o \in ChainOp : /\ chain' = Append(Tail(chain), o)
                                                        /\ o.op \notin {"replay", "discard"}
      PROVE  ChainStays
  <2>1. /\ chain # << >> /\ Tail(chain) \in Seq(ChainOp)
        /\ Head(chain).op \notin {"replay", "discard"}
    BY <1>3, HeadType
  <2> QED
    BY <1>3, <2>1 DEF ChainStays, ChainRest
<1>4. ASSUME NEW m \in Ids, NEW h \in Seq(Turn), NEW k, NEW q, SettleOrBuild(m, h, k, q)
      PROVE  chain' = q \/ \E o \in ChainOp : /\ chain' = Append(q, o)
                                              /\ o.op \notin {"replay", "discard"}
  <2>1. New(m) \in Turn /\ m \in 0..Messages
    BY NewType
  <2>2. CASE h # << >> /\ chain' = Append(q, Op("folded", Head(h), m))
    <3>1. Head(h) \in Turn
      BY <2>2
    <3>2. Op("folded", Head(h), m) \in ChainOp /\ Op("folded", Head(h), m).op = "folded"
      BY <2>1, <3>1, OpType DEF JournalOps, Op
    <3> QED
      BY <2>2, <3>2
  <2>3. CASE chain' = Append(q, Op("admit", New(m), 0))
    <3>1. Op("admit", New(m), 0) \in ChainOp /\ Op("admit", New(m), 0).op = "admit"
      BY <1>1, <2>1, OpType DEF JournalOps, Op
    <3> QED
      BY <2>3, <3>1
  <2> QED
    BY <1>4, <2>2, <2>3 DEF SettleOrBuild
<1>5. ASSUME NEW m \in Ids, NEW k \in AllKinds, Route(m, k) PROVE ChainStays
  <2>1. CASE UNCHANGED chain
    BY <1>2, <2>1
  <2>2. CASE SettleOrBuild(m, IF preserve THEN pendingTurns ELSE << >>, k, chain)
    <3>1. (IF preserve THEN pendingTurns ELSE << >>) \in Seq(Turn)
      BY DEF IInv, TypeOK
    <3> QED
      BY <1>2, <1>4, <2>2, <3>1
  <2> QED
    BY <1>5, <2>1, <2>2 DEF Route, AllKinds
<1>6. CASE DispatchStep
  <2>1. ASSUME NEW m \in Ids, Welcomed(m) PROVE ChainStays
    <3>1. kind[m] \in AllKinds /\ Route(m, kind[m])
      BY <2>1 DEF Welcomed, IInv, FoldOK, CallOK, TypeOK
    <3> QED
      BY <1>5, <3>1
  <2>2. ASSUME NEW m \in Ids, SkipFolded(m) PROVE ChainStays
    <3>1. Tail(hist[m]) \in Seq(Turn)
      BY <2>2 DEF SkipFolded, IInv, FoldOK, CallOK, TypeOK
    <3> QED
      BY <1>2, <1>4, <2>2, <3>1 DEF SkipFolded
  <2>3. ASSUME NEW m \in Ids, TypingDone(m) \/ \E ok \in BOOLEAN : Built(m, ok)
        PROVE  ChainStays
    BY <1>2, <2>3 DEF TypingDone, Built
  <2> QED
    BY <1>6, <2>1, <2>2, <2>3 DEF DispatchStep
<1>7. CASE PumpStep \/ ReplyStep
  <2>1. PICK t \in Turn : \/ Accepted(t) \/ Refused(t) \/ GiveUp(t)
                          \/ ReplySent(t) \/ AttachmentsSent(t) \/ ReplyFailed(t)
    BY <1>7 DEF PumpStep, ReplyStep
  <2>2. /\ Op("dropped", t, 0) \in ChainOp /\ Op("dropped", t, 0).op = "dropped"
        /\ Op("settled", t, 0) \in ChainOp /\ Op("settled", t, 0).op = "settled"
    BY <1>1, OpType DEF JournalOps, Op
  <2>3. \/ UNCHANGED chain
        \/ chain' = Append(chain, Op("dropped", t, 0))
        \/ chain' = Append(chain, Op("settled", t, 0))
    BY <2>1 DEF Accepted, Refused, GiveUp, ReplySent, AttachmentsSent, ReplyFailed, Finish
  <2> QED
    BY <1>2, <2>2, <2>3
<1>8. CASE DiskStep
  <2>1. ASSUME NEW ok, SettleFolded(ok) PROVE ChainStays
    <3>1. PICK m \in Ids : m = Head(chain).for /\ pc[m] = "fold"
      <4>1. Head(chain) \in RangeOf(chain) /\ Head(chain).op = "folded"
        BY <2>1, HeadType DEF SettleFolded
      <4> QED
        BY <4>1 DEF IInv, FoldOK, WaitOK
    <3>2. Tail(hist[m]) \in Seq(Turn)
      BY <3>1 DEF IInv, FoldOK, CallOK, TypeOK
    <3>3. SettleOrBuild(m, Tail(hist[m]), kind[m], Tail(chain)) /\ HeadIs("folded")
      BY <2>1, <3>1 DEF SettleFolded
    <3> QED
      BY <1>3, <1>4, <3>2, <3>3
  <2>2. ASSUME NEW ok, Admit(ok) \/ SettleDropped(ok) \/ SettleAnswered(ok) \/ Compact
        PROVE  ChainStays
    <3>1. \E op : op \notin {"replay", "discard"} /\ HeadIs(op) /\ chain' = Tail(chain)
      BY <2>2 DEF Admit, SettleDropped, SettleAnswered, Compact
    <3> QED
      BY <1>3, <3>1
  <2>3. ASSUME NEW ok \in DiskResults, Replay(ok) PROVE ChainStays
    <3>1. /\ Tail(chain) \in Seq(ChainOp) /\ chain # << >>
          /\ chain' = Append(Tail(chain), Op("compact", NoTurn, 0))
      BY <2>3, HeadType DEF Replay
    <3>2. Op("compact", NoTurn, 0) \in ChainOp /\ Op("compact", NoTurn, 0).op = "compact"
      BY <1>1, OpType DEF JournalOps, Op
    <3>3. Head(chain).op # "discard"
      BY <2>3 DEF Replay, HeadIs
    <3> QED
      BY <2>3, <3>1, <3>2, <3>3 DEF ChainStays, ChainRest
  <2>4. ASSUME NEW ok \in DiskResults, Discard(ok) PROVE ChainStays
    <3>1. /\ Tail(chain) \in Seq(ChainOp) /\ chain # << >> /\ chain' = Tail(chain)
          /\ Head(chain).op # "replay"
      BY <2>4, HeadType DEF Discard, HeadIs
    <3> QED
      BY <2>4, <3>1 DEF ChainStays, ChainRest
  <2> QED
    BY <1>8, <2>1, <2>2, <2>3, <2>4 DEF DiskStep
<1>9. CASE PiStep \/ UNCHANGED vars
  BY <1>2, <1>9 DEF PiStep, AgentStart, AgentEnd, AgentSettled, vars
<1>10. CASE Environment
  <2>1. ASSUME NEW m \in Ids, NEW k \in Kinds, Arrive(m, k) PROVE ChainStays
    BY <1>2, <1>5, <2>1, BridgeAssumption DEF Arrive
  <2>2. ASSUME SessionExpired PROVE ChainStays
    <3>1. Op("discard", NoTurn, 0) \in ChainOp /\ Op("discard", NoTurn, 0).op = "discard"
      BY <1>1, OpType DEF JournalOps, Op
    <3>2. chain' = Append(chain, Op("discard", NoTurn, 0))
      BY <2>2 DEF SessionExpired
    <3> QED
      BY <1>1, <2>2, <3>1, <3>2 DEF ChainStays, ChainRest
  <2>3. ASSUME TuiRun \/ LoginFailed \/ StartFailed \/ Stop \/ Stopped PROVE ChainStays
    BY <1>2, <2>3 DEF TuiRun, LoginFailed, StartFailed, Stop, Stopped
  <2> QED
    BY <1>10, <2>1, <2>2, <2>3 DEF Environment
<1> QED
  BY <1>6, <1>7, <1>8, <1>9, <1>10 DEF Next

\* The bridge gets connected by a login only.
LEMMA ConnStep ==
  ASSUME [Next]_vars, conn' # conn
  PROVE  Login \/ LoginFailed \/ StartFailed \/ Stop \/ Stopped \/ Crash
<1> USE DEF bridgeVars, dispatchVars, pumpVars, postVars, diskVars, piVars
<1>1. CASE DispatchStep \/ PumpStep \/ ReplyStep \/ PiStep
  BY <1>1
     DEF DispatchStep, PumpStep, ReplyStep, PiStep, Welcomed, SkipFolded, Built,
         TypingDone, Accepted, Refused, GiveUp, ReplySent, AttachmentsSent,
         ReplyFailed, AgentStart, AgentEnd, AgentSettled
<1>2. CASE DiskStep
  BY <1>2
     DEF DiskStep, Admit, SettleFolded, SettleDropped, SettleAnswered, Replay, Discard,
         Compact
<1>3. CASE Environment
  BY <1>3 DEF Environment, Arrive, TuiRun, SessionExpired
<1> QED
  BY <1>1, <1>2, <1>3 DEF Next, vars

\* A replay asked for stays in the chain until it is done or the process dies.
LEMMA ReplayingStep ==
  ASSUME IInv, [Next]_vars, conn' = "up", ~Replaying',
         \A ok \in DiskResults : ~Replay(ok)
  PROVE  conn = "up" /\ ~Replaying
<1>1. chain \in Seq(ChainOp) /\ 0 \in 0..Messages
  BY BridgeAssumption DEF IInv, TypeOK
<1>2. ~Crash
  BY DEF Crash
<1>3. ~Login
  <2> SUFFICES ASSUME Login PROVE FALSE
    OBVIOUS
  <2>1. Op("replay", NoTurn, 0) \in ChainOp /\ Op("replay", NoTurn, 0).op = "replay"
    BY <1>1, OpType DEF JournalOps, Op
  <2>2. Op("replay", NoTurn, 0) \in RangeOf(chain')
    BY <1>1, <2>1, RangeAppended DEF Login
  <2> QED
    BY <2>1, <2>2 DEF Replaying
<1>4. conn = "up"
  BY <1>2, <1>3, ConnStep DEF LoginFailed, StartFailed, Stop, Stopped
<1>5. PICK q \in Seq(ChainOp) : /\ ChainRest(q)
                                /\ chain' = q \/ \E o \in ChainOp : chain' = Append(q, o)
  BY <1>2, <1>3, ChainStep DEF ChainStays
<1>6. RangeOf(q) \subseteq RangeOf(chain')
  <2>1. CASE chain' = q
    BY <2>1
  <2>2. ASSUME NEW o \in ChainOp, chain' = Append(q, o)
        PROVE  RangeOf(chain') = RangeOf(q) \cup {o}
    BY <2>2, RangeAppended
  <2> QED
    BY <1>5, <2>1, <2>2
<1>7. ASSUME NEW i \in DOMAIN chain, chain[i].op = "replay" PROVE chain[i] \in RangeOf(q)
  <2>1. CASE q = chain
    BY <2>1 DEF RangeOf
  <2>2. CASE q # chain
    <3>1. chain # << >> /\ q = Tail(chain) /\ Head(chain).op # "replay"
      <4>1. ChainRest(q)
        BY <1>5
      <4> QED
        BY <2>2, <4>1, Zenon DEF ChainRest
    <3>2. i # 1 /\ i \in 1..Len(chain)
      BY <1>1, <1>7, <3>1
    <3>3. i - 1 \in DOMAIN Tail(chain) /\ Tail(chain)[i - 1] = chain[(i - 1) + 1]
      BY <1>1, <3>1, <3>2
    <3>4. (i - 1) + 1 = i
      BY <3>2
    <3> QED
      BY <3>1, <3>3, <3>4 DEF RangeOf
  <2> QED
    BY <2>1, <2>2
<1>8. ~Replaying
  <2> SUFFICES ASSUME NEW o \in RangeOf(chain), o.op = "replay" PROVE FALSE
    BY DEF Replaying
  <2>1. o \in RangeOf(chain')
    BY <1>6, <1>7 DEF RangeOf
  <2> QED
    BY <2>1 DEF Replaying
<1> QED
  BY <1>4, <1>8

\* What the bridge cares for it goes on caring for, while its connection and
\* the message's lifecycle go on.
LEMMA CaredKept ==
  ASSUME IInv, BuildOK, [Next]_vars, Reliable, Undisturbed => FlightOK,
         NEW m \in Ids, Cared(m), fate[m] = "live", fate'[m] = "live",
         conn = "up", conn' = "up", \A ok \in DiskResults : ~Replay(ok)
  PROVE  Cared(m)'
<1> USE DEF bridgeVars, dispatchVars, pumpVars, postVars, diskVars, piVars
<1>1. /\ TypeOK /\ post \in [Turn -> ReplyPoints] /\ pendingTurns \in Seq(Turn)
      /\ activeTurn \in Turn \cup {NoTurn} /\ fate \in [Ids -> Fates]
  BY DEF IInv, TypeOK, Fates
<1>2. ASSUME UNCHANGED post PROVE Replies(m) => Cared(m)'
  BY <1>2 DEF Replies, Cared
<1>3. ASSUME Line' = Line PROVE Waits(m) => Cared(m)'
  BY <1>1, <1>3, WaitsOn DEF Cared
<1>4. ASSUME NEW n \in Ids, pendingTurns' = Append(pendingTurns, New(n)), UNCHANGED activeTurn
      PROVE  Waits(m) => Cared(m)'
  BY <1>1, <1>4, NewType, WaitsOn DEF Cared
<1>5. ASSUME UNCHANGED <<activeTurn, pendingTurns, post>> PROVE Cared(m)'
  BY <1>2, <1>3, <1>5 DEF Cared, Line
<1>6. ASSUME NEW n \in Ids, NEW k \in AllKinds, Route(n, k), UNCHANGED <<activeTurn, post>>
      PROVE  Cared(m)'
  <2>1. CASE k \in {"stop", "skill"}
    BY <1>2, <1>4, <1>5, <1>6, <2>1 DEF Route, Cared
  <2>2. CASE k \in {"text", "media"} /\ ~preserve
    BY <1>5, <1>6, <2>2 DEF Route
  <2>3. CASE k \in {"text", "media"} /\ preserve
    <3>1. pendingTurns' = << >> /\ fate' = Fate(IdsOf(pendingTurns), "folded")
      BY <1>6, <2>3 DEF Route
    <3>2. m \notin IdsOf(pendingTurns)
      BY <3>1 DEF Fate, Over
    <3>3. CASE Waits(m)
      <4>1. activeTurn \in Turn /\ activeTurn.id = m /\ activeTurn # NoTurn
        BY <1>1, <3>2, <3>3, WaitsIs, NoTurnIsNone
      <4>2. activeTurn' = activeTurn
        BY <1>6
      <4>3. Line' = <<activeTurn>> \o << >>
        BY <3>1, <4>1, <4>2 DEF Line
      <4>4. 1 \in DOMAIN Line' /\ Line'[1] = activeTurn
        BY <4>1, <4>3
      <4> QED
        BY <4>1, <4>4 DEF Cared, Waits
    <3> QED
      BY <1>2, <1>6, <3>3 DEF Cared
  <2> QED
    BY <2>1, <2>2, <2>3 DEF AllKinds
<1>7. CASE UNCHANGED vars
  BY <1>5, <1>7 DEF vars
<1>8. CASE DispatchStep
  <2>1. ASSUME NEW n \in Ids, Welcomed(n) PROVE Cared(m)'
    <3>1. kind[n] \in AllKinds /\ Route(n, kind[n])
      BY <2>1 DEF Welcomed, IInv, FoldOK, CallOK, TypeOK
    <3> QED
      BY <1>6, <2>1, <3>1 DEF Welcomed
  <2>2. ASSUME NEW n \in Ids, SkipFolded(n) PROVE Cared(m)'
    BY <1>5, <2>2 DEF SkipFolded
  <2>3. ASSUME NEW n \in Ids, NEW ok, Built(n, ok) PROVE Cared(m)'
    BY <1>2, <1>4, <1>5, <2>3 DEF Built, Cared
  <2>4. ASSUME NEW n \in Ids, TypingDone(n) PROVE Cared(m)'
    BY <1>1, <1>2, <1>3, <2>4, PumpKeepsLine DEF TypingDone, Cared
  <2> QED
    BY <1>8, <2>1, <2>2, <2>3, <2>4 DEF DispatchStep
<1>9. CASE PumpStep
  <2>1. ASSUME NEW t \in Turn, Accepted(t) \/ Refused(t) PROVE Cared(m)'
    BY <1>5, <2>1 DEF Accepted, Refused
  <2>2. ASSUME NEW t \in Turn, GiveUp(t) PROVE Cared(m)'
    <3>1. SendFailures # 0
      BY <1>1, <2>2 DEF GiveUp, TypeOK, Budgets
    <3>2. t = activeTurn
      BY <2>2, <3>1 DEF Reliable, FlightOK, GiveUp
    <3>3. fate' = Fate({t.id}, "dropped") /\ pendingTurns' = pendingTurns
          /\ activeTurn' = NoTurn /\ post' = post
      BY <2>2 DEF GiveUp
    <3>4. t.id # m
      BY <3>3 DEF Fate, Over
    <3>5. CASE Waits(m)
      <4>1. m \in IdsOf(pendingTurns)
        BY <1>1, <3>2, <3>4, <3>5, WaitsIs
      <4>2. Line' = pendingTurns
        BY <3>3 DEF Line
      <4> QED
        BY <4>1, <4>2 DEF Cared, Waits, IdsOf
    <3> QED
      BY <1>2, <3>3, <3>5 DEF Cared
  <2> QED
    BY <1>9, <2>1, <2>2 DEF PumpStep
<1>10. CASE ReplyStep
  <2>1. PICK t \in Turn : ReplySent(t) \/ AttachmentsSent(t) \/ ReplyFailed(t)
    BY <1>10 DEF ReplyStep
  <2>2. /\ AdvanceQueue \/ UNCHANGED <<activeTurn, pendingTurns>>
        /\ \E p : post' = [post EXCEPT ![t] = p]
    BY <2>1 DEF ReplySent, AttachmentsSent, ReplyFailed, Finish
  <2>3. CASE Waits(m)
    BY <1>1, <1>3, <2>2, <2>3, AdvanceKeepsLine DEF Line
  <2>4. CASE \E u \in Turn : u # t /\ u.id = m /\ post[u] \in {"text", "files"}
    BY <1>1, <2>2, <2>4 DEF Cared, Replies
  <2>5. CASE t.id = m
    <3>1. CASE \E f : fate' = Fate({t.id}, f) /\ f # "live"
      BY <2>5, <3>1 DEF Fate, Over
    <3>2. CASE post' = [post EXCEPT ![t] = "files"]
      BY <1>1, <2>5, <3>2 DEF Cared, Replies
    <3> QED
      <4>1. ASSUME ReplySent(t)
            PROVE  \/ post' = [post EXCEPT ![t] = "files"]
                   \/ \E f : fate' = Fate({t.id}, f) /\ f # "live"
        BY <4>1 DEF ReplySent, Finish
      <4>2. ASSUME AttachmentsSent(t) \/ ReplyFailed(t)
            PROVE  \E f : fate' = Fate({t.id}, f) /\ f # "live"
        BY <4>2 DEF AttachmentsSent, ReplyFailed, Finish
      <4> QED
        BY <2>1, <3>1, <3>2, <4>1, <4>2
  <2> QED
    BY <2>3, <2>4, <2>5 DEF Cared, Replies
<1>11. CASE DiskStep
  <2>1. ASSUME NEW ok \in DiskResults, Admit(ok) PROVE Cared(m)'
    <3>1. Head(chain).turn \in Turn
      BY <2>1, HeadTurn DEF Admit
    <3>2. Waits(m) => Waits(m)'
      BY <1>1, <2>1, <3>1, WaitsOn DEF Admit
    <3> QED
      BY <1>2, <2>1, <3>2 DEF Admit, Cared
  <2>2. ASSUME NEW ok, SettleFolded(ok) \/ SettleDropped(ok) \/ Discard(ok) PROVE Cared(m)'
    BY <1>5, <2>2 DEF SettleFolded, SettleDropped, Discard
  <2>3. ASSUME NEW ok, SettleAnswered(ok) PROVE Cared(m)'
    <3>1. Head(chain).turn \in Turn /\ fate[Head(chain).turn.id] \in Over
      BY <2>3, HeadTurn DEF SettleAnswered, SettleOps
    <3>2. Head(chain).turn.id # m
      BY <3>1 DEF Over
    <3>3. post' = [post EXCEPT ![Head(chain).turn] = "none"] /\ AdvanceQueue
      BY <2>3 DEF SettleAnswered
    <3>4. Waits(m) => Cared(m)'
      BY <1>1, <1>3, <3>3, AdvanceKeepsLine
    <3>5. Replies(m) => Cared(m)'
      BY <1>1, <3>2, <3>3 DEF Replies, Cared
    <3> QED
      BY <3>4, <3>5 DEF Cared
  <2>4. ASSUME Compact PROVE Cared(m)'
    BY <1>1, <1>2, <1>3, <2>4, PumpKeepsLine DEF Compact, Cared
  <2> QED
    BY <1>11, <2>1, <2>2, <2>3, <2>4 DEF DiskStep
<1>12. CASE PiStep
  <2>1. ASSUME AgentStart \/ \E o \in Outcomes : AgentEnd(o) PROVE Cared(m)'
    BY <1>5, <2>1 DEF AgentStart, AgentEnd
  <2>2. ASSUME AgentSettled PROVE Cared(m)'
    <3>1. CASE activeTurn = NoTurn
      BY <1>5, <2>2, <3>1 DEF AgentSettled
    <3>2. CASE activeTurn # NoTurn
      <4>1. /\ activeTurn \in Turn /\ post' = [post EXCEPT ![activeTurn] = "text"]
            /\ activeTurn' = NoTurn /\ pendingTurns' = pendingTurns
        BY <1>1, <2>2, <3>2 DEF AgentSettled, Connected
      <4>2. Replies(m) => Replies(m)'
        BY <1>1, <4>1 DEF Replies
      <4>3. activeTurn.id = m => Replies(m)'
        BY <1>1, <4>1 DEF Replies
      <4>4. m \in IdsOf(pendingTurns) => Waits(m)'
        <5>1. Line' = pendingTurns
          BY <4>1 DEF Line
        <5> QED
          BY <5>1 DEF Waits, IdsOf
      <4> QED
        BY <1>1, <4>2, <4>3, <4>4, WaitsIs DEF Cared
    <3> QED
      BY <3>1, <3>2
  <2> QED
    BY <1>12, <2>1, <2>2 DEF PiStep
<1>13. CASE Environment
  <2>1. ASSUME NEW n \in Ids, NEW k \in Kinds, Arrive(n, k) PROVE Cared(m)'
    <3>1. k \in AllKinds /\ UNCHANGED <<activeTurn, post>>
          /\ (UNCHANGED pendingTurns \/ Route(n, k))
      BY <2>1, BridgeAssumption DEF Arrive
    <3> QED
      BY <1>5, <1>6, <3>1
  <2>2. ASSUME TuiRun \/ Login \/ SessionExpired PROVE Cared(m)'
    BY <1>5, <2>2 DEF TuiRun, Login, SessionExpired
  <2>3. ~(LoginFailed \/ StartFailed \/ Stop \/ Stopped \/ Crash)
    BY DEF LoginFailed, StartFailed, Stop, Stopped, Crash
  <2> QED
    BY <1>13, <2>1, <2>2, <2>3 DEF Environment
<1> QED
  BY <1>7, <1>8, <1>9, <1>10, <1>11, <1>12, <1>13 DEF Next

\* A replay that works puts every journaled message into the line.
LEMMA ReplayCares ==
  ASSUME IInv, Replay(TRUE), NEW m \in Ids, m \in RangeOf(journal')
  PROVE  Cared(m)'
<1>1. /\ pendingTurns' = pendingTurns \o Replayed(journal)
      /\ UNCHANGED <<activeTurn, journal>>
  BY DEF Replay
<1>2. TypeOK /\ journal \in Seq(Ids) /\ Line \in Seq(Turn) /\ Replayed(journal) \in Seq(Turn)
  BY LineOfType, ReplayedType DEF IInv, TypeOK, Line, LineOf
<1>3. Line' = Line \o Replayed(journal)
  BY <1>1, <1>2, QueuedJoin
<1>4. PICK i \in 1..Len(journal) : journal[i] = m
  BY <1>1, <1>2 DEF RangeOf
<1>5. Len(Replayed(journal)) = Len(journal) /\ Replayed(journal)[i].id = m
  BY <1>2, <1>4 DEF Replayed
<1> DEFINE r == Replayed(journal)
<1>6. r \in Seq(Turn) /\ i \in 1..Len(r) /\ r[i].id = m /\ Line' = Line \o r
  BY <1>2, <1>3, <1>4, <1>5
<1> HIDE DEF r
<1>7. Len(Line) + i \in DOMAIN Line' /\ Line'[Len(Line) + i] = r[i]
  BY <1>2, <1>6
<1> QED
  BY <1>6, <1>7 DEF Cared, Waits

\* A step of a reliable bridge forgets no entry.
LEMMA CaredStep ==
  ASSUME TurnInv, CaredOK, [Next]_vars, Reliable, Undisturbed => FlightOK
  PROVE  CaredOK'
<1>1. IInv /\ BuildOK /\ TypeOK /\ journal \in Seq(Ids) /\ BridgeAssumption
  BY BridgeAssumption DEF TurnInv, IInv, TypeOK
<1> SUFFICES ASSUME conn' = "up", ~Replaying',
                    NEW m \in Ids, m \in RangeOf(journal'), fate'[m] = "live"
             PROVE  Cared(m)'
  BY DEF CaredOK
<1>2. ASSUME NEW ok \in DiskResults, Replay(ok) PROVE Cared(m)'
  <2>1. ok = TRUE
    BY <1>1 DEF Reliable, BridgeAssumption
  <2> QED
    BY <1>1, <1>2, <2>1, ReplayCares
<1>3. CASE \A ok \in DiskResults : ~Replay(ok)
  <2>1. conn = "up" /\ ~Replaying /\ fate[m] = "live"
    BY <1>1, <1>3, ReplayingStep, LiveStep
  <2>2. CASE m \in RangeOf(journal)
    BY <1>1, <1>3, <2>1, <2>2, CaredKept DEF CaredOK
  <2>3. CASE m \notin RangeOf(journal)
    <3>1. JournalAdmits
      BY <1>1, <2>3, JournalStep, SettledOrder
         DEF JournalSettles, JournalEmpties, RangeOf
    <3>2. PICK t \in Turn : t = Head(chain).turn
      BY <1>1, <3>1, HeadTurn DEF JournalAdmits, Admit
    <3>3. /\ journal' = Append(journal, t.id)
          /\ pendingTurns' = Append(pendingTurns, t) /\ UNCHANGED activeTurn
      BY <3>1, <3>2 DEF JournalAdmits, Admit
    <3>4. t.id = m
      <4>1. t.id \in Ids
        BY <3>2 DEF Turn
      <4> QED
        BY <1>1, <2>3, <3>3, <4>1, RangeAppended
    <3>5. Line' = Append(Line, t) /\ Line \in Seq(Turn)
      BY <1>1, <3>3, OneJoins, LineOfType DEF TypeOK, Line, LineOf
    <3>6. Len(Line) + 1 \in DOMAIN Line' /\ Line'[Len(Line) + 1] = t
      BY <3>5
    <3> QED
      BY <3>4, <3>6 DEF Cared, Waits
  <2> QED
    BY <2>2, <2>3
<1> QED
  BY <1>2, <1>3

\* No admitted message is forgotten, through refused prompts and crashes or
\* through disconnections and expiries: once the replay after a login is done,
\* every unsettled entry whose reply has not failed is of a turn that waits,
\* is worked on or is being answered.
THEOREM NothingForgotten ==
  ASSUME FALSE \notin DiskResults,
         SendFailures = 0 \/ (Disconnects = 0 /\ TuiRuns = 0)
  PROVE  Spec => []NotForgotten
<1> DEFINE CInv == TurnInv /\ CaredOK /\ (Undisturbed => FlightOK)
<1>1. Init => CInv
  <2>1. Init => CaredOK
    BY DEF Init, CaredOK
  <2> QED
    BY <2>1, TurnInit, FlightInit
<1>2. CInv /\ [Next]_vars => CInv'
  BY TurnStep, CaredStep, FlightStep DEF TurnInv, Reliable, Undisturbed
<1>3. CInv => NotForgotten
  <2> SUFFICES ASSUME CInv, conn = "up", \A i \in DOMAIN chain : chain[i].op # "replay",
                      NEW m \in RangeOf(journal), fate[m] = "live"
               PROVE  \E t \in Turn : t.id = m /\ Held(t)
    BY DEF NotForgotten
  <2>1. TypeOK /\ m \in Ids /\ ~Replaying
    BY DEF TurnInv, IInv, TypeOK, RangeOf, Replaying
  <2>2. Cared(m)
    BY <2>1 DEF CaredOK
  <2>3. CASE Replies(m)
    BY <2>3 DEF Replies, Held
  <2>4. CASE Waits(m)
    <3>1. CASE activeTurn \in Turn /\ activeTurn.id = m
      BY <3>1 DEF Held
    <3>2. CASE m \in IdsOf(pendingTurns)
      <4>1. PICK i \in DOMAIN pendingTurns : pendingTurns[i].id = m
        BY <3>2 DEF IdsOf
      <4>2. pendingTurns[i] \in Turn /\ pendingTurns[i] \in RangeOf(pendingTurns)
        BY <2>1, <4>1 DEF TypeOK, RangeOf
      <4> QED
        BY <4>1, <4>2 DEF Held
    <3> QED
      BY <2>1, <2>4, <3>1, <3>2, WaitsIs
  <2> QED
    BY <2>2, <2>3, <2>4 DEF Cared
<1> QED
  BY <1>1, <1>2, <1>3, PTL DEF Spec

-----------------------------------------------------------------------------
(***************************************************************************)
(* Order.  Where nobody disconnects the bridge and bot.start() does not    *)
(* fail, a login follows a crash or is the first: nothing is under way     *)
(* then, and the journal is replayed into an empty line before anything    *)
(* else happens to it.                                                     *)
(***************************************************************************)
Steady == Disconnects = 0 /\ StartFailures = 0

DownOK ==
  /\ conn \in {"down", "up"}
  /\ conn = "down" => /\ activeTurn = NoTurn /\ pendingTurns = << >> /\ chain = << >>
                      /\ \A m \in Ids : pc[m] \in {"none", "done"} /\ hist[m] = << >>
                      /\ \A t \in Turn : pump[t] = 0 /\ post[t] = "none"
ReplayFirst == \A i \in DOMAIN chain : chain[i].op = "replay" => i = 1

\* No message in the line is still to be replayed.
Fresh == Replaying => \A i \in DOMAIN Line : Line[i].id \notin RangeOf(journal)

\* The turns of a queue follow the entries of a journal, and a sequence has
\* the elements of another in their order.
Follows(q, e) ==
  \A i, j \in DOMAIN q : i < j =>
    \A k, l \in DOMAIN e : e[k] = q[i].id /\ e[l] = q[j].id => k < l
Within(r, q) ==
  \A i, j \in DOMAIN r :
    \E k, l \in DOMAIN q : r[i] = q[k] /\ r[j] = q[l] /\ (i < j <=> k < l)

FifoAll == Follows(Line, journal)

OrderInv == TurnInv /\ DownOK /\ ReplayFirst /\ Fresh /\ FifoAll

\* Without failures of bot.start() there is none.
LEMMA NoStartFailure ==
  ASSUME TypeOK, StartFailures = 0
  PROVE  ~StartFailed
BY DEF TypeOK, StartFailed, Budgets

\* Nothing is under way in a bridge that is down.
LEMMA DownStep ==
  ASSUME IInv, DownOK, [Next]_vars, Steady
  PROVE  DownOK'
<1> USE DEF bridgeVars, dispatchVars, pumpVars, postVars, diskVars, piVars
<1>1. TypeOK /\ ~Stop /\ ~StartFailed /\ ~Stopped /\ ~LoginFailed
  BY NoDisconnect, NoStartFailure DEF IInv, Steady, Stopped, LoginFailed, DownOK
<1>2. CASE Crash
  BY <1>2 DEF Crash, DownOK
<1>3. CASE Login
  BY <1>3 DEF Login, DownOK
<1>4. CASE ~Crash /\ ~Login
  <2>1. UNCHANGED conn
    BY <1>1, <1>4, ConnStep
  <2>2. CASE conn = "up"
    BY <2>1, <2>2 DEF DownOK
  <2>3. CASE conn = "down"
    <3>1. /\ activeTurn = NoTurn /\ pendingTurns = << >> /\ chain = << >>
          /\ \A m \in Ids : pc[m] \in {"none", "done"} /\ hist[m] = << >>
          /\ \A t \in Turn : pump[t] = 0 /\ post[t] = "none"
      BY <2>3 DEF DownOK
    <3>2. ~DispatchStep
      BY <3>1 DEF DispatchStep, Welcomed, SkipFolded, Built, TypingDone
    <3>3. ~PumpStep /\ ~ReplyStep
      <4>1. \A t \in Turn : ~(pump[t] > 0) /\ post[t] = "none"
        BY <3>1
      <4> QED
        BY <4>1 DEF PumpStep, Accepted, Refused, GiveUp, ReplyStep, ReplySent,
                    AttachmentsSent, ReplyFailed
    <3>4. ~DiskStep
      BY <3>1
         DEF DiskStep, HeadIs, Admit, SettleFolded, SettleDropped, SettleAnswered,
             Replay, Discard, Compact
    <3>5. \A m \in Ids, k \in Kinds : ~Arrive(m, k)
      BY <2>3 DEF Arrive, Connected
    <3>6. UNCHANGED <<activeTurn, pendingTurns, chain, pc, hist, pump, post>>
      <4>1. CASE PiStep
        BY <3>1, <4>1 DEF PiStep, AgentStart, AgentEnd, AgentSettled
      <4>2. CASE TuiRun
        BY <4>2 DEF TuiRun
      <4>3. ~SessionExpired
        BY <2>3 DEF SessionExpired
      <4> QED
        BY <1>1, <1>4, <3>2, <3>3, <3>4, <3>5, <4>1, <4>2, <4>3 DEF Next, Environment, vars
    <3> QED
      BY <2>1, <2>3, <3>1, <3>6 DEF DownOK
  <2> QED
    BY <2>2, <2>3 DEF DownOK
<1> QED
  BY <1>2, <1>3, <1>4

\* What the login that finds the bridge down starts from.
LEMMA LoginStep ==
  ASSUME IInv, DownOK, Login
  PROVE  /\ chain = << >> /\ Line = << >> /\ Line' = << >>
         /\ UNCHANGED <<journal, post, hist>>
         /\ \A t \in Turn : post[t] = "none"
         /\ \A m \in Ids : hist[m] = << >>
         /\ DOMAIN chain' = {1} /\ chain'[1].op = "replay"
<1>1. conn = "down"
  BY DEF Login, DownOK
<1>2. /\ activeTurn = NoTurn /\ pendingTurns = << >> /\ chain = << >>
      /\ \A t \in Turn : post[t] = "none"
      /\ \A m \in Ids : hist[m] = << >>
  BY <1>1 DEF DownOK
<1>3. /\ UNCHANGED <<activeTurn, pendingTurns, journal, post, hist>>
      /\ chain' = Append(chain, Op("replay", NoTurn, 0))
  BY DEF Login, postVars, dispatchVars
<1>4. Line = << >> /\ Line' = << >>
  BY <1>2, <1>3 DEF Line
<1>5. chain' = <<Op("replay", NoTurn, 0)>>
  BY <1>2, <1>3
<1>6. DOMAIN chain' = {1} /\ chain'[1] = Op("replay", NoTurn, 0)
  BY <1>5
<1> QED
  BY <1>2, <1>3, <1>4, <1>6 DEF Op

\* The operations after the first are the first of the tail.
LEMMA TailIndex ==
  ASSUME NEW S, NEW q \in Seq(S), q # << >>, NEW i \in DOMAIN Tail(q)
  PROVE  i + 1 \in DOMAIN q /\ Tail(q)[i] = q[i + 1] /\ i + 1 # 1
OBVIOUS

\* What a step leaves of the chain has its replay first too.
LEMMA RestFirst ==
  ASSUME IInv, ReplayFirst, NEW q \in Seq(ChainOp), ChainRest(q),
         NEW i \in DOMAIN q, q[i].op = "replay"
  PROVE  q = chain /\ i = 1
<1>1. CASE q = chain
  BY <1>1 DEF ReplayFirst
<1>2. CASE chain # << >> /\ q = Tail(chain)
  <2>1. i + 1 \in DOMAIN chain /\ q[i] = chain[i + 1] /\ i + 1 # 1
    BY <1>2, TailIndex DEF IInv, TypeOK
  <2> QED
    BY <2>1 DEF ReplayFirst
<1> QED
  BY <1>1, <1>2 DEF ChainRest

\* Each operation of a chain with one more is of the old ones, or the new one.
LEMMA AppendIndex ==
  ASSUME NEW S, NEW q \in Seq(S), NEW o \in S, NEW i \in DOMAIN Append(q, o)
  PROVE  \/ i \in DOMAIN q /\ Append(q, o)[i] = q[i]
         \/ i = Len(q) + 1 /\ Append(q, o)[i] = o
OBVIOUS

\* The replay is the first operation of the chain.
LEMMA ReplayFirstStep ==
  ASSUME IInv, DownOK, ReplayFirst, [Next]_vars
  PROVE  ReplayFirst'
<1>1. CASE Crash
  BY <1>1 DEF Crash, ReplayFirst
<1>2. CASE Login
  BY <1>2, LoginStep DEF ReplayFirst
<1>3. CASE ~Crash /\ ~Login
  <2>1. PICK q \in Seq(ChainOp) :
          /\ ChainRest(q)
          /\ chain' = q \/ \E o \in ChainOp : chain' = Append(q, o) /\ o.op # "replay"
    BY <1>3, ChainStep DEF ChainStays
  <2>2. ASSUME NEW i \in DOMAIN chain', chain'[i].op = "replay" PROVE i = 1
    <3>1. i \in DOMAIN q /\ q[i].op = "replay"
      BY <2>1, <2>2, AppendIndex
    <3> QED
      BY <2>1, <3>1, RestFirst
  <2> QED
    BY <2>2 DEF ReplayFirst
<1> QED
  BY <1>1, <1>2, <1>3

\* As long as the replay is awaited, the journal stays as it is.
LEMMA AwaitReplay ==
  ASSUME IInv, ReplayFirst, [Next]_vars, ~Login, Replaying'
  PROVE  /\ Replaying /\ UNCHANGED journal
         /\ \A ok \in DiskResults : ~Replay(ok)
<1>1. ~Crash
  BY DEF Crash, Replaying, RangeOf
<1>2. PICK q \in Seq(ChainOp) :
        /\ ChainRest(q)
        /\ chain' = q \/ \E o \in ChainOp : chain' = Append(q, o) /\ o.op # "replay"
  BY <1>1, ChainStep DEF ChainStays
<1>3. PICK i \in DOMAIN chain' : chain'[i].op = "replay"
  BY DEF Replaying, RangeOf
<1>4. i \in DOMAIN q /\ q[i].op = "replay"
  BY <1>2, <1>3, AppendIndex
<1>5. q = chain /\ i = 1
  BY <1>2, <1>4, RestFirst
<1>6. chain \in Seq(ChainOp) /\ Head(chain).op = "replay" /\ chain # << >>
  BY <1>4, <1>5 DEF IInv, TypeOK
<1>7. Replaying
  BY <1>4, <1>5 DEF Replaying, RangeOf
<1>8. UNCHANGED journal
  BY <1>6, JournalStep
     DEF JournalAdmits, JournalSettles, JournalEmpties, HeadIs, Admit, SettleOps
<1>9. ASSUME NEW ok \in DiskResults, Replay(ok) PROVE FALSE
  <2>1. chain' = Append(Tail(chain), Op("compact", NoTurn, 0))
    BY <1>9 DEF Replay
  <2>2. Op("compact", NoTurn, 0) \in ChainOp /\ Op("compact", NoTurn, 0).op = "compact"
    BY OpType, BridgeAssumption DEF JournalOps, Op
  <2>3. Tail(chain) \in Seq(ChainOp)
    BY <1>6
  <2>4. i \in DOMAIN Tail(chain) /\ Tail(chain)[i].op = "replay"
    BY <1>3, <2>1, <2>2, <2>3, AppendIndex
  <2>5. i + 1 \in DOMAIN chain /\ chain[i + 1].op = "replay" /\ i + 1 # 1
    BY <1>6, <2>4, TailIndex
  <2> QED
    BY <2>5 DEF ReplayFirst
<1> QED
  BY <1>7, <1>8, <1>9

\* The turns of a queue have ids.
LEMMA TurnId ==
  ASSUME NEW q \in Seq(Turn), NEW i \in DOMAIN q
  PROVE  q[i] \in Turn /\ q[i].id \in Ids
<1>1. q[i] \in Turn
  OBVIOUS
<1> QED
  BY <1>1 DEF Turn

\* No message of the line comes into the journal before the replay.
LEMMA FreshStep ==
  ASSUME TurnInv, DownOK, ReplayFirst, Fresh, [Next]_vars
  PROVE  Fresh'
<1>1. IInv /\ BuildOK /\ BornOK
  BY DEF TurnInv
<1>2. CASE Login
  BY <1>1, <1>2, LoginStep DEF Fresh
<1>3. CASE ~Login
  <2> SUFFICES ASSUME Replaying', NEW i \in DOMAIN Line', Line'[i].id \in RangeOf(journal')
               PROVE  FALSE
    BY DEF Fresh
  <2>1. Replaying /\ journal' = journal /\ ~LineReplays
    BY <1>1, <1>3, AwaitReplay DEF LineReplays
  <2>2. PICK m \in Ids : m = Line'[i].id /\ Waits(m)'
    <3>1. TypeOK'
      BY <1>1, TypeStep
    <3>2. Line' \in Seq(Turn)
      BY <3>1, LineOfType DEF TypeOK, Line, LineOf
    <3>3. Line'[i].id \in Ids
      BY <3>2, TurnId
    <3> QED
      BY <3>3 DEF Waits
  <2>3. m \in RangeOf(journal)
    BY <2>1, <2>2
  <2>4. CASE Waits(m)
    BY <2>1, <2>3, <2>4 DEF Fresh, Waits
  <2>5. CASE IsEarly(m)
    BY <1>1, <2>3, <2>5 DEF BornOK, Named
  <2> QED
    BY <1>1, <2>1, <2>2, <2>4, <2>5, WaitsStep
<1> QED
  BY <1>2, <1>3

\* A part of the line follows a part of the journal.
LEMMA PartFollows ==
  ASSUME NEW q, NEW e, Follows(q, e), NEW r, Within(r, q), NEW f, Within(f, e)
  PROVE  Follows(r, f)
<1> SUFFICES ASSUME NEW i \in DOMAIN r, NEW j \in DOMAIN r, i < j,
                    NEW k \in DOMAIN f, NEW l \in DOMAIN f, f[k] = r[i].id, f[l] = r[j].id
             PROVE  k < l
  BY DEF Follows
<1>1. PICK a, b \in DOMAIN q : r[i] = q[a] /\ r[j] = q[b] /\ (i < j <=> a < b)
  BY DEF Within
<1>2. PICK c, d \in DOMAIN e : f[k] = e[c] /\ f[l] = e[d] /\ (k < l <=> c < d)
  BY DEF Within
<1>3. c < d
  BY <1>1, <1>2 DEF Follows
<1> QED
  BY <1>2, <1>3

\* A line that shrinks names no other turns.
LEMMA ShrinksWithin ==
  ASSUME TypeOK, TypeOK', LineShrinks
  PROVE  Within(Line', Line)
<1>1. PICK s \in Nat : /\ Len(Line') + s <= Len(Line)
                       /\ \A i \in 1..Len(Line') : Line'[i] = Line[i + s]
  BY DEF LineShrinks
<1>2. Line \in Seq(Turn) /\ Line' \in Seq(Turn)
  BY LineOfType DEF TypeOK, Line, LineOf
<1> SUFFICES ASSUME NEW i \in DOMAIN Line', NEW j \in DOMAIN Line'
             PROVE  \E k, l \in DOMAIN Line :
                      Line'[i] = Line[k] /\ Line'[j] = Line[l] /\ (i < j <=> k < l)
  BY DEF Within
<1>3. /\ i + s \in DOMAIN Line /\ j + s \in DOMAIN Line
      /\ Line'[i] = Line[i + s] /\ Line'[j] = Line[j + s]
      /\ i < j <=> i + s < j + s
  BY <1>1, <1>2
<1> QED
  BY <1>3

\* Unless a message is admitted, the journal keeps entries in their order.
LEMMA JournalWithin ==
  ASSUME IInv, [Next]_vars, ~JournalAdmits
  PROVE  Within(journal', journal)
<1>1. journal \in Seq(Ids)
  BY DEF IInv, TypeOK
<1>2. CASE UNCHANGED journal
  BY <1>2 DEF Within
<1>3. CASE JournalSettles
  BY <1>1, <1>3, SettledOrder DEF JournalSettles, Within
<1>4. CASE JournalEmpties
  BY <1>4 DEF JournalEmpties, Within
<1> QED
  BY <1>2, <1>3, <1>4, JournalStep

\* A turn without an entry may join the line.
LEMMA JoinFollows ==
  ASSUME NEW q \in Seq(Turn), NEW t \in Turn, NEW e \in Seq(Ids), Follows(q, e),
         t.id \notin RangeOf(e)
  PROVE  Follows(Append(q, t), e)
<1> DEFINE r == Append(q, t)
<1> SUFFICES ASSUME NEW i \in DOMAIN r, NEW j \in DOMAIN r, i < j,
                    NEW k \in DOMAIN e, NEW l \in DOMAIN e, e[k] = r[i].id, e[l] = r[j].id
             PROVE  k < l
  BY DEF Follows
<1>1. (i \in DOMAIN q /\ r[i] = q[i]) \/ r[i] = t
  BY AppendIndex
<1>2. (j \in DOMAIN q /\ r[j] = q[j]) \/ r[j] = t
  BY AppendIndex
<1> HIDE DEF r
<1>3. e[k] # t.id /\ e[l] # t.id
  BY DEF RangeOf
<1> QED
  BY <1>1, <1>2, <1>3 DEF Follows

\* A turn may join the line as its message joins the journal.
LEMMA AdmitFollows ==
  ASSUME NEW q \in Seq(Turn), NEW t \in Turn, NEW e \in Seq(Ids), Follows(q, e),
         t.id \in Ids, t.id \notin RangeOf(e), \A i \in DOMAIN q : q[i].id # t.id
  PROVE  Follows(Append(q, t), Append(e, t.id))
<1> DEFINE r == Append(q, t)
           f == Append(e, t.id)
<1> SUFFICES ASSUME NEW i \in DOMAIN r, NEW j \in DOMAIN r, i < j,
                    NEW k \in DOMAIN f, NEW l \in DOMAIN f, f[k] = r[i].id, f[l] = r[j].id
             PROVE  k < l
  BY DEF Follows
<1>1. i \in 1..Len(q) /\ r[i] = q[i]
  BY AppendIndex
<1>2. \/ j \in 1..Len(q) /\ r[j] = q[j]
      \/ j = Len(q) + 1 /\ r[j] = t
  BY AppendIndex
<1>3. \/ k \in 1..Len(e) /\ f[k] = e[k]
      \/ k = Len(e) + 1 /\ f[k] = t.id
  BY AppendIndex
<1>4. \/ l \in 1..Len(e) /\ f[l] = e[l]
      \/ l = Len(e) + 1 /\ f[l] = t.id
  BY AppendIndex
<1> HIDE DEF r, f
<1>5. k \in 1..Len(e) /\ f[k] = e[k]
  BY <1>1, <1>3
<1>6. CASE l = Len(e) + 1
  BY <1>5, <1>6
<1>7. CASE l \in 1..Len(e) /\ f[l] = e[l]
  <2>1. f[l] # t.id
    BY <1>7 DEF RangeOf
  <2>2. j \in 1..Len(q) /\ r[j] = q[j]
    BY <1>2, <2>1
  <2> QED
    <3>1. DOMAIN q = 1..Len(q) /\ DOMAIN e = 1..Len(e)
      OBVIOUS
    <3>2. e[k] = q[i].id
      BY <1>1, <1>5, Zenon
    <3>3. e[l] = q[j].id
      BY <1>7, <2>2, Zenon
    <3> QED
      BY <1>1, <1>5, <1>7, <2>2, <3>1, <3>2, <3>3 DEF Follows
<1> QED
  BY <1>4, <1>6, <1>7

\* The replayed turns are in the order of the journal.
LEMMA ReplayFollows ==
  ASSUME NEW q \in Seq(Turn), NEW e \in Seq(Ids), NEW r \in Seq(Turn), Len(r) = Len(e),
         \A i \in 1..Len(e) : r[i].id = e[i],
         \A i, k \in DOMAIN e : e[i] = e[k] => i = k,
         \A i \in DOMAIN q : q[i].id \notin RangeOf(e)
  PROVE  Follows(q \o r, e)
<1> DEFINE s == q \o r
<1> SUFFICES ASSUME NEW i \in DOMAIN s, NEW j \in DOMAIN s, i < j,
                    NEW k \in DOMAIN e, NEW l \in DOMAIN e, e[k] = s[i].id, e[l] = s[j].id
             PROVE  k < l
  BY DEF Follows
<1>1. ASSUME NEW p \in DOMAIN s, NEW n \in DOMAIN e, e[n] = s[p].id
      PROVE  n = p - Len(q)
  <2>1. p \in 1..(Len(q) + Len(r))
    OBVIOUS
  <2>2. p \notin 1..Len(q)
    <3> SUFFICES ASSUME p \in 1..Len(q) PROVE FALSE
      OBVIOUS
    <3>1. s[p] = q[p]
      OBVIOUS
    <3> QED
      BY <1>1, <3>1 DEF RangeOf
  <2>3. p - Len(q) \in 1..Len(r) /\ s[p] = r[p - Len(q)]
    BY <2>1, <2>2
  <2>4. p - Len(q) \in DOMAIN e /\ e[p - Len(q)] = e[n]
    BY <1>1, <2>3
  <2> QED
    BY <2>4
<1>2. k = i - Len(q) /\ l = j - Len(q)
  BY <1>1
<1>3. i \in Int /\ j \in Int /\ Len(q) \in Nat
  OBVIOUS
<1> QED
  BY <1>2, <1>3

\* A steady step keeps the line in the journal's order.
LEMMA FifoStep ==
  ASSUME OrderInv, [Next]_vars
  PROVE  FifoAll'
<1>1. IInv /\ BuildOK /\ BornOK /\ OnceOK /\ TypeOK /\ TypeOK'
  BY TypeStep DEF OrderInv, TurnInv, IInv
<1>2. Line \in Seq(Turn) /\ journal \in Seq(Ids) /\ journal' \in Seq(Ids)
      /\ Replayed(journal) \in Seq(Turn)
  BY <1>1, LineOfType, ReplayedType DEF TypeOK, Line, LineOf
<1>3. Follows(Line, journal)
  BY DEF OrderInv, FifoAll
<1>4. CASE JournalAdmits
  <2>1. PICK t \in Turn : t = Head(chain).turn /\ t.id \in Ids /\ pc[t.id] = "admit"
    BY <1>1, <1>4, HeadTurn DEF JournalAdmits, Admit
  <2>2. /\ journal' = Append(journal, t.id)
        /\ pendingTurns' = Append(pendingTurns, t) /\ UNCHANGED activeTurn
    BY <1>4, <2>1 DEF JournalAdmits, Admit
  <2>3. Line' = Append(Line, t)
    BY <1>1, <2>2, OneJoins
  <2>4. t.id \notin RangeOf(journal) /\ \A i \in DOMAIN Line : Line[i].id # t.id
    BY <1>1, <2>1 DEF BornOK, IsEarly, Early, Named, Waits
  <2>5. Follows(Append(Line, t), Append(journal, t.id))
    BY <1>2, <1>3, <2>1, <2>4, AdmitFollows
  <2> QED
    BY <2>2, <2>3, <2>5 DEF FifoAll
<1>5. CASE ~JournalAdmits
  <2>1. Within(journal', journal)
    BY <1>1, <1>5, JournalWithin
  <2>2. Within(Line, Line)
    BY DEF Within
  <2>3. Follows(Line, journal')
    BY <1>3, <2>1, <2>2, PartFollows
  <2>4. CASE LineShrinks
    <3>1. Within(Line', Line)
      BY <1>1, <2>4, ShrinksWithin
    <3> QED
      BY <1>3, <2>1, <3>1, PartFollows DEF FifoAll
  <2>5. CASE LineGrows
    <3>1. PICK t \in Turn : IsEarly(t.id) /\ Line' = Append(Line, t)
      BY <2>5 DEF LineGrows
    <3>2. t.id \notin RangeOf(journal)
      BY <1>1, <3>1 DEF BornOK, Named, Turn
    <3>3. t.id \notin RangeOf(journal')
      BY <2>1, <3>2 DEF Within, RangeOf
    <3>4. Follows(Append(Line, t), journal')
      BY <1>2, <2>3, <3>3, JoinFollows
    <3> QED
      BY <3>1, <3>4 DEF FifoAll
  <2>6. CASE LineReplays
    <3>1. HeadIs("replay") /\ journal' = journal /\ Line' = Line \o Replayed(journal)
      BY <2>6 DEF LineReplays, Replay
    <3>2. Replaying
      BY <1>1, <3>1, HeadType DEF Replaying
    <3>3. \A i \in DOMAIN Line : Line[i].id \notin RangeOf(journal)
      BY <3>2 DEF OrderInv, Fresh
    <3>4. /\ Len(Replayed(journal)) = Len(journal)
          /\ \A i \in 1..Len(journal) : Replayed(journal)[i].id = journal[i]
      BY <1>2 DEF Replayed
    <3>5. Follows(Line \o Replayed(journal), journal)
      BY <1>1, <1>2, <3>3, <3>4, ReplayFollows DEF OnceOK
    <3> QED
      BY <3>1, <3>5 DEF FifoAll
  <2> QED
    BY <1>1, <2>4, <2>5, <2>6, LineStep
<1> QED
  BY <1>4, <1>5

\* At the start there is no line.
LEMMA OrderInit == Init => OrderInv
<1> SUFFICES ASSUME Init PROVE OrderInv
  OBVIOUS
<1>1. TurnInv
  BY TurnInit
<1>2. DownOK
  BY DEF Init, DownOK
<1>3. ReplayFirst /\ Fresh
  BY DEF Init, ReplayFirst, Fresh, Replaying, RangeOf
<1>4. FifoAll
  BY DEF Init, FifoAll, Follows, Line
<1> QED
  BY <1>1, <1>2, <1>3, <1>4 DEF OrderInv

\* No steady step breaks the order.
LEMMA OrderStep ==
  ASSUME OrderInv, [Next]_vars, Steady
  PROVE  OrderInv'
<1>1. TurnInv /\ IInv /\ DownOK /\ ReplayFirst /\ Fresh
  BY DEF OrderInv, TurnInv
<1> QED
  BY <1>1, TurnStep, DownStep, ReplayFirstStep, FreshStep, FifoStep DEF OrderInv

\* Text turns wait in the order of their admission, through failures of pi and
\* of the disk, crashes and replays, as long as a login finds the queue empty:
\* nobody disconnects the bridge while it works and bot.start() does not fail.
THEOREM TextInOrder ==
  ASSUME Disconnects = 0, StartFailures = 0
  PROVE  Spec => []TextFifo
<1>1. OrderInv /\ [Next]_vars => OrderInv'
  BY OrderStep DEF Steady
<1>2. OrderInv => TextFifo
  BY DEF OrderInv, FifoAll, Follows, TextFifo
<1> QED
  BY OrderInit, <1>1, <1>2, PTL DEF Spec

-----------------------------------------------------------------------------
(***************************************************************************)
(* Durability.  Where, besides, the disk works, no session expires and     *)
(* nobody uses the terminal, a message is in one place at most: its turn   *)
(* waits in the line, or its reply is under way, or its lifecycle is over  *)
(* and its entry is about to be settled.  So no entry is settled under the *)
(* turn the bridge works on.                                               *)
(***************************************************************************)
Delivering == {"text", "files"}

\* The entry of message m is about to be settled.
Gone(m) == \/ \E n \in Ids : m \in IdsOf(hist[n])
           \/ \E o \in RangeOf(chain) : o.op \in SettleOps /\ o.turn.id = m

OneTurn == \A i, j \in DOMAIN Line : Line[i].id = Line[j].id => i = j
OneReply == \A t, u \in Turn :
              t.id = u.id /\ post[t] \in Delivering /\ post[u] \in Delivering => t = u
OnePlace == \A m \in Ids : /\ ~(Waits(m) /\ Replies(m))
                           /\ ~(Waits(m) /\ Gone(m))
                           /\ ~(Replies(m) /\ Gone(m))
Untouched == Replaying => \A m \in Ids : m \in RangeOf(journal) =>
                                           ~Waits(m) /\ ~Replies(m) /\ ~Gone(m)
KeptOK == \A m \in Ids : kind[m] = "text" /\ (Waits(m) \/ Replies(m)) =>
                           m \in RangeOf(journal)
NoDiscard == \A o \in RangeOf(chain) : o.op # "discard"

PlaceInv == /\ OrderInv /\ FlightOK
            /\ OneTurn /\ OneReply /\ OnePlace /\ Untouched /\ KeptOK /\ NoDiscard

Calm == /\ Steady /\ Undisturbed
        /\ Expiries = 0 /\ FALSE \notin DiskResults

\* An agent_settled with a turn to reply to finds the bridge connected.
LEMMA RunIsUp ==
  ASSUME IInv, DownOK, NEW t \in Turn, activeTurn = t
  PROVE  conn = "up"
BY NoTurnIsNone DEF DownOK

\* A reply begins when the active turn leaves the line.
LEMMA ReplyStarts ==
  ASSUME IInv, DownOK, [Next]_vars, NEW t \in Turn, post'[t] \in Delivering
  PROVE  post[t] \in Delivering \/ (AgentSettled /\ activeTurn = t)
<1> USE DEF bridgeVars, dispatchVars, pumpVars, postVars, diskVars, piVars
<1>1. post \in [Turn -> ReplyPoints] /\ t \in Turn
  BY DEF IInv, TypeOK
<1>2. ASSUME UNCHANGED post PROVE post[t] \in Delivering
  BY <1>2
<1>3. ASSUME NEW u \in Turn, NEW p, post' = [post EXCEPT ![u] = p],
             post[u] \in Delivering \/ p \notin Delivering
      PROVE  post[t] \in Delivering
  BY <1>1, <1>3
<1>4. CASE DispatchStep \/ PumpStep
  BY <1>2, <1>4
     DEF DispatchStep, PumpStep, Welcomed, SkipFolded, Built, TypingDone, Accepted,
         Refused, GiveUp
<1>5. CASE ReplyStep
  <2>1. PICK u \in Turn : ReplySent(u) \/ AttachmentsSent(u) \/ ReplyFailed(u)
    BY <1>5 DEF ReplyStep
  <2>2. post[u] \in Delivering /\ \E p : post' = [post EXCEPT ![u] = p]
    BY <2>1 DEF ReplySent, AttachmentsSent, ReplyFailed, Finish, Delivering
  <2> QED
    BY <1>3, <2>2
<1>6. CASE DiskStep
  <2>1. ASSUME NEW ok, SettleAnswered(ok) PROVE post[t] \in Delivering
    <3>1. /\ Head(chain).turn \in Turn /\ "none" \notin Delivering
          /\ post' = [post EXCEPT ![Head(chain).turn] = "none"]
      BY <2>1, HeadTurn DEF SettleAnswered, SettleOps, Delivering
    <3> QED
      BY <1>3, <3>1
  <2>2. ASSUME NEW ok, \/ Admit(ok) \/ SettleFolded(ok) \/ SettleDropped(ok)
                       \/ Replay(ok) \/ Discard(ok) \/ Compact
        PROVE  UNCHANGED post
    BY <2>2 DEF Admit, SettleFolded, SettleDropped, Replay, Discard, Compact
  <2> QED
    BY <1>2, <1>6, <2>1, <2>2 DEF DiskStep
<1>7. CASE PiStep
  <2>1. CASE AgentStart \/ \E o \in Outcomes : AgentEnd(o)
    BY <1>2, <2>1 DEF AgentStart, AgentEnd
  <2>2. CASE AgentSettled
    BY <1>1, <2>2 DEF AgentSettled
  <2> QED
    BY <1>7, <2>1, <2>2 DEF PiStep
<1>8. CASE Environment
  <2>1. ~Crash
    BY DEF Crash, Delivering
  <2> QED
    BY <1>2, <1>8, <2>1
       DEF Environment, Arrive, TuiRun, Login, LoginFailed, StartFailed, Stop, Stopped,
           SessionExpired
<1>9. CASE UNCHANGED vars
  BY <1>2, <1>9 DEF vars
<1> QED
  BY <1>4, <1>5, <1>6, <1>7, <1>8, <1>9 DEF Next

\* Where the line has one turn per message, the message of the active turn
\* waits no more once that turn has left.
LEMMA ActiveLeft ==
  ASSUME TypeOK, OneTurn, NEW t \in Turn, activeTurn = t, activeTurn' = NoTurn,
         UNCHANGED pendingTurns
  PROVE  Waits(t.id) /\ ~Waits(t.id)'
<1>1. /\ pendingTurns \in Seq(Turn) /\ activeTurn # NoTurn
      /\ activeTurn \in Turn \cup {NoTurn}
  BY NoTurnIsNone DEF TypeOK
<1>2. Line = LineOf(activeTurn, pendingTurns)
  BY DEF Line, LineOf
<1>3. /\ Line \in Seq(Turn) /\ Len(Line) = Len(pendingTurns) + 1 /\ Line[1] = t
      /\ \A i \in 1..Len(pendingTurns) : Line[i + 1] = pendingTurns[i]
  BY <1>1, <1>2, LineOfType
<1>4. Line' = pendingTurns
  BY DEF Line
<1>5. 1 \in DOMAIN Line
  BY <1>1, <1>3
<1>6. ASSUME NEW i \in DOMAIN pendingTurns, pendingTurns[i].id = t.id PROVE FALSE
  <2>1. i \in 1..Len(pendingTurns) /\ i + 1 \in DOMAIN Line /\ i + 1 # 1
    BY <1>1, <1>3
  <2>2. Line[i + 1].id = Line[1].id
    BY <1>3, <1>6, <2>1
  <2> QED
    BY <1>5, <2>1, <2>2 DEF OneTurn
<1> QED
  BY <1>3, <1>4, <1>5, <1>6 DEF Waits

\* So do the queued ones once the queue is emptied.
LEMMA QueueLeft ==
  ASSUME TypeOK, OneTurn, NEW m \in IdsOf(pendingTurns), pendingTurns' = << >>,
         UNCHANGED activeTurn
  PROVE  Waits(m) /\ ~Waits(m)'
<1>1. pendingTurns \in Seq(Turn) /\ activeTurn \in Turn \cup {NoTurn}
  BY DEF TypeOK
<1>2. PICK k \in 1..Len(pendingTurns) : pendingTurns[k].id = m
  BY <1>1 DEF IdsOf
<1>3. Waits(m)
  <2>1. pendingTurns[k] \in Turn /\ pendingTurns[k] \in RangeOf(pendingTurns)
    BY <1>1 DEF RangeOf
  <2> QED
    BY <1>2, <2>1, LineHolds
<1>4. CASE activeTurn = NoTurn
  <2>1. Line' = << >>
    BY <1>4 DEF Line
  <2> QED
    BY <1>3, <2>1 DEF Waits
<1>5. CASE activeTurn # NoTurn
  <2>1. Line' = <<activeTurn>>
    BY <1>1, <1>5 DEF Line
  <2>2. Line = LineOf(activeTurn, pendingTurns)
    BY DEF Line, LineOf
  <2>3. /\ Line \in Seq(Turn) /\ Len(Line) = Len(pendingTurns) + 1 /\ Line[1] = activeTurn
        /\ \A i \in 1..Len(pendingTurns) : Line[i + 1] = pendingTurns[i]
    BY <1>1, <1>5, <2>2, LineOfType
  <2>4. k + 1 \in DOMAIN Line /\ 1 \in DOMAIN Line /\ k + 1 # 1 /\ Line[k + 1].id = m
    BY <1>1, <1>2, <2>3
  <2>5. activeTurn.id # m
    BY <2>3, <2>4 DEF OneTurn
  <2> QED
    BY <1>3, <2>1, <2>5 DEF Waits
<1> QED
  BY <1>3, <1>4, <1>5

\* Who is gone was gone before, if no settling is added.
LEMMA GoneRest ==
  ASSUME UNCHANGED hist, NEW m \in Ids, Gone(m)',
         \A o \in RangeOf(chain') : o.op \in SettleOps => o \in RangeOf(chain)
  PROVE  Gone(m)
<1>1. CASE \E n \in Ids : m \in IdsOf(hist'[n])
  BY <1>1 DEF Gone
<1>2. CASE \E o \in RangeOf(chain') : o.op \in SettleOps /\ o.turn.id = m
  BY <1>2 DEF Gone
<1> QED
  BY <1>1, <1>2 DEF Gone, IdsOf

\* One operation added at the end of what a step leaves of the chain.
LEMMA GoneAdded ==
  ASSUME IInv, UNCHANGED hist, NEW m \in Ids, Gone(m)',
         NEW q \in Seq(ChainOp), RangeOf(q) \subseteq RangeOf(chain),
         NEW o \in ChainOp, chain' = Append(q, o)
  PROVE  Gone(m) \/ (o.op \in SettleOps /\ o.turn.id = m)
<1>1. RangeOf(chain') = RangeOf(q) \cup {o}
  BY RangeAppended
<1>2. CASE o.op \in SettleOps /\ o.turn.id = m
  BY <1>2
<1>3. CASE \E p \in RangeOf(chain') : p # o /\ p.op \in SettleOps /\ p.turn.id = m
  BY <1>1, <1>3 DEF Gone
<1>4. CASE \E n \in Ids : m \in IdsOf(hist'[n])
  BY <1>4 DEF Gone
<1> QED
  BY <1>2, <1>3, <1>4 DEF Gone, IdsOf

\* What is left of the chain was in the chain.
LEMMA GoneTail ==
  ASSUME IInv, NEW op, HeadIs(op)
  PROVE  /\ Tail(chain) \in Seq(ChainOp)
         /\ RangeOf(Tail(chain)) \subseteq RangeOf(chain)
BY HeadType, RangeTail DEF IInv, TypeOK

\* The ids of what is left of a queue.
LEMMA IdsOfTail ==
  ASSUME NEW q \in Seq(Turn), q # << >>
  PROVE  /\ Tail(q) \in Seq(Turn) /\ IdsOf(Tail(q)) \subseteq IdsOf(q)
         /\ Head(q).id \in IdsOf(q)
<1>1. /\ Tail(q) \in Seq(Turn)
      /\ \A i \in DOMAIN Tail(q) : i + 1 \in DOMAIN q /\ Tail(q)[i] = q[i + 1]
      /\ 1 \in DOMAIN q /\ Head(q) = q[1]
  OBVIOUS
<1> QED
  BY <1>1 DEF IdsOf

\* Settling the folded turns h one after the other.
LEMMA GoneFolded ==
  ASSUME IInv, NEW m \in Ids, Gone(m)', NEW n \in Ids, NEW h \in Seq(Turn), NEW k,
         NEW q \in Seq(ChainOp), RangeOf(q) \subseteq RangeOf(chain),
         SettleOrBuild(n, h, k, q)
  PROVE  Gone(m) \/ m \in IdsOf(h)
<1>1. hist \in [Ids -> Seq(Turn)] /\ hist' = [hist EXCEPT ![n] = h]
  BY DEF IInv, TypeOK, SettleOrBuild
<1>2. CASE \E l \in Ids : m \in IdsOf(hist[l])'
  BY <1>1, <1>2 DEF Gone, IdsOf
<1>3. ASSUME NEW o \in RangeOf(chain'), o.op \in SettleOps, o.turn.id = m
      PROVE  Gone(m) \/ m \in IdsOf(h)
  <2>1. New(n) \in Turn /\ n \in 0..Messages /\ 0 \in 0..Messages
    BY NewType
  <2>2. CASE chain' = q
    BY <1>3, <2>2 DEF Gone
  <2>3. CASE h # << >> /\ chain' = Append(q, Op("folded", Head(h), n))
    <3>1. Head(h) \in Turn /\ Head(h).id \in IdsOf(h)
      BY <2>3, IdsOfTail
    <3>2. Op("folded", Head(h), n) \in ChainOp /\ Op("folded", Head(h), n).turn = Head(h)
      BY <2>1, <3>1, OpType DEF JournalOps, Op
    <3>3. o \in RangeOf(q) \/ o = Op("folded", Head(h), n)
      BY <1>3, <2>3, <3>2, RangeAppended
    <3> QED
      BY <1>3, <3>1, <3>2, <3>3 DEF Gone
  <2>4. CASE chain' = Append(q, Op("admit", New(n), 0))
    <3>1. /\ Op("admit", New(n), 0) \in ChainOp
          /\ Op("admit", New(n), 0).op \notin SettleOps
      BY <2>1, OpType DEF JournalOps, Op, SettleOps
    <3>2. o \in RangeOf(q)
      BY <1>3, <2>4, <3>1, RangeAppended
    <3> QED
      BY <1>3, <3>2 DEF Gone
  <2> QED
    BY <2>2, <2>3, <2>4 DEF SettleOrBuild
<1> QED
  BY <1>2, <1>3 DEF Gone

\* A message is gone after a routing only if it was, or has just left the line.
LEMMA GoneRoute ==
  ASSUME IInv, OneTurn, NEW m \in Ids, Gone(m)', NEW n \in Ids, NEW k \in AllKinds,
         Route(n, k), UNCHANGED <<activeTurn, post>>
  PROVE  Gone(m) \/ (Waits(m) /\ ~Waits(m)' /\ UNCHANGED post)
<1>1. chain \in Seq(ChainOp) /\ pendingTurns \in Seq(Turn) /\ TypeOK
  BY DEF IInv, TypeOK
<1>2. CASE UNCHANGED <<hist, chain>>
  BY <1>2, GoneRest
<1>3. CASE /\ SettleOrBuild(n, IF preserve THEN pendingTurns ELSE << >>, k, chain)
           /\ pendingTurns' = IF preserve THEN << >> ELSE pendingTurns
  <2> DEFINE h == IF preserve THEN pendingTurns ELSE << >>
  <2>1. h \in Seq(Turn) /\ SettleOrBuild(n, h, k, chain)
    BY <1>1, <1>3
  <2>2. m \in IdsOf(h) => preserve /\ m \in IdsOf(pendingTurns)
    BY DEF IdsOf
  <2> HIDE DEF h
  <2>3. Gone(m) \/ m \in IdsOf(h)
    BY <1>1, <2>1, GoneFolded
  <2>4. CASE preserve /\ m \in IdsOf(pendingTurns)
    BY <1>1, <1>3, <2>4, QueueLeft
  <2> QED
    BY <2>2, <2>3, <2>4
<1> QED
  BY <1>2, <1>3 DEF Route, AllKinds

\* Whose entry is about to be settled was waiting or being answered before,
\* and no longer is.
LEMMA GoneStep ==
  ASSUME IInv, FlightOK, OneTurn, OneReply, [Next]_vars, NEW m \in Ids, Gone(m)'
  PROVE  \/ Gone(m)
         \/ Waits(m) /\ ~Waits(m)' /\ UNCHANGED post
         \/ Replies(m) /\ ~Replies(m)'
<1> USE DEF bridgeVars, dispatchVars, pumpVars, postVars, diskVars, piVars
<1> DEFINE Moved == \/ Gone(m)
                    \/ Waits(m) /\ ~Waits(m)' /\ UNCHANGED post
                    \/ Replies(m) /\ ~Replies(m)'
<1>1. /\ TypeOK /\ chain \in Seq(ChainOp) /\ hist \in [Ids -> Seq(Turn)]
      /\ post \in [Turn -> ReplyPoints] /\ 0 \in 0..Messages
  BY BridgeAssumption DEF IInv, TypeOK
<1>2. ASSUME UNCHANGED <<hist, chain>> PROVE Gone(m)
  BY <1>2, GoneRest
<1>3. ASSUME UNCHANGED hist, NEW op, HeadIs(op), chain' = Tail(chain) PROVE Gone(m)
  BY <1>3, GoneRest, GoneTail
<1>4. CASE DispatchStep
  <2>1. ASSUME NEW n \in Ids, Welcomed(n) PROVE Moved
    <3>1. kind[n] \in AllKinds /\ Route(n, kind[n]) /\ UNCHANGED <<activeTurn, post>>
      BY <2>1 DEF Welcomed, IInv, FoldOK, CallOK, TypeOK
    <3> QED
      BY <3>1, GoneRoute
  <2>2. ASSUME NEW n \in Ids, SkipFolded(n) PROVE Moved
    <3>1. hist[n] \in Seq(Turn) /\ hist[n] # << >>
      BY <1>1, <2>2 DEF SkipFolded, IInv, FoldOK, CallOK
    <3>2. Gone(m) \/ m \in IdsOf(Tail(hist[n]))
      BY <1>1, <2>2, <3>1, IdsOfTail, GoneFolded DEF SkipFolded
    <3> QED
      BY <3>1, <3>2, IdsOfTail DEF Gone
  <2>3. ASSUME NEW n \in Ids, TypingDone(n) \/ \E ok \in BOOLEAN : Built(n, ok)
        PROVE  Moved
    BY <1>2, <2>3 DEF TypingDone, Built
  <2> QED
    BY <1>4, <2>1, <2>2, <2>3 DEF DispatchStep
<1>5. CASE PumpStep
  <2>1. ASSUME NEW t \in Turn, Accepted(t) \/ Refused(t) PROVE Moved
    BY <1>2, <2>1 DEF Accepted, Refused
  <2>2. ASSUME NEW t \in Turn, GiveUp(t) PROVE Moved
    <3>1. activeTurn = t /\ activeTurn' = NoTurn /\ UNCHANGED <<pendingTurns, post, hist>>
      BY <2>2 DEF GiveUp, FlightOK
    <3>2. Waits(t.id) /\ ~Waits(t.id)'
      BY <1>1, <3>1, ActiveLeft
    <3>3. CASE UNCHANGED chain
      BY <1>2, <3>1, <3>3
    <3>4. CASE chain' = Append(chain, Op("dropped", t, 0))
      <4>1. Op("dropped", t, 0) \in ChainOp /\ Op("dropped", t, 0).turn = t
        BY <1>1, OpType DEF JournalOps, Op
      <4>2. Gone(m) \/ t.id = m
        BY <1>1, <3>1, <3>4, <4>1, GoneAdded
      <4> QED
        BY <3>1, <3>2, <4>2
    <3> QED
      BY <2>2, <3>3, <3>4 DEF GiveUp
  <2> QED
    BY <1>5, <2>1, <2>2 DEF PumpStep
<1>6. CASE ReplyStep
  <2>1. PICK t \in Turn : ReplySent(t) \/ AttachmentsSent(t) \/ ReplyFailed(t)
    BY <1>6 DEF ReplyStep
  <2>2. post[t] \in Delivering /\ UNCHANGED hist
    BY <2>1 DEF ReplySent, AttachmentsSent, ReplyFailed, Delivering
  <2>3. CASE UNCHANGED chain
    BY <1>2, <2>2, <2>3
  <2>4. CASE /\ post' = [post EXCEPT ![t] = "settle"]
             /\ chain' = Append(chain, Op("settled", t, 0))
    <3>1. Op("settled", t, 0) \in ChainOp /\ Op("settled", t, 0).turn = t
      BY <1>1, OpType DEF JournalOps, Op
    <3>2. Gone(m) \/ t.id = m
      BY <1>1, <2>2, <2>4, <3>1, GoneAdded
    <3>3. ASSUME t.id = m PROVE Replies(m) /\ ~Replies(m)'
      <4>1. Replies(m)
        BY <2>2, <3>3 DEF Replies, Delivering
      <4>2. \A u \in Turn : u.id = m => post'[u] \notin Delivering
        BY <1>1, <2>2, <2>4, <3>3 DEF OneReply, Delivering
      <4> QED
        BY <4>1, <4>2 DEF Replies, Delivering
    <3> QED
      BY <3>2, <3>3
  <2> QED
    BY <2>1, <2>3, <2>4 DEF ReplySent, AttachmentsSent, ReplyFailed, Finish
<1>7. CASE DiskStep
  <2>1. ASSUME NEW ok, SettleFolded(ok) PROVE Moved
    <3>1. PICK n \in Ids : n = Head(chain).for /\ pc[n] = "fold"
      <4>1. Head(chain) \in RangeOf(chain) /\ Head(chain).op = "folded"
        BY <2>1, HeadType DEF SettleFolded
      <4> QED
        BY <4>1 DEF IInv, FoldOK, WaitOK
    <3>2. hist[n] \in Seq(Turn) /\ hist[n] # << >>
      BY <1>1, <3>1 DEF IInv, FoldOK, CallOK
    <3>3. HeadIs("folded") /\ SettleOrBuild(n, Tail(hist[n]), kind[n], Tail(chain))
      BY <2>1, <3>1 DEF SettleFolded
    <3>4. Gone(m) \/ m \in IdsOf(Tail(hist[n]))
      BY <3>2, <3>3, IdsOfTail, GoneTail, GoneFolded
    <3> QED
      BY <3>2, <3>4, IdsOfTail DEF Gone
  <2>2. ASSUME NEW ok, \/ Admit(ok) \/ SettleDropped(ok) \/ SettleAnswered(ok)
                       \/ Discard(ok) \/ Compact
        PROVE  Moved
    <3>1. (\E op : HeadIs(op) /\ chain' = Tail(chain)) /\ UNCHANGED hist
      BY <2>2 DEF Admit, SettleDropped, SettleAnswered, Discard, Compact
    <3> QED
      BY <1>3, <3>1
  <2>3. ASSUME NEW ok, Replay(ok) PROVE Moved
    <3>1. /\ Op("compact", NoTurn, 0) \in ChainOp
          /\ Op("compact", NoTurn, 0).op \notin SettleOps
      BY <1>1, OpType DEF JournalOps, Op, SettleOps
    <3>2. /\ HeadIs("replay") /\ UNCHANGED hist
          /\ chain' = Append(Tail(chain), Op("compact", NoTurn, 0))
      BY <2>3 DEF Replay
    <3> QED
      BY <3>1, <3>2, GoneTail, GoneAdded
  <2> QED
    BY <1>7, <2>1, <2>2, <2>3 DEF DiskStep
<1>8. CASE PiStep \/ UNCHANGED vars
  BY <1>2, <1>8 DEF PiStep, AgentStart, AgentEnd, AgentSettled, vars
<1>9. CASE Environment
  <2>1. ASSUME NEW n \in Ids, NEW k \in Kinds, Arrive(n, k) PROVE Moved
    <3>1. CASE UNCHANGED <<hist, chain>>
      BY <1>2, <3>1
    <3>2. CASE Route(n, k)
      <4>1. k \in AllKinds /\ UNCHANGED <<activeTurn, post>>
        BY <2>1, BridgeAssumption DEF Arrive
      <4> QED
        BY <3>2, <4>1, GoneRoute
    <3> QED
      BY <2>1, <3>1, <3>2 DEF Arrive
  <2>2. ASSUME Login \/ SessionExpired PROVE Moved
    <3>1. PICK op \in {"replay", "discard"} :
            chain' = Append(chain, Op(op, NoTurn, 0)) /\ UNCHANGED hist
      BY <2>2 DEF Login, SessionExpired
    <3>2. Op(op, NoTurn, 0) \in ChainOp /\ Op(op, NoTurn, 0).op \notin SettleOps
      BY <1>1, OpType DEF JournalOps, Op, SettleOps
    <3> QED
      BY <1>1, <3>1, <3>2, GoneAdded
  <2>3. ASSUME TuiRun \/ LoginFailed \/ StartFailed \/ Stop \/ Stopped PROVE Moved
    BY <1>2, <2>3 DEF TuiRun, LoginFailed, StartFailed, Stop, Stopped
  <2>4. ~Crash
    <3> SUFFICES ASSUME Crash PROVE FALSE
      OBVIOUS
    <3>1. hist' = [n \in Ids |-> << >>] /\ chain' = << >>
      BY DEF Crash
    <3> QED
      BY <3>1 DEF Gone, IdsOf, RangeOf
  <2> QED
    BY <1>9, <2>1, <2>2, <2>3, <2>4 DEF Environment
<1> QED
  BY <1>4, <1>5, <1>6, <1>7, <1>8, <1>9 DEF Next

\* A message keeps to one turn of the line,
LEMMA OneTurnStep ==
  ASSUME PlaceInv, [Next]_vars
  PROVE  OneTurn'
<1>1. /\ IInv /\ BuildOK /\ BornOK /\ OnceOK /\ Fresh /\ OneTurn /\ TypeOK /\ TypeOK'
      /\ Line \in Seq(Turn) /\ journal \in Seq(Ids) /\ Replayed(journal) \in Seq(Turn)
  BY TypeStep, LineOfType, ReplayedType
     DEF PlaceInv, OrderInv, TurnInv, IInv, TypeOK, Line, LineOf
<1> SUFFICES ASSUME NEW i \in DOMAIN Line', NEW j \in DOMAIN Line', Line'[i].id = Line'[j].id
             PROVE  i = j
  BY DEF OneTurn
<1>2. CASE LineShrinks
  <2>1. Within(Line', Line)
    BY <1>1, <1>2, ShrinksWithin
  <2>2. ~(i < j)
    BY <1>1, <2>1 DEF Within, OneTurn
  <2>3. ~(j < i)
    BY <1>1, <2>1 DEF Within, OneTurn
  <2>4. i \in Int /\ j \in Int
    <3>1. Line' \in Seq(Turn)
      BY <1>1, LineOfType DEF TypeOK, Line, LineOf
    <3> QED
      BY <3>1
  <2> QED
    BY <2>2, <2>3, <2>4
<1>3. CASE LineGrows
  <2>1. PICK t \in Turn : IsEarly(t.id) /\ Line' = Append(Line, t)
    BY <1>3 DEF LineGrows
  <2>2. \A k \in DOMAIN Line : Line[k].id # t.id
    BY <1>1, <2>1 DEF BornOK, Named, Waits, Turn
  <2>3. (i \in DOMAIN Line /\ Line'[i] = Line[i]) \/ (i = Len(Line) + 1 /\ Line'[i] = t)
    BY <1>1, <2>1, AppendIndex
  <2>4. (j \in DOMAIN Line /\ Line'[j] = Line[j]) \/ (j = Len(Line) + 1 /\ Line'[j] = t)
    BY <1>1, <2>1, AppendIndex
  <2> QED
    BY <1>1, <2>2, <2>3, <2>4 DEF OneTurn
<1>4. CASE LineReplays
  <2> DEFINE r == Replayed(journal)
  <2>1. HeadIs("replay") /\ Line' = Line \o r
    BY <1>4 DEF LineReplays, Replay
  <2>2. Replaying
    BY <1>1, <2>1, HeadType DEF Replaying
  <2>3. \A k \in DOMAIN Line : Line[k].id \notin RangeOf(journal)
    BY <1>1, <2>2 DEF Fresh
  <2>4. /\ r \in Seq(Turn) /\ Len(r) = Len(journal)
        /\ \A k \in 1..Len(journal) : r[k].id = journal[k]
    BY <1>1 DEF Replayed
  <2> HIDE DEF r
  <2>5. ASSUME NEW p \in DOMAIN Line'
        PROVE  \/ /\ p \in DOMAIN Line /\ Line'[p] = Line[p]
                  /\ Line'[p].id \notin RangeOf(journal)
               \/ /\ p - Len(Line) \in DOMAIN journal
                  /\ journal[p - Len(Line)] = Line'[p].id
                  /\ p \in Int
    <3>1. p \in 1..(Len(Line) + Len(r))
      BY <1>1, <2>1, <2>4
    <3>2. CASE p \in 1..Len(Line)
      <4>1. Line'[p] = Line[p] /\ p \in DOMAIN Line
        BY <1>1, <2>1, <2>4, <3>2
      <4> QED
        BY <2>3, <4>1
    <3>3. CASE p \notin 1..Len(Line)
      <4>1. p - Len(Line) \in 1..Len(r) /\ Line'[p] = r[p - Len(Line)]
        BY <1>1, <2>1, <2>4, <3>1, <3>3
      <4> QED
        BY <1>1, <2>4, <3>1, <4>1
    <3> QED
      BY <3>2, <3>3
  <2>6. CASE i \in DOMAIN Line /\ Line'[i] = Line[i] /\ Line'[i].id \notin RangeOf(journal)
    <3>1. j \in DOMAIN Line /\ Line'[j] = Line[j]
      BY <2>5, <2>6 DEF RangeOf
    <3> QED
      BY <1>1, <2>6, <3>1 DEF OneTurn
  <2>7. CASE /\ i - Len(Line) \in DOMAIN journal /\ journal[i - Len(Line)] = Line'[i].id
             /\ i \in Int
    <3>1. /\ j - Len(Line) \in DOMAIN journal /\ journal[j - Len(Line)] = Line'[j].id
          /\ j \in Int
      BY <2>5, <2>7 DEF RangeOf
    <3>2. i - Len(Line) = j - Len(Line)
      BY <1>1, <2>7, <3>1 DEF OnceOK
    <3> QED
      BY <1>1, <2>7, <3>1, <3>2
  <2> QED
    BY <2>5, <2>6, <2>7
<1> QED
  BY <1>1, <1>2, <1>3, <1>4, LineStep

\* A message without a turn is in no place, and neither is one that a replay
\* is about to bring back.
LEMMA Nowhere ==
  ASSUME PlaceInv, NEW m \in Ids, IsEarly(m) \/ (LineReplays /\ m \in RangeOf(journal))
  PROVE  ~Waits(m) /\ ~Replies(m) /\ ~Gone(m)
<1>1. IInv /\ BornOK /\ Untouched /\ TypeOK
  BY DEF PlaceInv, OrderInv, TurnInv, IInv
<1>2. CASE IsEarly(m)
  <2>1. ~Waits(m) /\ ~Works(m) /\ fate[m] \notin Over
    BY <1>1, <1>2 DEF BornOK, Named
  <2>2. ~Replies(m)
    BY <2>1 DEF Works, Replies
  <2>3. ~Gone(m)
    BY <1>1, <2>1 DEF IInv, OverOK, IsOver, Gone, IdsOf
  <2> QED
    BY <2>1, <2>2, <2>3
<1>3. CASE LineReplays /\ m \in RangeOf(journal)
  <2>1. Replaying
    BY <1>1, <1>3, HeadType DEF LineReplays, Replay, Replaying
  <2> QED
    BY <1>1, <1>3, <2>1 DEF Untouched
<1> QED
  BY <1>2, <1>3

\* A reply that begins: the message waited, and no longer does.
LEMMA RepliesStep ==
  ASSUME PlaceInv, [Next]_vars, NEW m \in Ids, Replies(m)'
  PROVE  \/ Replies(m)
         \/ Waits(m) /\ ~Waits(m)' /\ AgentSettled
<1>1. IInv /\ DownOK /\ OneTurn /\ TypeOK
  BY DEF PlaceInv, OrderInv, TurnInv, IInv
<1>2. PICK t \in Turn : t.id = m /\ post'[t] \in Delivering
  BY DEF Replies, Delivering
<1>3. CASE post[t] \in Delivering
  BY <1>2, <1>3 DEF Replies, Delivering
<1>4. CASE AgentSettled /\ activeTurn = t
  <2>1. activeTurn' = NoTurn /\ UNCHANGED pendingTurns
    BY <1>4 DEF AgentSettled
  <2>2. Waits(t.id) /\ ~Waits(t.id)'
    BY <1>1, <1>4, <2>1, ActiveLeft
  <2> QED
    BY <1>2, <1>4, <2>2
<1> QED
  BY <1>1, <1>2, <1>3, <1>4, ReplyStarts

\* to one reply,
LEMMA OneReplyStep ==
  ASSUME PlaceInv, [Next]_vars
  PROVE  OneReply'
<1>1. IInv /\ DownOK /\ OneReply /\ OnePlace /\ TypeOK
  BY DEF PlaceInv, OrderInv, TurnInv, IInv
<1> SUFFICES ASSUME NEW t \in Turn, NEW u \in Turn, t.id = u.id,
                    post'[t] \in Delivering, post'[u] \in Delivering
             PROVE  t = u
  BY DEF OneReply
<1>2. post[t] \in Delivering \/ activeTurn = t
  BY <1>1, ReplyStarts
<1>3. post[u] \in Delivering \/ activeTurn = u
  BY <1>1, ReplyStarts
<1>4. ASSUME NEW a \in Turn, NEW b \in Turn, a.id = b.id, activeTurn = a,
             post[b] \in Delivering
      PROVE  FALSE
  <2>1. Waits(a.id)
    BY <1>1, <1>4, LineHolds
  <2>2. Replies(a.id)
    BY <1>4 DEF Replies, Delivering
  <2> QED
    BY <1>1, <2>1, <2>2 DEF OnePlace, Turn
<1> QED
  BY <1>1, <1>2, <1>3, <1>4 DEF OneReply

\* and to one of both.
LEMMA OnePlaceStep ==
  ASSUME PlaceInv, [Next]_vars
  PROVE  OnePlace'
<1>1. /\ IInv /\ BuildOK /\ FlightOK /\ OneTurn /\ OneReply /\ OnePlace
  BY DEF PlaceInv, OrderInv, TurnInv
<1> SUFFICES ASSUME NEW m \in Ids
             PROVE  /\ ~(Waits(m)' /\ Replies(m)')
                    /\ ~(Waits(m)' /\ Gone(m)')
                    /\ ~(Replies(m)' /\ Gone(m)')
  BY DEF OnePlace
<1>2. Waits(m)' => Waits(m) \/ (~Waits(m) /\ ~Replies(m) /\ ~Gone(m))
  BY <1>1, WaitsStep, Nowhere
<1>3. Replies(m)' => Replies(m) \/ (Waits(m) /\ ~Waits(m)' /\ AgentSettled)
  BY RepliesStep
<1>4. Gone(m)' => \/ Gone(m)
                  \/ Waits(m) /\ ~Waits(m)' /\ UNCHANGED post
                  \/ Replies(m) /\ ~Replies(m)'
  BY <1>1, GoneStep
<1>5. ~(Waits(m) /\ Replies(m)) /\ ~(Waits(m) /\ Gone(m)) /\ ~(Replies(m) /\ Gone(m))
  BY <1>1 DEF OnePlace
<1>6. UNCHANGED post => (Replies(m)' <=> Replies(m))
  BY DEF Replies
<1> QED
  BY <1>2, <1>3, <1>4, <1>5, <1>6, Zenon

\* While a replay is pending, nobody works on what it will bring.
LEMMA UntouchedStep ==
  ASSUME PlaceInv, [Next]_vars
  PROVE  Untouched'
<1>1. /\ IInv /\ BuildOK /\ BornOK /\ DownOK /\ FlightOK /\ OneTurn /\ OneReply /\ Untouched
      /\ ReplayFirst
  BY DEF PlaceInv, OrderInv, TurnInv
<1> SUFFICES ASSUME Replaying', NEW m \in Ids, m \in RangeOf(journal')
             PROVE  ~Waits(m)' /\ ~Replies(m)' /\ ~Gone(m)'
  BY DEF Untouched
<1>2. CASE Login
  <2>1. Line' = << >> /\ UNCHANGED <<post, hist>>
        /\ (\A t \in Turn : post[t] = "none") /\ (\A n \in Ids : hist[n] = << >>)
        /\ DOMAIN chain' = {1} /\ chain'[1].op = "replay"
    BY <1>1, <1>2, LoginStep
  <2>2. ~Waits(m)'
    BY <2>1 DEF Waits
  <2>3. ~Replies(m)'
    BY <2>1 DEF Replies
  <2>4. ~Gone(m)'
    BY <2>1 DEF Gone, IdsOf, RangeOf, SettleOps
  <2> QED
    BY <2>2, <2>3, <2>4
<1>3. CASE ~Login
  <2>1. Replaying /\ journal' = journal /\ ~LineReplays
    BY <1>1, <1>3, AwaitReplay DEF LineReplays
  <2>2. ~Waits(m) /\ ~Replies(m) /\ ~Gone(m) /\ ~IsEarly(m)
    BY <1>1, <2>1 DEF Untouched, BornOK, Named
  <2>3. ~Waits(m)'
    BY <1>1, <2>1, <2>2, WaitsStep
  <2>4. ~Replies(m)'
    BY <2>2, RepliesStep
  <2>5. ~Gone(m)'
    BY <1>1, <2>2, GoneStep
  <2> QED
    BY <2>3, <2>4, <2>5
<1> QED
  BY <1>2, <1>3

\* A message is classified when it arrives.
LEMMA KindStep ==
  ASSUME IInv, [Next]_vars, NEW m \in Ids
  PROVE  kind'[m] = kind[m] \/ IsEarly(m)
<1> USE DEF bridgeVars, dispatchVars, pumpVars, postVars, diskVars, piVars
<1>1. CASE \E n \in Ids, k \in Kinds : Arrive(n, k)
  <2>1. PICK n \in Ids, k \in Kinds : Arrive(n, k)
    BY <1>1
  <2>2. kind[n] = "none" /\ kind' = [kind EXCEPT ![n] = k]
    BY <2>1 DEF Arrive
  <2>3. IsEarly(n)
    BY <2>2 DEF IInv, FoldOK, CallOK, IsEarly, Early
  <2> QED
    BY <2>2, <2>3 DEF IInv, TypeOK
<1>2. CASE DispatchStep \/ PumpStep \/ ReplyStep \/ PiStep
  BY <1>2
     DEF DispatchStep, PumpStep, ReplyStep, PiStep, Welcomed, SkipFolded, Built,
         TypingDone, Accepted, Refused, GiveUp, ReplySent, AttachmentsSent,
         ReplyFailed, AgentStart, AgentEnd, AgentSettled
<1>3. CASE DiskStep
  BY <1>3
     DEF DiskStep, Admit, SettleFolded, SettleDropped, SettleAnswered, Replay, Discard,
         Compact
<1>4. CASE \/ TuiRun \/ Login \/ LoginFailed \/ StartFailed \/ Stop \/ Stopped
           \/ SessionExpired \/ Crash \/ UNCHANGED vars
  BY <1>4
     DEF TuiRun, Login, LoginFailed, StartFailed, Stop, Stopped, SessionExpired, Crash, vars
<1> QED
  BY <1>1, <1>2, <1>3, <1>4 DEF Next, Environment

\* The entry of a message that is not gone stays.
LEMMA EntryStays ==
  ASSUME PlaceInv, [Next]_vars, NEW m \in Ids, m \in RangeOf(journal), ~Gone(m)
  PROVE  m \in RangeOf(journal')
<1>1. IInv /\ NoDiscard /\ journal \in Seq(Ids)
  BY DEF PlaceInv, OrderInv, TurnInv, IInv, TypeOK
<1>2. CASE JournalAdmits
  <2>1. Head(chain).turn.id \in Ids /\ journal' = Append(journal, Head(chain).turn.id)
    BY <1>1, <1>2, HeadTurn DEF JournalAdmits, Admit
  <2> QED
    BY <1>1, <2>1, RangeAppended
<1>3. CASE JournalSettles
  <2>1. PICK op \in SettleOps : HeadIs(op)
    BY <1>3 DEF JournalSettles
  <2>2. Head(chain) \in RangeOf(chain) /\ Head(chain).op \in SettleOps
    BY <1>1, <2>1, HeadType
  <2>3. Head(chain).turn.id # m
    BY <2>2 DEF Gone
  <2> QED
    BY <1>1, <1>3, <2>3, SettledType DEF JournalSettles
<1>4. ~JournalEmpties
  BY <1>1, HeadType DEF JournalEmpties, NoDiscard
<1> QED
  BY <1>1, <1>2, <1>3, <1>4, JournalStep

\* Who waits or is answered keeps its entry.
LEMMA KeptStep ==
  ASSUME PlaceInv, [Next]_vars, FALSE \notin DiskResults
  PROVE  KeptOK'
<1>1. /\ IInv /\ BuildOK /\ BornOK /\ OnePlace /\ KeptOK /\ TypeOK
      /\ journal \in Seq(Ids) /\ BridgeAssumption
  BY BridgeAssumption DEF PlaceInv, OrderInv, TurnInv, IInv, TypeOK
<1> SUFFICES ASSUME NEW m \in Ids, kind'[m] = "text", Waits(m)' \/ Replies(m)'
             PROVE  m \in RangeOf(journal')
  BY DEF KeptOK
<1>2. CASE Waits(m) \/ Replies(m)
  <2>1. ~IsEarly(m)
    BY <1>2, Nowhere
  <2>2. m \in RangeOf(journal)
    BY <1>1, <1>2, <2>1, KindStep DEF KeptOK
  <2>3. ~Gone(m)
    BY <1>1, <1>2 DEF OnePlace
  <2> QED
    BY <2>2, <2>3, EntryStays
<1>3. CASE ~Waits(m) /\ ~Replies(m)
  <2>1. Waits(m)'
    BY <1>3, RepliesStep
  <2>2. CASE LineReplays /\ m \in RangeOf(journal)
    BY <2>2 DEF LineReplays, Replay
  <2>3. CASE \E ok \in DiskResults : Admit(ok) /\ Head(chain).turn.id = m
    <3>1. Admit(TRUE)
      <4>1. DiskResults \subseteq {TRUE}
        BY <1>1 DEF BridgeAssumption
      <4> QED
        BY <2>3, <4>1
    <3>2. journal' = Append(journal, m)
      BY <2>3, <3>1 DEF Admit
    <3> QED
      BY <1>1, <3>2, RangeAppended
  <2> QED
    BY <1>1, <1>3, <2>1, <2>2, <2>3, WaitsStep DEF Joins
<1> QED
  BY <1>2, <1>3

\* Without expiries there is none.
LEMMA NoExpiry ==
  ASSUME TypeOK, Expiries = 0
  PROVE  ~SessionExpired
BY DEF TypeOK, SessionExpired, Budgets

\* So nobody discards the journal.
LEMMA NoDiscardStep ==
  ASSUME PlaceInv, [Next]_vars, Expiries = 0
  PROVE  NoDiscard'
<1>1. IInv /\ DownOK /\ NoDiscard /\ ~SessionExpired /\ chain \in Seq(ChainOp)
  BY NoExpiry DEF PlaceInv, OrderInv, TurnInv, IInv, TypeOK
<1>2. CASE Crash
  BY <1>2 DEF Crash, NoDiscard, RangeOf
<1>3. CASE Login
  BY <1>1, <1>3, LoginStep DEF NoDiscard, RangeOf
<1>4. CASE ~Crash /\ ~Login
  <2>1. PICK q \in Seq(ChainOp) :
          /\ ChainRest(q)
          /\ chain' = q \/ \E o \in ChainOp : chain' = Append(q, o) /\ o.op # "discard"
    BY <1>1, <1>4, ChainStep DEF ChainStays
  <2>2. RangeOf(q) \subseteq RangeOf(chain)
    <3>1. q = chain \/ (chain # << >> /\ q = Tail(chain))
      BY <2>1 DEF ChainRest
    <3> QED
      BY <1>1, <3>1, RangeTail
  <2>3. CASE chain' = q
    BY <1>1, <2>2, <2>3 DEF NoDiscard
  <2>4. ASSUME NEW o \in ChainOp, chain' = Append(q, o), o.op # "discard" PROVE NoDiscard'
    <3>1. RangeOf(chain') = RangeOf(q) \cup {o}
      BY <2>4, RangeAppended
    <3> QED
      BY <1>1, <2>2, <2>4, <3>1 DEF NoDiscard
  <2> QED
    BY <2>1, <2>3, <2>4
<1> QED
  BY <1>2, <1>3, <1>4

\* At the start no message has a place.
LEMMA PlaceInit == Init => PlaceInv
<1> SUFFICES ASSUME Init PROVE PlaceInv
  OBVIOUS
<1>1. OrderInv /\ FlightOK
  BY OrderInit, FlightInit
<1>2. Line = << >> /\ chain = << >> /\ journal = << >>
      /\ (\A t \in Turn : post[t] = "none") /\ (\A n \in Ids : hist[n] = << >>)
  BY DEF Init, Line
<1>3. \A m \in Ids : ~Waits(m) /\ ~Replies(m) /\ ~Gone(m)
  BY <1>2 DEF Waits, Replies, Gone, IdsOf, RangeOf
<1>4. OneTurn /\ OneReply /\ NoDiscard
  BY <1>2 DEF OneTurn, OneReply, NoDiscard, RangeOf, Delivering
<1> QED
  BY <1>1, <1>3, <1>4 DEF PlaceInv, OnePlace, Untouched, KeptOK

\* No calm step breaks the invariant.
LEMMA PlaceStep ==
  ASSUME PlaceInv, [Next]_vars, Calm
  PROVE  PlaceInv'
<1>1. OrderInv /\ FlightOK /\ IInv
  BY DEF PlaceInv, OrderInv, TurnInv
<1>2. OrderInv' /\ FlightOK'
  BY <1>1, OrderStep, FlightStep DEF Calm
<1> QED
  BY <1>2, OneTurnStep, OneReplyStep, OnePlaceStep, UntouchedStep, KeptStep,
     NoDiscardStep
     DEF PlaceInv, Calm

\* A crash can never lose a queued text turn: while the bridge or pi works on
\* it, its entry is in the journal, whatever pi refuses, whatever is stopped,
\* folded or dropped and however often the process died before.
THEOREM QueuedIsDurable ==
  ASSUME Disconnects = 0, StartFailures = 0, TuiRuns = 0, Expiries = 0,
         FALSE \notin DiskResults
  PROVE  Spec => []Durable
<1>1. PlaceInv /\ [Next]_vars => PlaceInv'
  BY PlaceStep DEF Calm, Steady, Undisturbed
<1>2. PlaceInv => Durable
  <2> SUFFICES ASSUME PlaceInv, NEW t \in Turn, Held(t), Journaled(t)
               PROVE  t.id \in RangeOf(journal)
    BY DEF Durable
  <2>1. TypeOK /\ FlightOK /\ KeptOK
    BY DEF PlaceInv, OrderInv, TurnInv, IInv
  <2>2. \/ t = activeTurn \/ t \in RangeOf(pendingTurns)
        \/ post[t] \in {"text", "files"}
    BY <2>1 DEF Held, FlightOK
  <2>3. Waits(t.id) \/ Replies(t.id)
    BY <2>1, <2>2, LineHolds DEF Replies
  <2> QED
    BY <2>1, <2>3 DEF KeptOK, Journaled, Turn
<1> QED
  BY PlaceInit, <1>1, <1>2, PTL DEF Spec

-----------------------------------------------------------------------------
\* A step asks for a discarding only when the session expires, and forgets one
\* that is asked for only when it ends or the process dies.
LEMMA DiscardingStep ==
  ASSUME IInv, [Next]_vars, ~SessionExpired
  PROVE  \/ Discarding' = Discarding
         \/ /\ (\E ok \in DiskResults : Discard(ok)) \/ Crash
            /\ Discarding /\ Discarding' = FALSE
<1>1. chain \in Seq(ChainOp)
  BY DEF IInv, TypeOK
<1>2. CASE Crash
  BY <1>2 DEF Crash, Discarding, RangeOf
<1>3. CASE Login
  <2>1. Op("replay", NoTurn, 0) \in ChainOp /\ Op("replay", NoTurn, 0).op # "discard"
    BY BridgeAssumption, OpType DEF JournalOps, Op
  <2>2. RangeOf(chain') = RangeOf(chain) \cup {Op("replay", NoTurn, 0)}
    BY <1>1, <1>3, <2>1, RangeAppended DEF Login
  <2> QED
    BY <2>1, <2>2 DEF Discarding
<1>4. CASE ~Crash /\ ~Login
  <2>1. PICK q \in Seq(ChainOp) :
          /\ ChainRest(q)
          /\ chain' = q \/ \E o \in ChainOp : chain' = Append(q, o) /\ o.op # "discard"
    BY <1>4, ChainStep DEF ChainStays
  <2> DEFINE Asks(s) == \E o \in RangeOf(s) : o.op = "discard"
  <2>2. Asks(chain') <=> Asks(q)
    <3>1. CASE chain' = q
      BY <3>1
    <3>2. ASSUME NEW o \in ChainOp, chain' = Append(q, o), o.op # "discard"
          PROVE  Asks(chain') <=> Asks(q)
      BY <3>2, RangeAppended
    <3> QED
      BY <2>1, <3>1, <3>2
  <2>3. Asks(q) => Asks(chain)
    <3>1. q = chain \/ (chain # << >> /\ q = Tail(chain))
      BY <2>1 DEF ChainRest
    <3> QED
      BY <1>1, <3>1, RangeTail
  <2>4. Asks(chain) => Asks(q) \/ \E ok \in DiskResults : Discard(ok)
    <3>1. CASE q = chain
      BY <3>1
    <3>2. CASE chain # << >> /\ q = Tail(chain) /\ Head(chain).op # "discard"
      <4> SUFFICES ASSUME NEW i \in DOMAIN chain, chain[i].op = "discard"
                   PROVE  chain[i] \in RangeOf(q)
        BY DEF RangeOf
      <4>1. i # 1 /\ i \in 1..Len(chain)
        BY <1>1, <3>2
      <4>2. i - 1 \in DOMAIN Tail(chain) /\ Tail(chain)[i - 1] = chain[(i - 1) + 1]
        BY <1>1, <3>2, <4>1
      <4>3. (i - 1) + 1 = i
        BY <4>1
      <4> QED
        BY <3>2, <4>2, <4>3 DEF RangeOf
    <3> QED
      BY <2>1, <3>1, <3>2, Zenon DEF ChainRest
  <2> QED
    BY <2>2, <2>3, <2>4 DEF Discarding
<1> QED
  BY <1>2, <1>3, <1>4

\* Only the expiry of the session is counted as one.
LEMMA ExpiriesStep ==
  ASSUME TypeOK, [Next]_vars, ~SessionExpired
  PROVE  used'["expiries"] = used["expiries"]
<1> USE DEF TypeOK, Budgets, Spend
<1>1. CASE DispatchStep
  BY <1>1 DEF DispatchStep, Welcomed, SkipFolded, Built, TypingDone
<1>2. CASE PumpStep
  BY <1>2 DEF PumpStep, Accepted, Refused, GiveUp
<1>3. CASE ReplyStep
  BY <1>3 DEF ReplyStep, ReplySent, AttachmentsSent, ReplyFailed
<1>4. CASE DiskStep
  BY <1>4 DEF DiskStep, Admit, SettleFolded, SettleDropped, SettleAnswered, Replay,
              Discard, Compact
<1>5. CASE PiStep
  BY <1>5 DEF PiStep, AgentStart, AgentEnd, AgentSettled
<1>6. CASE Environment
  BY <1>6 DEF Environment, Arrive, TuiRun, Login, LoginFailed, StartFailed, Stop,
              Stopped, Crash
<1>7. CASE UNCHANGED vars
  BY <1>7 DEF vars
<1> QED
  BY <1>1, <1>2, <1>3, <1>4, <1>5, <1>6, <1>7 DEF Next

\* The bridge implements TurnPromise, whatever fails, expires, disconnects or
\* crashes: what the journal would replay is owed from the admission of a
\* message on, once, and until its lifecycle has ended or a discarding that an
\* expiry of the session has asked for is carried out.
THEOREM KeepsPromise == Spec => ImplementsPromise
<1>1. Init => Promise!Init
  <2> SUFFICES ASSUME Init PROVE Promise!Init
    OBVIOUS
  <2>1. RangeOf(journal) = {} /\ Discarding = FALSE
    BY DEF Init, RangeOf, Discarding
  <2>2. {m \in Ids : fate[m] \in Over} = {}
    BY DEF Init, Over
  <2>3. used["expiries"] = 0
    BY DEF Init, Budgets
  <2> QED
    BY <2>1, <2>2, <2>3 DEF Promise!Init
<1>2. TurnInv /\ [Next]_vars => [Promise!Next]_(Promise!promiseVars)
  <2> SUFFICES ASSUME TurnInv, [Next]_vars
               PROVE  Promise!Next \/ UNCHANGED Promise!promiseVars
    OBVIOUS
  <2> DEFINE owed == RangeOf(journal)
             over == {m \in Ids : fate[m] \in Over}
             expiries == used["expiries"]
  <2>1. IInv /\ TypeOK /\ BornOK /\ OnceOK /\ journal \in Seq(Ids) /\ fate \in [Ids -> Fates]
    BY DEF TurnInv, IInv, TypeOK, Fates
  <2>2. CASE SessionExpired
    <3>1. UNCHANGED <<owed, over>> /\ expiries' = expiries + 1
      BY <2>1, <2>2 DEF SessionExpired, Spend, TypeOK, Budgets
    <3>2. Discarding' = TRUE
      <4>1. Op("discard", NoTurn, 0) \in ChainOp /\ Op("discard", NoTurn, 0).op = "discard"
        BY BridgeAssumption, OpType DEF JournalOps, Op
      <4>2. RangeOf(chain') = RangeOf(chain) \cup {Op("discard", NoTurn, 0)}
        BY <2>1, <2>2, <4>1, RangeAppended DEF SessionExpired, TypeOK
      <4> QED
        BY <4>1, <4>2 DEF Discarding
    <3>3. Promise!Expire
      BY <3>1, <3>2 DEF Promise!Expire
    <3> QED
      BY <3>3 DEF Promise!Next
  <2>3. CASE Crash
    <3>1. UNCHANGED <<owed, over>> /\ expiries' = expiries
      BY <2>1, <2>3 DEF Crash, Spend, TypeOK, Budgets
    <3>2. Discarding' = FALSE
      BY <2>3 DEF Crash, Discarding, RangeOf
    <3>3. Promise!NotCancelled
      BY <3>1, <3>2 DEF Promise!NotCancelled
    <3> QED
      BY <3>3 DEF Promise!Next
  <2>4. CASE \E ok \in DiskResults : Discard(ok)
    <3>1. UNCHANGED <<over, expiries>> /\ Discarding = TRUE
      <4>1. Head(chain) \in RangeOf(chain) /\ Head(chain).op = "discard"
        BY <2>1, <2>4, HeadType DEF Discard
      <4> QED
        BY <2>4, <4>1 DEF Discard, Discarding
    <3>2. CASE journal' = << >>
      <4>1. RangeOf(journal') = {}
        BY <3>2 DEF RangeOf
      <4>2. Discarding' \in BOOLEAN
        BY DEF Discarding
      <4>3. Promise!Cancel
        BY <3>1, <4>1, <4>2 DEF Promise!Cancel
      <4> QED
        BY <4>3 DEF Promise!Next
    <3>3. CASE journal' = journal
      <4>1. CASE Discarding' = FALSE
        <5>1. Promise!NotCancelled
          BY <3>1, <3>3, <4>1 DEF Promise!NotCancelled
        <5> QED
          BY <5>1 DEF Promise!Next
      <4>2. CASE Discarding' = TRUE
        BY <3>1, <3>3, <4>2 DEF Promise!promiseVars
      <4> QED
        BY <4>1, <4>2 DEF Discarding
    <3> QED
      BY <2>4, <3>2, <3>3 DEF Discard
  <2> SUFFICES ASSUME ~SessionExpired, ~Crash, ~\E ok \in DiskResults : Discard(ok)
               PROVE  Promise!Next \/ UNCHANGED Promise!promiseVars
    BY <2>2, <2>3, <2>4
  <2>5. Discarding' = Discarding /\ expiries' = expiries
    BY <2>1, DiscardingStep, ExpiriesStep
  <2>6. CASE UNCHANGED journal
    <3>1. over \subseteq over' /\ over' \in SUBSET Ids
      BY <2>1, OverStays
    <3>2. PICK S \in SUBSET (1..Messages) : over' = over \cup S
      BY <3>1 DEF Ids
    <3>3. Promise!End(S)
      BY <2>5, <2>6, <3>2 DEF Promise!End
    <3> QED
      BY <3>3 DEF Promise!Next
  <2>7. CASE JournalAdmits /\ UNCHANGED fate
    <3>1. PICK m \in Ids : m = Head(chain).turn.id /\ pc[m] = "admit"
      BY <2>1, <2>7, HeadTurn DEF JournalAdmits, Admit
    <3>2. journal' = Append(journal, m) /\ m \notin owed \cup over
      BY <2>1, <2>7, <3>1 DEF JournalAdmits, BornOK, IsEarly, Early, Named
    <3>3. RangeOf(journal') = RangeOf(journal) \cup {m}
      BY <2>1, <3>1, <3>2, RangeAppended
    <3>4. Promise!Accept(m)
      BY <2>5, <2>7, <3>2, <3>3 DEF Promise!Accept
    <3> QED
      BY <3>1, <3>4 DEF Promise!Next, Ids
  <2>8. CASE JournalSettles /\ UNCHANGED fate
    <3>1. PICK m \in Ids : m = Head(chain).turn.id /\ fate[m] \in Over
      BY <2>1, <2>8, HeadTurn DEF JournalSettles
    <3>2. journal' = Settled(journal, m)
      BY <2>8, <3>1 DEF JournalSettles
    <3>3. RangeOf(journal') = RangeOf(journal) \ {m}
      <4>1. RangeOf(journal') \subseteq RangeOf(journal) \ {m}
        BY <2>1, <3>2, SettledOrder DEF RangeOf, OnceOK
      <4>2. RangeOf(journal) \ {m} \subseteq RangeOf(journal')
        BY <2>1, <3>2, SettledType
      <4> QED
        BY <4>1, <4>2
    <3>4. CASE m \in owed
      <4>1. Promise!Forget(m)
        BY <2>5, <2>8, <3>1, <3>3, <3>4 DEF Promise!Forget
      <4> QED
        BY <3>1, <4>1 DEF Promise!Next, Ids
    <3>5. CASE m \notin owed
      BY <2>5, <2>8, <3>3, <3>5 DEF Promise!promiseVars
    <3> QED
      BY <3>4, <3>5
  <2>9. ~JournalEmpties
    BY DEF JournalEmpties
  <2> QED
    BY <2>1, <2>6, <2>7, <2>8, <2>9, JournalStep
<1>3. TurnInv /\ [Next]_vars => TurnInv'
  BY TurnStep
<1> QED
  BY <1>1, <1>2, <1>3, TurnInit, PTL DEF Spec, ImplementsPromise, Promise!Spec
=============================================================================
