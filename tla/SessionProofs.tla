--------------------------- MODULE SessionProofs ----------------------------
(***************************************************************************)
(* Proofs about Session, for any number of sessions, calls, messages and   *)
(* failures.  That the extension forgets no exemption of the confirmation  *)
(* gate is inductive as it stands: what it held is given back, or stays    *)
(* because the gate fails, whenever it is replaced or forgotten.           *)
(*                                                                         *)
(* The other properties are about executions in which nothing overlaps,    *)
(* and need all of SessionInv: which call is under way and for which       *)
(* instance, what the flags say meanwhile, and where each /new is.         *)
(***************************************************************************)
EXTENDS Session, TLAPS

CallStates == {"none", "dialog", "reconnect", "disconnect", "login", "replay", "done"}
NewsStates == {"none", "refused", "pending", "asked", "answered", "lost", "dropped"}

Bounds == Instances \in Nat \ {0} /\ Calls \in Nat /\ News \in Nat

Active(l) == call[l] \notin {"none", "done"}

TypeOK ==
  /\ current \in 1..Instances
  /\ hasBot \in [1..Instances -> BOOLEAN] /\ connected \in [1..Instances -> BOOLEAN]
  /\ request \in 0..News /\ commands \in Nat
  /\ restart \in BOOLEAN /\ pendingAck \in 0..News
  /\ call \in [1..Calls -> CallStates] /\ by \in [1..Calls -> 0..Instances]
  /\ auto \in [1..Calls -> BOOLEAN]
  /\ switch \in {"no", "before", "stopping", "config"}
  /\ switch \in {"before", "stopping"} => current < Instances
  /\ cause \in [1..Instances -> 0..News]
  /\ starting \subseteq 1..News
  /\ news \in [1..News -> NewsStates] /\ to \in [1..News -> 0..Instances]
  /\ acks \subseteq (1..Instances) \X (1..News)
  /\ raced \in BOOLEAN

\* Calls, messages and acknowledgements belong to instances there have been.
Behind ==
  /\ \A l \in 1..Calls : by[l] <= current
  /\ \A m \in 1..News : to[m] <= current
  /\ \A a \in acks : a[1] <= current

\* A call that session_start has made shows no dialog.
Begun ==
  /\ \A l \in 1..Calls : auto[l] => call[l] \in {"login", "replay", "done"}
  /\ \A l \in 1..Calls : call[l] # "none" => by[l] # Nothing
  /\ \A m \in starting : news[m] # "none"

\* The rest holds as long as nothing has overlapped.  One call at a time, of the
\* instance in use, and none while the session is replaced:
Alone ==
  /\ \A k, l \in 1..Calls : Active(k) /\ Active(l) => k = l
  /\ \A l \in 1..Calls : Active(l) => switch = "no" /\ by[l] = current

\* what stops has given the exemption back, unless the gate failed;
Held == arms \ stuck

GateKept ==
  /\ Held # {} => connected[current]
  /\ switch = "stopping" => Held = {}
  /\ \A l \in 1..Calls : call[l] \in {"reconnect", "disconnect"} => Held = {}

\* the flags are those of the instance being made, or of the call it makes;
AckKept ==
  /\ switch \in {"before", "stopping"} => pendingAck = cause[current + 1]
  /\ switch = "config" => pendingAck = cause[current]
  /\ \A l \in 1..Calls : Active(l) /\ auto[l] => pendingAck = cause[current]
  /\ pendingAck # Nothing => switch # "no" \/ \E l \in 1..Calls : Active(l) /\ auto[l]
  /\ restart <=> switch # "no" /\ pendingAck # Nothing

\* calls and acknowledgements have been made for a /new;
MadeFor ==
  /\ \A l \in 1..Calls : auto[l] => cause[by[l]] # Nothing
  /\ \A a \in acks : cause[a[1]] = a[2]

\* a /new under way finds the bot it came through;
NewHere == commands > 0 \/ \E m \in starting : to[m] = current

BotStays ==
  /\ NewHere => hasBot[current] /\ switch # "config" /\ \A l \in 1..Calls : ~Active(l)
  /\ switch = "before" /\ cause[current + 1] # Nothing => hasBot[current]

\* and a /new that is not decided yet has the slot and a command to come, or is
\* the one to be acknowledged.
NewsKept == \A m \in 1..News :
  /\ news[m] # "dropped"
  /\ news[m] = "asked" => m = pendingAck
  /\ news[m] = "pending" => m = request /\ to[m] = current /\ switch = "no"
  /\ news[m] = "pending" => m \in starting \/ commands > 0

Quiet == Alone /\ GateKept /\ AckKept /\ MadeFor /\ BotStays /\ NewsKept

Order == TypeOK /\ Behind /\ Begun /\ (~raced => Quiet)

SessionInv == NoneLeaks /\ Order

-----------------------------------------------------------------------------
\* releaseConfirmGate leaves nothing that is counted.
LEMMA ReleaseKeeps == ASSUME NoneLeaks, Release PROVE NoneLeaks'
  BY DEF NoneLeaks, Release, MayStay

\* What is held then is nothing.
LEMMA ReleaseHolds == ASSUME NoneLeaks, Release PROVE Held' = {}
  BY DEF NoneLeaks, Release, MayStay, Held

\* The exemption of a call replaces the one that was held.
LEMMA ArmKeeps == ASSUME NoneLeaks, NEW l \in 1..Calls, Arm(l) PROVE NoneLeaks'
  BY DEF NoneLeaks, Arm, MayStay, Nothing

\* A gate that refuses keeps at most what it may.
LEMMA RefusalKeeps == ASSUME NoneLeaks, NEW l \in 1..Calls, ArmRefused(l) PROVE NoneLeaks'
  BY DEF NoneLeaks, ArmRefused, MayStay, Nothing

\* What leaves the gate alone leaks nothing.
LEMMA GateStays == ASSUME NoneLeaks, UNCHANGED gateVars PROVE NoneLeaks'
  BY DEF NoneLeaks, gateVars

\* The end of a login, in each of its outcomes.
LEMMA LoginKeeps == ASSUME NoneLeaks, LoginFailed \/ LoginDone PROVE NoneLeaks'
<1>1. CASE LoginFailed
  BY <1>1, ReleaseKeeps DEF LoginFailed, NotConnected
<1>2. CASE LoginDone
  <2>1. PICK l \in 1..Calls : NotConnected(l) \/ Arm(l) \/ ArmRefused(l)
    BY <1>2 DEF LoginDone
  <2>2. CASE NotConnected(l)
    BY <2>2, ReleaseKeeps DEF NotConnected
  <2>3. CASE Arm(l)
    BY <2>3, ArmKeeps
  <2>4. CASE ArmRefused(l)
    BY <2>4, RefusalKeeps
  <2> QED BY <2>1, <2>2, <2>3, <2>4
<1> QED BY <1>1, <1>2

\* Every step leaks nothing.
LEMMA StepLeaksNothing == ASSUME NoneLeaks, [Next]_sessionVars PROVE NoneLeaks'
<1>1. CASE LoginFailed \/ LoginDone
  BY <1>1, LoginKeeps
<1>2. CASE StartRejects
  BY <1>2, ReleaseKeeps DEF StartRejects
<1>3. CASE \E option \in {"reconnect", "disconnect", "done"} : Chosen(option)
  BY <1>3, ReleaseKeeps, GateStays DEF Chosen, StopBegins
<1>4. CASE SwitchGoesOn
  BY <1>4, ReleaseKeeps DEF SwitchGoesOn, StopBegins
<1>5. CASE Wechat \/ Stopped \/ Replayed
  BY <1>5, GateStays DEF Wechat, Stopped, Replayed
<1>6. CASE NewMessage \/ RequestAges \/ Dispatched \/ StartingFails \/ Perform
  BY <1>6, GateStays DEF NewMessage, RequestAges, Dispatched, StartingFails, Perform
<1>7. CASE TerminalNew \/ SwitchCancelled \/ Replaced \/ SessionStart \/ SessionStartFails
  BY <1>7, GateStays DEF TerminalNew, SwitchCancelled, Replaced, SessionStart,
                         SessionStartFails
<1>8. CASE UNCHANGED sessionVars
  BY <1>8, GateStays DEF sessionVars
<1> QED BY <1>1, <1>2, <1>3, <1>4, <1>5, <1>6, <1>7, <1>8 DEF Next

\* However logins, stops and sessions overlap, the gate counts no exemption that
\* the extension has forgotten, but for those that a failing call of the gate has
\* left there (startWechat, shutdownBot and releaseConfirmGate of index.ts).
THEOREM GateNeverLeaks == Spec => []NoneLeaks
<1>1. Init => NoneLeaks
  BY DEF Init, NoneLeaks
<1> QED BY <1>1, StepLeaksNothing, PTL DEF Spec

-----------------------------------------------------------------------------
\* What a message has become, whatever is given up.
LEMMA OverIs ==
  ASSUME TypeOK, NEW m \in 0..News
  PROVE  /\ Over(m) \in [1..News -> NewsStates]
         /\ \A k \in 1..News : Over(m)[k] = IF k = m /\ news[k] = "pending" THEN "lost"
                                           ELSE news[k]
  BY DEF TypeOK, Over, Nothing, NewsStates

\* What an acknowledgement does.
LEMMA AcknowledgedIs ==
  ASSUME Bounds, TypeOK, NEW l \in 1..Calls, NEW has \in BOOLEAN, Acknowledged(l, has),
         by[l] # Nothing
  PROVE  /\ pendingAck' = Nothing
         /\ news' \in [1..News -> NewsStates]
         /\ \A m \in 1..News : news'[m] = IF m = pendingAck
                                           THEN IF has THEN "answered" ELSE "lost" ELSE news[m]
         /\ acks' \subseteq acks \cup {<<by[l], pendingAck>>}
         /\ pendingAck = Nothing => acks' = acks
         /\ acks' \subseteq (1..Instances) \X (1..News)
<1> DEFINE answer == IF has THEN "answered" ELSE "lost"
<1> USE DEF Bounds
<1>1. /\ by[l] \in 1..Instances /\ pendingAck \in 0..News
      /\ news \in [1..News -> NewsStates]
      /\ acks \subseteq (1..Instances) \X (1..News)
  BY DEF TypeOK, Nothing
<1>2. answer \in NewsStates
  BY DEF NewsStates
<1>3. CASE pendingAck = Nothing
  BY <1>1, <1>3 DEF Acknowledged, Nothing
<1>4. CASE pendingAck # Nothing
  <2>1. /\ news' = [news EXCEPT ![pendingAck] = answer]
        /\ acks' = (IF has THEN acks \cup {<<by[l], pendingAck>>} ELSE acks)
        /\ pendingAck' = Nothing
    BY <1>4 DEF Acknowledged
  <2>2. pendingAck \in 1..News
    BY <1>1, <1>4 DEF Nothing
  <2> HIDE DEF answer
  <2>3. /\ news' \in [1..News -> NewsStates]
        /\ \A m \in 1..News : news'[m] = IF m = pendingAck THEN answer ELSE news[m]
    BY <1>1, <1>2, <2>1
  <2>4. acks' \subseteq (1..Instances) \X (1..News)
    BY <1>1, <2>1, <2>2
  <2> QED BY <1>4, <2>1, <2>3, <2>4 DEF answer
<1> QED BY <1>3, <1>4

\* What leaves all of it alone.
LEMMA Unmoved ==
  ASSUME Order,
         UNCHANGED <<current, hasBot, connected, request, commands, restart, pendingAck, Held,
                     call, by, auto, switch, cause, starting, news, to, acks, raced>>
  PROVE  Order'
<1>1. TypeOK' /\ Behind' /\ Begun'
  BY DEF Order, TypeOK, Behind, Begun
<1>2. ASSUME ~raced' PROVE Quiet'
  <2>1. Quiet /\ \A k \in 1..Calls : Active(k)' <=> Active(k)
    BY <1>2 DEF Order, Active
  <2>2. Alone' /\ GateKept' /\ AckKept' /\ MadeFor'
    BY <2>1 DEF Quiet, Alone, GateKept, AckKept, MadeFor
  <2>3. BotStays' /\ NewsKept'
    BY <2>1 DEF Quiet, BotStays, NewHere, NewsKept
  <2> QED BY <2>2, <2>3 DEF Quiet
<1> QED BY <1>1, <1>2 DEF Order

\* /wechat at the terminal: a call begins when no other is under way.
LEMMA WechatKeeps == ASSUME Bounds, Order, Wechat PROVE Order'
<1> USE DEF Order, Bounds
<1>1. PICK l \in 1..Calls :
        /\ call[l] = "none" /\ switch # "config"
        /\ raced' = (raced \/ Busy \/ NewUnderWay)
        /\ by' = [by EXCEPT ![l] = current]
        /\ \E c \in {"dialog", "login"} : call' = [call EXCEPT ![l] = c]
        /\ hasBot' = hasBot \/ hasBot' = [hasBot EXCEPT ![current] = TRUE]
        /\ UNCHANGED <<current, connected, request, commands, restart, pendingAck, Held, auto,
                       switch, cause, starting, news, to, acks>>
  BY DEF Wechat, FirstCall, moduleVars, gateVars, Held, newVars
<1>2. /\ \A k \in 1..Calls : k # l => call'[k] = call[k] /\ by'[k] = by[k]
      /\ call'[l] \in {"dialog", "login"} /\ by'[l] = current
      /\ ~auto[l]
  BY <1>1 DEF TypeOK, Begun
<1>3. TypeOK'
  <2>1. call' \in [1..Calls -> CallStates] /\ by' \in [1..Calls -> 0..Instances]
    BY <1>1 DEF TypeOK, CallStates
  <2>2. hasBot' \in [1..Instances -> BOOLEAN]
    BY <1>1 DEF TypeOK
  <2>3. raced' \in BOOLEAN
    BY <1>1
  <2> QED BY <1>1, <2>1, <2>2, <2>3 DEF TypeOK
<1>4. Behind' /\ Begun'
  BY <1>1, <1>2 DEF Behind, Begun, TypeOK, Nothing
<1>5. ASSUME ~raced' PROVE Quiet'
  <2>1. /\ ~raced /\ Quiet /\ switch = "no" /\ \A k \in 1..Calls : ~Active(k)
        /\ starting = {} /\ ~(commands > 0)
    BY <1>1, <1>5 DEF Busy, NewUnderWay, Active
  <2>2. \A k \in 1..Calls : k # l => ~Active(k)'
    BY <1>2, <2>1 DEF Active
  <2>3. Alone'
    BY <1>1, <1>2, <2>1, <2>2 DEF Alone
  <2>4. GateKept'
    BY <1>1, <1>2, <2>1 DEF Quiet, GateKept
  <2>5. AckKept'
    BY <1>1, <1>2, <2>1, <2>2 DEF Quiet, AckKept
  <2>6. MadeFor'
    BY <1>1, <1>2, <2>1 DEF Quiet, MadeFor
  <2>7. BotStays'
    BY <1>1, <2>1 DEF BotStays, NewHere
  <2>8. NewsKept'
    BY <1>1, <2>1 DEF Quiet, NewsKept
  <2> QED BY <2>3, <2>4, <2>5, <2>6, <2>7, <2>8 DEF Quiet
<1> QED BY <1>3, <1>4, <1>5

\* The rest of shutdownBot, for a call of the user.
LEMMA StoppedKeeps == ASSUME Bounds, Order, Stopped PROVE Order'
<1> USE DEF Order, Bounds
<1>1. PICK l \in 1..Calls :
        /\ call[l] \in {"reconnect", "disconnect"}
        /\ connected' = [connected EXCEPT ![by[l]] = FALSE]
        /\ hasBot' = [hasBot EXCEPT ![by[l]] = call[l] = "reconnect"]
        /\ \E c \in {"login", "done"} : call' = [call EXCEPT ![l] = c]
        /\ UNCHANGED <<current, request, commands, restart, pendingAck, Held, by, auto,
                       switch, cause, starting, news, to, acks, raced>>
  BY DEF Stopped, moduleVars, gateVars, Held, newVars
<1>2. /\ \A k \in 1..Calls : k # l => call'[k] = call[k]
      /\ call'[l] \in {"login", "done"} /\ Active(l) /\ ~auto[l]
  BY <1>1 DEF TypeOK, Begun, Active
<1>3. TypeOK'
  <2>1. call' \in [1..Calls -> CallStates]
    BY <1>1 DEF TypeOK, CallStates
  <2>2. hasBot' \in [1..Instances -> BOOLEAN] /\ connected' \in [1..Instances -> BOOLEAN]
    BY <1>1 DEF TypeOK
  <2> QED BY <1>1, <2>1, <2>2 DEF TypeOK
<1>4. Behind' /\ Begun'
  BY <1>1, <1>2 DEF Behind, Begun, Active
<1>5. ASSUME ~raced' PROVE Quiet'
  <2>1. ~raced /\ Quiet
    BY <1>1, <1>5
  <2>2. /\ switch = "no" /\ \A k \in 1..Calls : k # l => ~Active(k)
        /\ Held = {} /\ ~NewHere /\ pendingAck = Nothing
    BY <1>1, <1>2, <2>1 DEF Quiet, Alone, GateKept, AckKept, BotStays
  <2>3. \A k \in 1..Calls : Active(k)' => k = l /\ Active(k)
    BY <1>2, <2>2 DEF Active
  <2>4. Alone'
    BY <1>1, <2>1, <2>3 DEF Quiet, Alone
  <2>5. GateKept'
    BY <1>1, <2>2 DEF GateKept
  <2>6. AckKept'
    BY <1>1, <2>1, <2>2, <2>3 DEF Quiet, AckKept
  <2>7. MadeFor'
    BY <1>1, <2>1 DEF Quiet, MadeFor
  <2>8. BotStays'
    BY <1>1, <2>2 DEF BotStays, NewHere
  <2>9. NewsKept'
    BY <1>1, <2>1 DEF Quiet, NewsKept
  <2> QED BY <2>4, <2>5, <2>6, <2>7, <2>8, <2>9 DEF Quiet
<1> QED BY <1>3, <1>4, <1>5

\* A call is over, and acknowledges what session_start made it for.
LEMMA EndKeeps ==
  ASSUME Bounds, Order, NEW l \in 1..Calls, Active(l), call[l] \in {"login", "replay"},
         NEW has \in BOOLEAN,
         call' = [call EXCEPT ![l] = "done"],
         auto[l] => Acknowledged(l, has),
         ~auto[l] => UNCHANGED <<pendingAck, news, acks>>,
         hasBot' \in [1..Instances -> BOOLEAN], connected' \in [1..Instances -> BOOLEAN],
         Held' = {} \/ (Held' = Held /\ connected' = connected),
         UNCHANGED <<current, request, commands, restart, by, auto, switch, cause, starting,
                     to, raced>>
  PROVE  Order'
<1> USE DEF Order, Bounds
<1>1. /\ \A k \in 1..Calls : k # l => call'[k] = call[k]
      /\ call'[l] = "done" /\ by[l] # Nothing
  BY DEF TypeOK, Begun
<1>2. /\ pendingAck' \in {pendingAck, Nothing}
      /\ auto[l] => pendingAck' = Nothing
      /\ news' \in [1..News -> NewsStates]
      /\ \A m \in 1..News : IF m = pendingAck /\ auto[l]
                               THEN news'[m] \in {"answered", "lost"} ELSE news'[m] = news[m]
      /\ acks' \subseteq (1..Instances) \X (1..News)
      /\ acks' = acks
         \/ (auto[l] /\ pendingAck # Nothing
               /\ acks' \subseteq acks \cup {<<by[l], pendingAck>>})
  <2>1. CASE auto[l]
    <3>1. Acknowledged(l, has)
      BY <2>1
    <3> QED BY <2>1, <3>1, <1>1, AcknowledgedIs
  <2>2. CASE ~auto[l]
    <3>1. UNCHANGED <<pendingAck, news, acks>>
      BY <2>2
    <3> QED BY <2>2, <3>1 DEF TypeOK
  <2> QED BY <2>1, <2>2
<1>3. TypeOK'
  <2>1. call' \in [1..Calls -> CallStates]
    BY DEF TypeOK, CallStates
  <2>2. pendingAck' \in 0..News
    BY <1>2 DEF TypeOK, Nothing
  <2> QED BY <1>2, <2>1, <2>2 DEF TypeOK
<1>4. Behind' /\ Begun'
  <2>1. \A a \in acks' : a[1] <= current
    BY <1>2 DEF Behind
  <2>2. \A m \in starting : m \in 1..News /\ news'[m] # "none"
    BY <1>2 DEF Begun, TypeOK
  <2> QED BY <1>1, <2>1, <2>2 DEF Behind, Begun
<1>5. ASSUME ~raced' PROVE Quiet'
  <2>1. ~raced /\ Quiet
    BY <1>5
  <2>2. /\ switch = "no" /\ by[l] = current /\ \A k \in 1..Calls : k # l => ~Active(k)
        /\ ~NewHere /\ ~restart
        /\ auto[l] => pendingAck = cause[by[l]]
        /\ ~auto[l] => pendingAck = Nothing
    BY <2>1 DEF Quiet, Alone, AckKept, BotStays
  <2>3. \A k \in 1..Calls : ~Active(k)'
    BY <1>1, <2>2 DEF Active
  <2>4. pendingAck' = Nothing
    BY <1>2, <2>2
  <2>5. Alone'
    BY <2>3 DEF Alone
  <2>6. GateKept'
    BY <1>1, <2>1, <2>2 DEF Quiet, GateKept
  <2>7. AckKept'
    BY <2>2, <2>3, <2>4 DEF AckKept
  <2>8. MadeFor'
    BY <1>2, <2>1, <2>2 DEF Quiet, MadeFor
  <2>9. BotStays'
    BY <2>2 DEF BotStays, NewHere
  <2>10. NewsKept'
    BY <1>2, <2>1, <2>2, <2>4 DEF Quiet, NewsKept
  <2> QED BY <2>5, <2>6, <2>7, <2>8, <2>9, <2>10 DEF Quiet
<1> QED BY <1>3, <1>4, <1>5

\* The end of a login, in each of its outcomes.
LEMMA LoginDoneKeeps ==
  ASSUME Bounds, NoneLeaks, Order, LoginFailed \/ LoginDone PROVE Order'
<1> USE DEF Order, Bounds
<1>1. PICK l \in 1..Calls :
        /\ call[l] = "login"
        /\ \/ NotConnected(l)
           \/ /\ connected' = [connected EXCEPT ![by[l]] = TRUE]
              /\ call' = [call EXCEPT ![l] = "replay"]
              /\ UNCHANGED <<hasBot, pendingAck, news, acks>>
        /\ UNCHANGED <<current, request, commands, restart, by, auto, switch, cause, starting,
                       to, raced>>
  BY DEF LoginFailed, LoginDone, ArmRefused
<1>2. Active(l) /\ by[l] \in 1..Instances
  BY <1>1 DEF Active, Begun, TypeOK, Nothing
<1>3. CASE NotConnected(l)
  <2>1. Held' = {} /\ call' = [call EXCEPT ![l] = "done"]
    BY <1>3, ReleaseHolds DEF NotConnected
  <2>2. hasBot' \in [1..Instances -> BOOLEAN] /\ connected' \in [1..Instances -> BOOLEAN]
    BY <1>3 DEF NotConnected, TypeOK
  <2>3. /\ auto[l] => Acknowledged(l, FALSE)
        /\ ~auto[l] => UNCHANGED <<pendingAck, news, acks>>
    BY <1>3 DEF NotConnected
  <2> QED BY <1>1, <1>2, <2>1, <2>2, <2>3, EndKeeps
<1>4. CASE /\ connected' = [connected EXCEPT ![by[l]] = TRUE]
           /\ call' = [call EXCEPT ![l] = "replay"]
           /\ UNCHANGED <<hasBot, pendingAck, news, acks>>
  <2>1. /\ \A k \in 1..Calls : k # l => call'[k] = call[k]
        /\ call'[l] = "replay" /\ connected'[by[l]]
    BY <1>2, <1>4 DEF TypeOK
  <2>2. TypeOK'
    <3>1. call' \in [1..Calls -> CallStates] /\ connected' \in [1..Instances -> BOOLEAN]
      BY <1>4 DEF TypeOK, CallStates
    <3> QED BY <1>1, <1>4, <3>1 DEF TypeOK
  <2>3. Behind' /\ Begun'
    BY <1>1, <1>4, <2>1 DEF Behind, Begun
  <2>4. ASSUME ~raced' PROVE Quiet'
    <3>1. ~raced /\ Quiet
      BY <1>1, <2>4
    <3>2. switch = "no" /\ by[l] = current /\ ~NewHere
      BY <1>2, <3>1 DEF Quiet, Alone, BotStays
    <3>3. \A k \in 1..Calls : k # l => ~Active(k)
      BY <1>2, <3>1 DEF Quiet, Alone
    <3>4. \A k \in 1..Calls : Active(k)' <=> Active(k)
      BY <1>2, <2>1 DEF Active
    <3>5. Alone'
      BY <1>1, <3>1, <3>4 DEF Quiet, Alone
    <3>6. GateKept'
      <4>1. \A k \in 1..Calls : call'[k] \notin {"reconnect", "disconnect"}
        BY <2>1, <3>3 DEF Active
      <4> QED BY <1>1, <2>1, <3>2, <4>1 DEF GateKept
    <3>7. AckKept'
      BY <1>1, <1>4, <3>1, <3>4 DEF Quiet, AckKept
    <3>8. MadeFor'
      BY <1>1, <1>4, <3>1 DEF Quiet, MadeFor
    <3>9. BotStays'
      BY <1>1, <3>2 DEF BotStays, NewHere
    <3>10. NewsKept'
      BY <1>1, <1>4, <3>1 DEF Quiet, NewsKept
    <3> QED BY <3>5, <3>6, <3>7, <3>8, <3>9, <3>10 DEF Quiet
  <2> QED BY <2>2, <2>3, <2>4
<1> QED BY <1>1, <1>3, <1>4

\* The replay is over, and with it the call.
LEMMA ReplayedKeeps == ASSUME Bounds, Order, Replayed PROVE Order'
<1>1. PICK l \in 1..Calls :
        /\ call[l] = "replay"
        /\ call' = [call EXCEPT ![l] = "done"]
        /\ auto[l] => Acknowledged(l, hasBot[by[l]])
        /\ ~auto[l] => UNCHANGED <<pendingAck, news, acks>>
        /\ UNCHANGED <<current, hasBot, connected, request, commands, restart, Held, by, auto,
                       switch, cause, starting, to, raced>>
  BY DEF Replayed, instanceVars, gateVars, Held
<1>2. Active(l) /\ hasBot[by[l]] \in BOOLEAN
  BY <1>1 DEF Active, Order, Bounds, Begun, TypeOK, Nothing
<1>3. hasBot' \in [1..Instances -> BOOLEAN] /\ connected' \in [1..Instances -> BOOLEAN]
  BY <1>1 DEF Order, TypeOK
<1> QED BY <1>1, <1>2, <1>3, EndKeeps

\* The loop of an instance rejects: its exemption is given back.
LEMMA StartRejectsKeeps == ASSUME Bounds, NoneLeaks, Order, StartRejects PROVE Order'
<1> USE DEF Order, Bounds
<1>1. /\ \E i \in 1..Instances : connected' = [connected EXCEPT ![i] = FALSE]
      /\ Held' = {}
      /\ UNCHANGED <<current, hasBot, request, commands, restart, pendingAck, call, by, auto,
                     switch, cause, starting, news, to, acks, raced>>
  BY ReleaseHolds DEF StartRejects, moduleVars, callVars, newVars
<1>2. TypeOK'
  <2>1. connected' \in [1..Instances -> BOOLEAN]
    BY <1>1 DEF TypeOK
  <2> QED BY <1>1, <2>1 DEF TypeOK
<1>3. Behind' /\ Begun'
  BY <1>1 DEF Behind, Begun
<1>4. ASSUME ~raced' PROVE Quiet'
  <2>1. Quiet /\ \A k \in 1..Calls : Active(k)' <=> Active(k)
    BY <1>1, <1>4 DEF Active
  <2>2. Alone' /\ GateKept'
    BY <1>1, <2>1 DEF Quiet, Alone, GateKept
  <2>3. AckKept' /\ MadeFor'
    BY <1>1, <2>1 DEF Quiet, AckKept, MadeFor
  <2>4. BotStays' /\ NewsKept'
    BY <1>1, <2>1 DEF Quiet, BotStays, NewHere, NewsKept
  <2> QED BY <2>2, <2>3, <2>4 DEF Quiet
<1> QED BY <1>2, <1>3, <1>4

\* The user chooses in the dialog: a stop gives the exemption back.
LEMMA ChosenKeeps ==
  ASSUME Bounds, NoneLeaks, Order, NEW option \in {"reconnect", "disconnect", "done"},
         Chosen(option)
  PROVE  Order'
<1> USE DEF Order, Bounds
<1>1. PICK l \in 1..Calls :
        /\ call[l] = "dialog" /\ call' = [call EXCEPT ![l] = option]
        /\ option # "done" => Held' = {}
        /\ option = "done" => Held' = Held
        /\ UNCHANGED <<current, hasBot, connected, request, commands, restart, pendingAck, by,
                       auto, switch, cause, starting, news, to, acks, raced>>
  BY ReleaseHolds DEF Chosen, StopBegins, gateVars, Held, instanceVars, moduleVars, newVars
<1>2. /\ \A k \in 1..Calls : k # l => call'[k] = call[k]
      /\ call'[l] = option /\ ~auto[l] /\ Active(l)
  BY <1>1 DEF TypeOK, Begun, Active
<1>3. TypeOK'
  <2>1. call' \in [1..Calls -> CallStates]
    BY <1>1 DEF TypeOK, CallStates
  <2> QED BY <1>1, <2>1 DEF TypeOK
<1>4. Behind' /\ Begun'
  BY <1>1, <1>2 DEF Behind, Begun
<1>5. ASSUME ~raced' PROVE Quiet'
  <2>1. Quiet
    BY <1>1, <1>5
  <2>2. /\ switch = "no" /\ ~NewHere /\ pendingAck = Nothing
        /\ \A k \in 1..Calls : k # l => ~Active(k)
    BY <1>2, <2>1 DEF Quiet, Alone, AckKept, BotStays
  <2>3. \A k \in 1..Calls : Active(k)' => k = l /\ Active(k)
    BY <1>2, <2>2 DEF Active
  <2>4. Alone'
    BY <1>1, <2>1, <2>3 DEF Quiet, Alone
  <2>5. GateKept'
    BY <1>1, <1>2, <2>1, <2>2 DEF Quiet, GateKept, Active
  <2>6. AckKept' /\ MadeFor'
    BY <1>1, <1>2, <2>1, <2>2, <2>3 DEF Quiet, AckKept, MadeFor
  <2>7. BotStays' /\ NewsKept'
    BY <1>1, <2>1, <2>2 DEF Quiet, BotStays, NewHere, NewsKept
  <2> QED BY <2>4, <2>5, <2>6, <2>7 DEF Quiet
<1> QED BY <1>3, <1>4, <1>5

\* A /new of the user: what the slot held is given up, if it was too old.
LEMMA NewMessageKeeps == ASSUME Bounds, Order, NewMessage PROVE Order'
<1> USE DEF Order, Bounds
<1>1. PICK m \in 1..News :
        /\ news[m] = "none" /\ connected[current] /\ hasBot[current]
        /\ to' = [to EXCEPT ![m] = current]
        /\ \/ /\ news' = [news EXCEPT ![m] = "refused"]
              /\ UNCHANGED <<starting, request, raced>>
           \/ /\ ~SlotTaken
              /\ news' = [(IF late THEN Over(request) ELSE news) EXCEPT ![m] = "pending"]
              /\ starting' = starting \cup {m} /\ request' = m
              /\ raced' = (raced \/ Busy)
        /\ UNCHANGED <<current, hasBot, connected, commands, restart, pendingAck, Held, call,
                       by, auto, switch, cause, acks>>
  BY DEF NewMessage, moduleVars, gateVars, Held, callVars
<1>2. CASE news' = [news EXCEPT ![m] = "refused"] /\ UNCHANGED <<starting, request, raced>>
  <2>1. /\ \A k \in 1..News : k # m => news'[k] = news[k] /\ to'[k] = to[k]
        /\ news'[m] = "refused" /\ to'[m] = current
    BY <1>1, <1>2 DEF TypeOK
  <2>2. TypeOK'
    <3>1. news' \in [1..News -> NewsStates] /\ to' \in [1..News -> 0..Instances]
      BY <1>1, <1>2 DEF TypeOK, NewsStates
    <3> QED BY <1>1, <1>2, <3>1 DEF TypeOK
  <2>3. Behind' /\ Begun'
    BY <1>1, <1>2, <2>1 DEF Behind, Begun, TypeOK
  <2>4. ASSUME ~raced' PROVE Quiet'
    <3>1. Quiet /\ \A k \in 1..Calls : Active(k)' <=> Active(k)
      BY <1>1, <1>2, <2>4 DEF Active
    <3>2. Alone' /\ GateKept' /\ AckKept' /\ MadeFor'
      BY <1>1, <3>1 DEF Quiet, Alone, GateKept, AckKept, MadeFor
    <3>3. NewHere' => NewHere
      BY <1>1, <1>2, <2>1 DEF NewHere, Begun, TypeOK
    <3>4. BotStays'
      BY <1>1, <1>2, <3>1, <3>3 DEF Quiet, BotStays
    <3>5. NewsKept'
      BY <1>1, <1>2, <2>1, <3>1 DEF Quiet, NewsKept
    <3> QED BY <3>2, <3>4, <3>5 DEF Quiet
  <2> QED BY <2>2, <2>3, <2>4
<1>3. CASE /\ ~SlotTaken
           /\ news' = [(IF late THEN Over(request) ELSE news) EXCEPT ![m] = "pending"]
           /\ starting' = starting \cup {m} /\ request' = m
           /\ raced' = (raced \/ Busy)
  <2> DEFINE others == IF late THEN Over(request) ELSE news
  <2>1. /\ others \in [1..News -> NewsStates]
        /\ \A k \in 1..News : others[k] = news[k]
             \/ (k = request /\ news[k] = "pending" /\ others[k] = "lost")
        /\ \A k \in 1..News : k = request /\ news[k] = "pending" => others[k] = "lost"
    <3>1. request \in 0..News /\ (late \/ request = Nothing)
      BY <1>3 DEF SlotTaken, TypeOK
    <3>2. CASE late
      BY <3>1, <3>2, OverIs
    <3>3. CASE ~late
      BY <3>1, <3>3 DEF TypeOK, Nothing
    <3> QED BY <3>2, <3>3
  <2>2. news' = [others EXCEPT ![m] = "pending"]
    BY <1>3
  <2> HIDE DEF others
  <2>3. /\ \A k \in 1..News : k # m => news'[k] = others[k] /\ to'[k] = to[k]
        /\ news'[m] = "pending" /\ to'[m] = current
    BY <1>1, <2>1, <2>2 DEF TypeOK
  <2>4. TypeOK'
    <3>1. news' \in [1..News -> NewsStates] /\ to' \in [1..News -> 0..Instances]
      BY <1>1, <2>1, <2>2 DEF TypeOK, NewsStates
    <3>2. starting' \subseteq 1..News /\ request' \in 0..News /\ raced' \in BOOLEAN
      BY <1>3 DEF TypeOK
    <3> QED BY <1>1, <3>1, <3>2 DEF TypeOK
  <2>5. Behind'
    BY <1>1, <2>3 DEF Behind, TypeOK
  <2>6. Begun'
    BY <1>1, <1>3, <2>1, <2>3 DEF Begun, TypeOK
  <2>7. ASSUME ~raced' PROVE Quiet'
    <3>1. Quiet /\ switch = "no" /\ \A k \in 1..Calls : ~Active(k)
      BY <1>3, <2>7 DEF Busy, Active
    <3>2. \A k \in 1..Calls : ~Active(k)'
      BY <1>1, <3>1 DEF Active
    <3>3. Alone' /\ GateKept' /\ AckKept' /\ MadeFor'
      BY <1>1, <3>1, <3>2 DEF Quiet, Alone, GateKept, AckKept, MadeFor
    <3>4. BotStays'
      BY <1>1, <3>1, <3>2 DEF BotStays
    <3>5. NewsKept'
      <4> SUFFICES ASSUME NEW k \in 1..News
                   PROVE  /\ news'[k] # "dropped"
                          /\ news'[k] = "asked" => k = pendingAck
                          /\ news'[k] = "pending" => k = m
        BY <1>1, <1>3, <2>3, <3>1 DEF NewsKept
      <4>1. CASE k = m
        BY <2>3, <4>1
      <4>2. CASE k # m
        BY <2>1, <2>3, <3>1, <4>2 DEF Quiet, NewsKept
      <4> QED BY <4>1, <4>2
    <3> QED BY <3>3, <3>4, <3>5 DEF Quiet
  <2> QED BY <2>4, <2>5, <2>6, <2>7
<1> QED BY <1>1, <1>2, <1>3

\* A request outlives its TTL.
LEMMA RequestAgesKeeps == ASSUME Bounds, Order, RequestAges PROVE Order'
<1>1. UNCHANGED <<current, hasBot, connected, request, commands, restart, pendingAck, Held,
                  call, by, auto, switch, cause, starting, news, to, acks, raced>>
  BY DEF RequestAges, moduleVars, gateVars, Held, callVars, newVars
<1> QED BY <1>1, Unmoved

\* "Starting" is sent, and the internal command after it: when the instance that
\* was asked has been replaced, that /new had been given up before.
LEMMA DispatchedKeeps == ASSUME Bounds, Order, Dispatched PROVE Order'
<1> USE DEF Order, Bounds
<1>1. PICK m \in starting :
        /\ starting' = starting \ {m}
        /\ \/ to[m] = current /\ commands' = commands + 1 /\ UNCHANGED news
           \/ /\ to[m] # current /\ UNCHANGED commands
              /\ news' = IF news[m] = "pending" THEN [news EXCEPT ![m] = Told(to[m])] ELSE news
        /\ UNCHANGED <<current, hasBot, connected, request, restart, pendingAck, Held, call, by,
                       auto, switch, cause, to, acks, raced>>
  BY DEF Dispatched, moduleVars, gateVars, Held, callVars
<1>2. /\ m \in 1..News /\ news' \in [1..News -> NewsStates] /\ commands' \in Nat
      /\ \A k \in 1..News : news'[k] = news[k]
           \/ (k = m /\ to[m] # current /\ news[k] = "pending"
                 /\ news'[k] \in {"answered", "dropped"})
  <2>1. m \in 1..News /\ Told(to[m]) \in {"answered", "dropped"}
    BY <1>1 DEF TypeOK, Told
  <2>2. news' = news \/ (to[m] # current /\ news[m] = "pending"
                          /\ news' = [news EXCEPT ![m] = Told(to[m])])
    BY <1>1
  <2>3. commands' \in Nat
    BY <1>1 DEF TypeOK
  <2> QED BY <2>1, <2>2, <2>3 DEF TypeOK, NewsStates
<1>3. TypeOK' /\ Behind' /\ Begun'
  <2>1. TypeOK'
    BY <1>1, <1>2 DEF TypeOK
  <2>2. Behind'
    BY <1>1 DEF Behind
  <2>3. Begun'
    BY <1>1, <1>2 DEF Begun, TypeOK
  <2> QED BY <2>1, <2>2, <2>3
<1>4. ASSUME ~raced' PROVE Quiet'
  <2>1. Quiet /\ \A k \in 1..Calls : Active(k)' <=> Active(k)
    BY <1>1, <1>4 DEF Active
  <2>2. news' = news
    BY <1>1, <1>2, <2>1 DEF Quiet, NewsKept
  <2>3. Alone' /\ GateKept' /\ AckKept' /\ MadeFor'
    BY <1>1, <2>1 DEF Quiet, Alone, GateKept, AckKept, MadeFor
  <2>4. NewHere' => NewHere
    BY <1>1 DEF NewHere
  <2>5. BotStays'
    BY <1>1, <2>1, <2>4 DEF Quiet, BotStays
  <2>6. NewsKept'
    <3> SUFFICES ASSUME NEW k \in 1..News, news[k] = "pending"
                 PROVE  k \in starting' \/ commands' > 0
      BY <1>1, <2>1, <2>2 DEF Quiet, NewsKept
    <3>1. to[k] = current /\ (k \in starting \/ commands > 0)
      BY <2>1 DEF Quiet, NewsKept
    <3> QED BY <1>1, <3>1 DEF TypeOK
  <2> QED BY <2>3, <2>5, <2>6 DEF Quiet
<1> QED BY <1>3, <1>4

\* "Starting" cannot be sent: the /new is given up.
LEMMA StartingFailsKeeps == ASSUME Bounds, Order, StartingFails PROVE Order'
<1> USE DEF Order, Bounds
<1>1. PICK m \in starting :
        /\ starting' = starting \ {m} /\ news' = Over(m)
        /\ UNCHANGED <<current, hasBot, connected, request, commands, restart, pendingAck, Held,
                       call, by, auto, switch, cause, to, acks, raced>>
  BY DEF StartingFails, instanceVars, moduleVars, gateVars, Held, callVars
<1>2. /\ m \in 1..News /\ news' \in [1..News -> NewsStates]
      /\ \A k \in 1..News : news'[k] = IF k = m /\ news[k] = "pending" THEN "lost" ELSE news[k]
  <2>1. m \in 1..News /\ m \in 0..News
    BY <1>1 DEF TypeOK
  <2> QED BY <1>1, <2>1, OverIs
<1>3. TypeOK' /\ Behind' /\ Begun'
  <2>1. TypeOK'
    BY <1>1, <1>2 DEF TypeOK
  <2>2. Behind'
    BY <1>1 DEF Behind
  <2>3. Begun'
    BY <1>1, <1>2 DEF Begun, TypeOK
  <2> QED BY <2>1, <2>2, <2>3
<1>4. ASSUME ~raced' PROVE Quiet'
  <2>1. Quiet /\ \A k \in 1..Calls : Active(k)' <=> Active(k)
    BY <1>1, <1>4 DEF Active
  <2>2. Alone' /\ GateKept' /\ AckKept' /\ MadeFor'
    BY <1>1, <2>1 DEF Quiet, Alone, GateKept, AckKept, MadeFor
  <2>3. NewHere' => NewHere
    BY <1>1 DEF NewHere
  <2>4. BotStays'
    BY <1>1, <2>1, <2>3 DEF Quiet, BotStays
  <2>5. NewsKept'
    BY <1>1, <1>2, <2>1 DEF Quiet, NewsKept
  <2> QED BY <2>2, <2>4, <2>5 DEF Quiet
<1> QED BY <1>3, <1>4

\* What calls and acknowledgements refer to is there already.
LEMMA MadeBefore ==
  ASSUME Bounds, Order
  PROVE  /\ \A l \in 1..Calls : auto[l] => by[l] \in 1..current
         /\ \A a \in acks : a[1] \in 1..current
<1>1. \A l \in 1..Calls : by[l] \in 0..Instances /\ by[l] <= current
  BY DEF Order, TypeOK, Behind
<1>2. \A l \in 1..Calls : auto[l] => by[l] # 0
  BY DEF Order, Begun, Nothing
<1>3. current \in Nat /\ Instances \in Nat
  BY DEF Bounds, Order, TypeOK
<1>4. \A a \in acks : a[1] \in 1..Instances /\ a[1] <= current
  BY DEF Order, TypeOK, Behind
<1> QED BY <1>1, <1>2, <1>3, <1>4

\* The internal command: nothing is asked for, the request is given up, or the
\* session is to be replaced.
LEMMA PerformKeeps == ASSUME Bounds, Order, Perform PROVE Order'
<1> USE DEF Order, Bounds
<1>1. /\ commands > 0 /\ switch = "no" /\ commands' = commands - 1 /\ request' = Nothing
      /\ UNCHANGED <<current, hasBot, connected, Held, call, by, auto, starting, to, acks>>
  BY DEF Perform, gateVars, Held, callVars
<1>2. request \in 0..News /\ commands' \in Nat
  BY <1>1 DEF TypeOK
<1>3. ASSUME UNCHANGED <<restart, pendingAck, switch, cause, raced>>,
             news' = Over(request) \/ (request = Nothing /\ news' = news)
      PROVE  Order'
  <2>1. /\ news' \in [1..News -> NewsStates]
        /\ \A k \in 1..News : news'[k] = IF k = request /\ news[k] = "pending" THEN "lost"
                                         ELSE news[k]
    <3>1. CASE news' = Over(request)
      BY <1>2, <3>1, OverIs
    <3>2. CASE request = Nothing /\ news' = news
      BY <3>2 DEF TypeOK, Nothing
    <3> QED BY <1>3, <3>1, <3>2
  <2>2. TypeOK'
    BY <1>1, <1>2, <1>3, <2>1 DEF TypeOK, Nothing
  <2>3. Behind' /\ Begun'
    BY <1>1, <1>3, <2>1 DEF Behind, Begun, TypeOK
  <2>4. ASSUME ~raced' PROVE Quiet'
    <3>1. Quiet /\ \A k \in 1..Calls : Active(k)' <=> Active(k)
      BY <1>1, <1>3, <2>4 DEF Active
    <3>2. Alone' /\ GateKept' /\ AckKept' /\ MadeFor'
      BY <1>1, <1>3, <3>1 DEF Quiet, Alone, GateKept, AckKept, MadeFor
    <3>3. NewHere
      BY <1>1 DEF NewHere
    <3>4. BotStays'
      BY <1>1, <1>3, <3>1, <3>3 DEF Quiet, BotStays
    <3>5. NewsKept'
      BY <1>1, <1>3, <2>1, <3>1 DEF Quiet, NewsKept
    <3> QED BY <3>2, <3>4, <3>5 DEF Quiet
  <2> QED BY <2>2, <2>3, <2>4
<1>4. ASSUME request # Nothing, current < Instances, restart' = TRUE, pendingAck' = request,
             news' = [news EXCEPT ![request] = "asked"],
             cause' = [cause EXCEPT ![current + 1] = request],
             switch' = "before", raced' = (raced \/ Busy)
      PROVE  Order'
  <2>1. request \in 1..News
    BY <1>2, <1>4 DEF Nothing
  <2>2. /\ \A k \in 1..News : news'[k] = IF k = request THEN "asked" ELSE news[k]
        /\ news' \in [1..News -> NewsStates]
    BY <1>4, <2>1 DEF TypeOK, NewsStates
  <2>3. /\ cause' \in [1..Instances -> 0..News] /\ cause'[current + 1] = request
        /\ \A i \in 1..current : cause'[i] = cause[i]
    BY <1>2, <1>4 DEF TypeOK
  <2>4. TypeOK'
    <3>1. raced' \in BOOLEAN /\ pendingAck' \in 0..News /\ restart' \in BOOLEAN
      BY <1>4, <2>1, Zenon DEF TypeOK
    <3> QED BY <1>1, <1>2, <1>4, <2>2, <2>3, <3>1 DEF TypeOK, Nothing
  <2>5. Behind' /\ Begun'
    BY <1>1, <2>2 DEF Behind, Begun, TypeOK
  <2>6. ASSUME ~raced' PROVE Quiet'
    <3>1. Quiet /\ \A k \in 1..Calls : ~Active(k)
      BY <1>4, <2>6 DEF Busy, Active
    <3>2. \A k \in 1..Calls : ~Active(k)'
      BY <1>1, <3>1 DEF Active
    <3>3. pendingAck = Nothing /\ hasBot[current]
      BY <1>1, <3>1 DEF Quiet, AckKept, BotStays, NewHere
    <3>4. Alone' /\ GateKept' /\ AckKept'
      BY <1>1, <1>4, <2>3, <3>1, <3>2 DEF Quiet, Alone, GateKept, AckKept, Nothing
    <3>5. MadeFor'
      BY <1>1, <2>3, <3>1, MadeBefore DEF Quiet, MadeFor
    <3>6. BotStays'
      BY <1>1, <1>4, <3>2, <3>3 DEF BotStays
    <3>7. NewsKept'
      BY <1>1, <1>4, <2>1, <2>2, <3>1, <3>3 DEF Quiet, NewsKept, Nothing
    <3> QED BY <3>4, <3>5, <3>6, <3>7 DEF Quiet
  <2> QED BY <2>4, <2>5, <2>6
<1> QED BY <1>3, <1>4 DEF Perform

\* A new session at the terminal, which no /new asked for.
LEMMA TerminalNewKeeps == ASSUME Bounds, Order, TerminalNew PROVE Order'
<1> USE DEF Order, Bounds
<1>1. /\ switch = "no" /\ current < Instances /\ switch' = "before"
      /\ cause' = [cause EXCEPT ![current + 1] = Nothing]
      /\ raced' = (raced \/ Busy \/ NewUnderWay)
      /\ UNCHANGED <<current, hasBot, connected, request, commands, restart, pendingAck, Held,
                     call, by, auto, starting, news, to, acks>>
  BY DEF TerminalNew, instanceVars, moduleVars, gateVars, Held, callVars, newVars
<1>2. /\ cause' \in [1..Instances -> 0..News] /\ cause'[current + 1] = Nothing
      /\ \A i \in 1..current : cause'[i] = cause[i]
  BY <1>1 DEF TypeOK, Nothing
<1>3. TypeOK' /\ Behind' /\ Begun'
  BY <1>1, <1>2 DEF TypeOK, Behind, Begun
<1>4. ASSUME ~raced' PROVE Quiet'
  <2>1. /\ Quiet /\ \A k \in 1..Calls : ~Active(k)
        /\ starting = {} /\ ~(commands > 0)
    BY <1>1, <1>4 DEF Busy, NewUnderWay, Active
  <2>2. \A k \in 1..Calls : ~Active(k)'
    BY <1>1, <2>1 DEF Active
  <2>3. pendingAck = Nothing /\ ~restart
    BY <1>1, <2>1 DEF Quiet, AckKept
  <2>4. Alone' /\ GateKept' /\ AckKept'
    BY <1>1, <1>2, <2>1, <2>2, <2>3 DEF Quiet, Alone, GateKept, AckKept
  <2>5. MadeFor'
    BY <1>1, <1>2, <2>1, MadeBefore DEF Quiet, MadeFor
  <2>6. BotStays'
    BY <1>1, <1>2, <2>1 DEF BotStays, NewHere
  <2>7. NewsKept'
    BY <1>1, <2>1 DEF Quiet, NewsKept
  <2> QED BY <2>4, <2>5, <2>6, <2>7 DEF Quiet
<1> QED BY <1>3, <1>4

\* newSession is cancelled: the /new is answered, for its bot is still there.
LEMMA SwitchCancelledKeeps == ASSUME Bounds, Order, SwitchCancelled PROVE Order'
<1> USE DEF Order, Bounds
<1> DEFINE asked == cause[current + 1]
<1>1. /\ switch = "before" /\ switch' = "no"
      /\ asked = Nothing => UNCHANGED <<restart, pendingAck, news>>
      /\ asked # Nothing => /\ restart' = FALSE /\ pendingAck' = Nothing
                            /\ news' = [news EXCEPT ![asked] = Told(current)]
      /\ UNCHANGED <<current, hasBot, connected, request, commands, Held, call, by, auto, cause,
                     starting, to, acks, raced>>
  BY DEF SwitchCancelled, RolledBack, instanceVars, moduleVars, gateVars, Held, callVars
<1>2. asked \in 0..News /\ Told(current) \in NewsStates /\ Told(current) # "none"
  BY <1>1 DEF TypeOK, Told, NewsStates
<1> HIDE DEF asked
<1>3. /\ news' \in [1..News -> NewsStates]
      /\ \A k \in 1..News : news'[k] = IF k = asked THEN Told(current) ELSE news[k]
  <2>1. CASE asked = Nothing
    BY <1>1, <2>1 DEF TypeOK, Nothing
  <2>2. CASE asked # Nothing
    <3>1. asked \in 1..News /\ news' = [news EXCEPT ![asked] = Told(current)]
      BY <1>1, <1>2, <2>2 DEF Nothing
    <3> QED BY <1>2, <3>1 DEF TypeOK
  <2> QED BY <2>1, <2>2
<1>4. TypeOK' /\ Behind' /\ Begun'
  <2>1. TypeOK'
    <3>1. restart \in BOOLEAN /\ pendingAck \in 0..News /\ Nothing \in 0..News
      BY DEF TypeOK, Nothing
    <3>2. restart' \in BOOLEAN /\ pendingAck' \in 0..News
      BY <1>1, <3>1, Zenon
    <3> QED BY <1>1, <1>3, <3>2 DEF TypeOK
  <2>2. Behind' /\ Begun'
    BY <1>1, <1>2, <1>3 DEF Behind, Begun, TypeOK
  <2> QED BY <2>1, <2>2
<1>5. ASSUME ~raced' PROVE Quiet'
  <2>1. /\ Quiet /\ \A k \in 1..Calls : ~Active(k)
        /\ pendingAck = asked
    BY <1>1, <1>5 DEF Quiet, Alone, AckKept, asked
  <2>2. \A k \in 1..Calls : ~Active(k)'
    BY <1>1, <2>1 DEF Active
  <2>3. pendingAck' = Nothing /\ ~restart'
    BY <1>1, <2>1 DEF Quiet, AckKept
  <2>4. asked # Nothing => Told(current) = "answered"
    BY <1>1, <2>1 DEF Quiet, BotStays, Told, asked
  <2>5. Alone' /\ GateKept' /\ AckKept' /\ MadeFor'
    BY <1>1, <2>1, <2>2, <2>3 DEF Quiet, Alone, GateKept, AckKept, MadeFor
  <2>6. BotStays'
    BY <1>1, <2>1, <2>2 DEF Quiet, BotStays, NewHere
  <2>7. NewsKept'
    BY <1>1, <1>2, <1>3, <2>1, <2>3, <2>4 DEF Quiet, NewsKept, Nothing
  <2> QED BY <2>5, <2>6, <2>7 DEF Quiet
<1> QED BY <1>4, <1>5

\* session_shutdown of the old instance gives its exemption back.
LEMMA SwitchGoesOnKeeps == ASSUME Bounds, NoneLeaks, Order, SwitchGoesOn PROVE Order'
<1> USE DEF Order, Bounds
<1>1. /\ switch = "before" /\ switch' = "stopping" /\ Held' = {}
      /\ UNCHANGED <<current, hasBot, connected, request, commands, restart, pendingAck, call,
                     by, auto, cause, starting, news, to, acks, raced>>
  BY ReleaseHolds DEF SwitchGoesOn, StopBegins, instanceVars, moduleVars, callVars,
         newVars
<1>2. TypeOK' /\ Behind' /\ Begun'
  BY <1>1 DEF TypeOK, Behind, Begun
<1>3. ASSUME ~raced' PROVE Quiet'
  <2>1. Quiet /\ \A k \in 1..Calls : Active(k)' <=> Active(k)
    BY <1>1, <1>3 DEF Active
  <2>2. Alone' /\ GateKept'
    BY <1>1, <2>1 DEF Quiet, Alone, GateKept
  <2>3. AckKept' /\ MadeFor'
    BY <1>1, <2>1 DEF Quiet, AckKept, MadeFor
  <2>4. BotStays'
    BY <1>1, <2>1 DEF Quiet, BotStays, NewHere
  <2>5. NewsKept'
    BY <1>1, <2>1 DEF Quiet, NewsKept
  <2> QED BY <2>2, <2>3, <2>4, <2>5 DEF Quiet
<1> QED BY <1>2, <1>3

\* The instance is replaced: the exemption, the requests and the commands of the
\* old one are gone, and the flags are for the new one.
LEMMA ReplacedKeeps == ASSUME Bounds, Order, Replaced PROVE Order'
<1> USE DEF Order, Bounds
<1>1. /\ switch = "stopping" /\ switch' = "config" /\ current' = current + 1
      /\ connected' = [connected EXCEPT ![current] = FALSE]
      /\ hasBot' = [hasBot EXCEPT ![current] = FALSE]
      /\ request' = Nothing /\ commands' = 0
      /\ news' = [m \in 1..News |-> IF news[m] = "pending" /\ m \notin starting THEN "lost"
                                    ELSE news[m]]
      /\ UNCHANGED <<restart, pendingAck, Held, call, by, auto, cause, starting, to, acks,
                     raced>>
  BY DEF Replaced, moduleVars, gateVars, Held, callVars
<1>2. /\ current \in Nat /\ current' \in 1..Instances /\ current < current'
      /\ connected' \in [1..Instances -> BOOLEAN] /\ hasBot' \in [1..Instances -> BOOLEAN]
  BY <1>1 DEF TypeOK
<1>3. /\ news' \in [1..News -> NewsStates]
      /\ \A m \in 1..News : news'[m] = news[m] \/ (news[m] = "pending" /\ news'[m] = "lost")
  BY <1>1 DEF TypeOK, NewsStates
<1>4. TypeOK'
  BY <1>1, <1>2, <1>3 DEF TypeOK, Nothing
<1>5. Behind'
  <2>1. /\ \A l \in 1..Calls : by[l] \in 0..Instances /\ by[l] <= current
        /\ \A m \in 1..News : to[m] \in 0..Instances /\ to[m] <= current
        /\ \A a \in acks : a[1] \in 1..Instances /\ a[1] <= current
    BY DEF TypeOK, Behind
  <2> QED BY <1>1, <1>2, <2>1 DEF Behind
<1>6. Begun'
  BY <1>1, <1>3 DEF Begun, TypeOK
<1>7. ASSUME ~raced' PROVE Quiet'
  <2>1. /\ Quiet /\ Held = {} /\ \A k \in 1..Calls : ~Active(k)
    BY <1>1, <1>7 DEF Quiet, Alone, GateKept
  <2>2. \A k \in 1..Calls : ~Active(k)'
    BY <1>1, <2>1 DEF Active
  <2>3. Alone' /\ GateKept'
    BY <1>1, <2>1, <2>2 DEF Alone, GateKept
  <2>4. AckKept' /\ MadeFor'
    BY <1>1, <2>1, <2>2 DEF Quiet, AckKept, MadeFor
  <2>5. ~NewHere'
    <3>1. \A m \in starting : to[m] \in Nat /\ to[m] <= current
      BY DEF TypeOK, Behind
    <3> QED BY <1>1, <1>2, <3>1 DEF NewHere
  <2>6. BotStays'
    BY <1>1, <2>5 DEF BotStays
  <2>7. NewsKept'
    BY <1>1, <1>3, <2>1 DEF Quiet, NewsKept
  <2> QED BY <2>3, <2>4, <2>6, <2>7 DEF Quiet
<1> QED BY <1>4, <1>5, <1>6, <1>7

\* session_start of the new instance: it connects when a /new asked for it.
LEMMA SessionStartKeeps == ASSUME Bounds, Order, SessionStart PROVE Order'
<1> USE DEF Order, Bounds
<1>1. /\ switch = "config" /\ switch' = "no" /\ restart' = FALSE
      /\ UNCHANGED <<current, connected, request, commands, pendingAck, Held, cause, starting,
                     news, to, acks, raced>>
  BY DEF SessionStart, gateVars, Held, newVars
<1>2. ~raced =>
        /\ Quiet /\ ~NewHere /\ pendingAck = cause[current]
        /\ \A k \in 1..Calls : ~Active(k)
        /\ restart <=> pendingAck # Nothing
        /\ \A m \in 1..News : news[m] # "pending"
  BY <1>1 DEF Quiet, Alone, AckKept, BotStays, NewsKept
<1>3. CASE ~restart /\ UNCHANGED <<hasBot, call, by, auto>>
  <2>1. TypeOK' /\ Behind' /\ Begun'
    BY <1>1, <1>3 DEF TypeOK, Behind, Begun
  <2>2. ASSUME ~raced' PROVE Quiet'
    <3>1. Quiet /\ pendingAck = Nothing /\ \A k \in 1..Calls : ~Active(k)'
      BY <1>1, <1>2, <1>3, <2>2 DEF Active
    <3>2. Alone' /\ GateKept' /\ AckKept' /\ MadeFor'
      BY <1>1, <1>2, <1>3, <2>2, <3>1 DEF Quiet, Alone, GateKept, AckKept, MadeFor
    <3>3. BotStays' /\ NewsKept'
      BY <1>1, <1>2, <2>2, <3>1 DEF Quiet, BotStays, NewHere, NewsKept
    <3> QED BY <3>2, <3>3 DEF Quiet
  <2> QED BY <2>1, <2>2
<1>4. CASE restart
  <2>1. PICK l \in 1..Calls :
          /\ call[l] = "none"
          /\ call' = [call EXCEPT ![l] = "login"]
          /\ by' = [by EXCEPT ![l] = current] /\ auto' = [auto EXCEPT ![l] = TRUE]
          /\ hasBot' = [hasBot EXCEPT ![current] = TRUE]
    BY <1>4 DEF SessionStart, FirstCall
  <2>2. /\ \A k \in 1..Calls : k # l => /\ call'[k] = call[k] /\ by'[k] = by[k]
                                       /\ auto'[k] = auto[k]
        /\ call'[l] = "login" /\ by'[l] = current /\ auto'[l] = TRUE
    BY <2>1 DEF TypeOK
  <2>3. TypeOK'
    <3>1. call' \in [1..Calls -> CallStates] /\ auto' \in [1..Calls -> BOOLEAN]
      BY <2>1 DEF TypeOK, CallStates
    <3>2. by' \in [1..Calls -> 0..Instances] /\ hasBot' \in [1..Instances -> BOOLEAN]
      BY <2>1 DEF TypeOK
    <3> QED BY <1>1, <3>1, <3>2 DEF TypeOK
  <2>4. Behind' /\ Begun'
    <3>1. current # 0 /\ current <= current
      BY DEF TypeOK
    <3> QED BY <1>1, <2>2, <3>1 DEF Behind, Begun, Nothing
  <2>5. ASSUME ~raced' PROVE Quiet'
    <3>1. ~raced /\ Quiet
      BY <1>1, <2>5
    <3>2. \A k \in 1..Calls : k # l => ~Active(k)'
      BY <1>2, <2>2, <3>1 DEF Active
    <3>3. Active(l)'
      BY <2>2 DEF Active
    <3>4. Alone'
      BY <1>1, <2>2, <3>2 DEF Alone
    <3>5. GateKept'
      BY <1>1, <2>2, <3>1 DEF Quiet, GateKept
    <3>6. AckKept'
      BY <1>1, <1>2, <2>2, <3>1, <3>2, <3>3 DEF AckKept
    <3>7. MadeFor'
      BY <1>1, <1>2, <1>4, <2>2, <3>1 DEF Quiet, MadeFor
    <3>8. BotStays' /\ NewsKept'
      BY <1>1, <1>2, <3>1 DEF Quiet, BotStays, NewHere, NewsKept
    <3> QED BY <3>4, <3>5, <3>6, <3>7, <3>8 DEF Quiet
  <2> QED BY <2>3, <2>4, <2>5
<1> QED BY <1>3, <1>4 DEF SessionStart, callVars

\* The configuration cannot be read: nothing connects, and flags that stay count
\* as an overlap.
LEMMA SessionStartFailsKeeps == ASSUME Bounds, Order, SessionStartFails PROVE Order'
<1> USE DEF Order, Bounds
<1>1. /\ switch = "config" /\ switch' = "no" /\ raced' = (raced \/ restart)
      /\ UNCHANGED <<current, hasBot, connected, request, commands, restart, pendingAck, Held,
                     call, by, auto, cause, starting, news, to, acks>>
  BY DEF SessionStartFails, instanceVars, moduleVars, gateVars, Held, callVars, newVars
<1>2. TypeOK' /\ Behind' /\ Begun'
  BY <1>1 DEF TypeOK, Behind, Begun
<1>3. ASSUME ~raced' PROVE Quiet'
  <2>1. /\ Quiet /\ ~NewHere /\ ~restart /\ pendingAck = Nothing
        /\ \A k \in 1..Calls : ~Active(k)
        /\ \A m \in 1..News : news[m] # "pending"
    BY <1>1, <1>3 DEF Quiet, Alone, AckKept, BotStays, NewsKept
  <2>2. \A k \in 1..Calls : ~Active(k)'
    BY <1>1, <2>1 DEF Active
  <2>3. Alone' /\ GateKept' /\ AckKept' /\ MadeFor'
    BY <1>1, <2>1, <2>2 DEF Quiet, Alone, GateKept, AckKept, MadeFor
  <2>4. BotStays' /\ NewsKept'
    BY <1>1, <2>1 DEF Quiet, BotStays, NewHere, NewsKept
  <2> QED BY <2>3, <2>4 DEF Quiet
<1> QED BY <1>2, <1>3

\* Nothing has happened when the first session starts.
LEMMA InitInv == ASSUME Bounds, Init PROVE SessionInv
<1> USE DEF Bounds, Init, Nothing
<1>1. NoneLeaks
  BY DEF NoneLeaks
<1>2. TypeOK
  <2>1. /\ current = 1 /\ request = 0 /\ commands = 0 /\ restart = FALSE /\ pendingAck = 0
        /\ switch = "no" /\ starting = {} /\ acks = {} /\ raced = FALSE
    BY Zenon
  <2>2. hasBot \in [1..Instances -> BOOLEAN] /\ connected \in [1..Instances -> BOOLEAN]
    <3>1. hasBot = [i \in 1..Instances |-> FALSE] /\ connected = hasBot
      BY Zenon
    <3> QED BY <3>1, Zenon
  <2>3. /\ call \in [1..Calls -> CallStates] /\ by \in [1..Calls -> 0..Instances]
        /\ auto \in [1..Calls -> BOOLEAN]
    BY DEF CallStates
  <2>4. /\ cause \in [1..Instances -> 0..News] /\ news \in [1..News -> NewsStates]
        /\ to \in [1..News -> 0..Instances]
    BY DEF NewsStates
  <2> HIDE DEF Init
  <2>5. 1 \in 1..Instances /\ 0 \in 0..News /\ 0 \in Nat
    OBVIOUS
  <2> QED BY <2>1, <2>2, <2>3, <2>4, <2>5 DEF TypeOK
<1>3. Behind /\ Begun
  BY DEF Behind, Begun
<1>4. \A l \in 1..Calls : ~Active(l)
  BY DEF Active
<1>5. Alone /\ GateKept /\ AckKept /\ MadeFor
  BY <1>4 DEF Alone, GateKept, Held, AckKept, MadeFor
<1>6. BotStays /\ NewsKept
  BY DEF BotStays, NewHere, NewsKept
<1> QED BY <1>1, <1>2, <1>3, <1>5, <1>6 DEF SessionInv, Order, Quiet

\* Every step keeps the invariant.
LEMMA StepKeeps == ASSUME Bounds, SessionInv, [Next]_sessionVars PROVE SessionInv'
<1> USE DEF SessionInv
<1>1. NoneLeaks'
  BY StepLeaksNothing
<1>2. CASE Wechat BY <1>1, <1>2, WechatKeeps
<1>3. CASE Stopped BY <1>1, <1>3, StoppedKeeps
<1>4. CASE LoginFailed \/ LoginDone BY <1>1, <1>4, LoginDoneKeeps
<1>5. CASE Replayed BY <1>1, <1>5, ReplayedKeeps
<1>6. CASE StartRejects BY <1>1, <1>6, StartRejectsKeeps
<1>7. CASE \E option \in {"reconnect", "disconnect", "done"} : Chosen(option)
  BY <1>1, <1>7, ChosenKeeps
<1>8. CASE NewMessage BY <1>1, <1>8, NewMessageKeeps
<1>9. CASE RequestAges BY <1>1, <1>9, RequestAgesKeeps
<1>10. CASE Dispatched BY <1>1, <1>10, DispatchedKeeps
<1>11. CASE StartingFails BY <1>1, <1>11, StartingFailsKeeps
<1>12. CASE Perform BY <1>1, <1>12, PerformKeeps
<1>13. CASE TerminalNew BY <1>1, <1>13, TerminalNewKeeps
<1>14. CASE SwitchCancelled BY <1>1, <1>14, SwitchCancelledKeeps
<1>15. CASE SwitchGoesOn BY <1>1, <1>15, SwitchGoesOnKeeps
<1>16. CASE Replaced BY <1>1, <1>16, ReplacedKeeps
<1>17. CASE SessionStart BY <1>1, <1>17, SessionStartKeeps
<1>18. CASE SessionStartFails BY <1>1, <1>18, SessionStartFailsKeeps
<1>19. CASE UNCHANGED sessionVars
  <2>1. UNCHANGED <<current, hasBot, connected, request, commands, restart, pendingAck, Held,
                    call, by, auto, switch, cause, starting, news, to, acks, raced>>
    BY <1>19 DEF sessionVars, instanceVars, moduleVars, gateVars, Held, callVars, newVars
  <2> QED BY <1>1, <2>1, Unmoved
<1> QED BY <1>2, <1>3, <1>4, <1>5, <1>6, <1>7, <1>8, <1>9, <1>10, <1>11, <1>12, <1>13, <1>14,
           <1>15, <1>16, <1>17, <1>18, <1>19 DEF Next

\* The invariant of the session.
LEMMA Invariant == ASSUME Bounds PROVE Spec => []SessionInv
<1>1. SessionInv /\ [Next]_sessionVars => SessionInv'
  BY StepKeeps
<1> QED BY <1>1, InitInv, PTL DEF Spec

\* When nothing overlapped and the gate did not fail, the dialogs of pi are exempt
\* from confirmation only while WeChat is connected (armConfirmGate and
\* releaseConfirmGate of index.ts).
THEOREM ArmedWhileConnected == ASSUME Bounds PROVE Spec => []ArmedIsConnected
<1>1. SessionInv => ArmedIsConnected
  BY DEF SessionInv, Order, Quiet, GateKept, Held, ArmedIsConnected
<1> QED BY <1>1, Invariant, PTL

\* A session connects by itself, and acknowledges a /new, only when it was made
\* for that /new (performNewSession and session_start of index.ts).
THEOREM ConnectsForItsNew == ASSUME Bounds PROVE Spec => []ForItsNew
<1>1. SessionInv => ForItsNew
  BY DEF SessionInv, Order, Quiet, MadeFor, ForItsNew
<1> QED BY <1>1, Invariant, PTL

\* No /new the extension has accepted is swallowed: when all is quiet it has been
\* answered, or given up (handleNativeCommand and performNewSession of index.ts).
THEOREM NewIsNotSwallowed == ASSUME Bounds PROVE Spec => []NewIsAnswered
<1>1. SessionInv => NewIsAnswered
  <2> SUFFICES ASSUME SessionInv, ~raced, ~Busy, ~NewUnderWay, NEW m \in 1..News
               PROVE  news[m] \in {"none", "refused", "answered", "lost"}
    BY DEF NewIsAnswered
  <2>1. Quiet /\ switch = "no" /\ \A l \in 1..Calls : ~Active(l)
    BY DEF SessionInv, Order, Busy, Active
  <2>2. pendingAck = Nothing /\ Nothing \notin 1..News
    BY <2>1 DEF Quiet, AckKept, Nothing, Bounds
  <2>3. starting = {} /\ ~(commands > 0)
    BY DEF NewUnderWay
  <2>4. news[m] \notin {"dropped", "asked", "pending"}
    BY <2>1, <2>2, <2>3 DEF Quiet, NewsKept
  <2>5. news[m] \in NewsStates
    BY DEF SessionInv, Order, TypeOK
  <2> QED BY <2>4, <2>5 DEF NewsStates
<1> QED BY <1>1, Invariant, PTL
=============================================================================
