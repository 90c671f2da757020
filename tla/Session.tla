------------------------------ MODULE Session -------------------------------
(***************************************************************************)
(* /wechat and /new in the pi extension: connecting, disconnecting, and a  *)
(* session that is replaced by a new one at the request of a WeChat        *)
(* message (index.ts, confirm-gate.ts).                                    *)
(*                                                                         *)
(* pi makes an instance of the extension per session.  The flags that tell *)
(* the new instance to connect and what to acknowledge, and the function   *)
(* that gives the exemption of the confirmation gate back, belong to the   *)
(* module and are shared by the instances.  A call that waits for a login  *)
(* goes on when its instance has been replaced.                            *)
(*                                                                         *)
(* External: pi replaces one session at a time and runs an internal        *)
(* command some time after it is sent, in the instance that sent it, or    *)
(* not at all; the gate counts who holds the exemption.                    *)
(***************************************************************************)
EXTENDS Naturals, FiniteSets

CONSTANTS
  Instances,  \* bound: sessions
  Calls,      \* bound: calls of startWechat
  News,       \* bound: /new messages that come from WeChat
  Faults      \* bound: failures of a reply, of the loop, of the gate, of a load

Nothing == 0

VARIABLES
  current,      \* the instance in use
  hasBot, connected, \* of an instance
  request,      \* pendingNewRequest of the instance in use
  late,         \* that request has outlived its TTL
  commands,     \* internal commands sent and not yet run
  restart,      \* restartAfterReplace
  pendingAck,
  disarm,       \* the exemption disarmConfirmGate gives back
  arms,         \* exemptions the gate counts
  stuck,        \* those of them a failing call of the gate has left there
  call,         \* where a call of startWechat is
  by, auto,     \* its instance; it is made by session_start
  switch,       \* where the replacement of the session is
  cause,        \* the /new an instance was made for
  starting,     \* /new messages that "Starting" is being sent for
  news,         \* what has become of a /new message
  to,           \* the instance it came to
  acks,         \* instances and the /new they have acknowledged
  raced,        \* a call, a stop or a /new overlapped another one
  used          \* failures so far

instanceVars == <<current, hasBot, connected, request, late, commands>>
moduleVars == <<restart, pendingAck>>
gateVars == <<disarm, arms, stuck>>
callVars == <<call, by, auto>>
newVars == <<starting, news, to, acks>>
sessionVars == <<instanceVars, moduleVars, gateVars, callVars, switch, cause, newVars,
                 raced, used>>

Init ==
  /\ current = 1
  /\ hasBot = [i \in 1..Instances |-> FALSE] /\ connected = hasBot
  /\ request = Nothing /\ late = FALSE /\ commands = 0
  /\ restart = FALSE /\ pendingAck = Nothing
  /\ disarm = Nothing /\ arms = {} /\ stuck = {}
  /\ call = [l \in 1..Calls |-> "none"]
  /\ by = [l \in 1..Calls |-> Nothing] /\ auto = [l \in 1..Calls |-> FALSE]
  /\ switch = "no"
  /\ cause = [i \in 1..Instances |-> Nothing]
  /\ starting = {}
  /\ news = [m \in 1..News |-> "none"] /\ to = [m \in 1..News |-> Nothing]
  /\ acks = {} /\ raced = FALSE /\ used = 0

Fault == used < Faults /\ used' = used + 1
Busy == switch # "no" \/ \E l \in 1..Calls : call[l] \notin {"none", "done"}
NewUnderWay == starting # {} \/ commands > 0
FirstCall(l) == call[l] = "none" /\ \A k \in 1..(l - 1) : call[k] # "none"
\* The answer to a /new through the bot of instance i, or nothing when it has none.
Told(i) == IF hasBot[i] THEN "answered" ELSE "dropped"

-----------------------------------------------------------------------------
\* A function of the gate that raises an error may have counted, or not given
\* back, the exemption it was called for.
MayStay(exemption) == {{}, {exemption} \ {Nothing}}

\* releaseConfirmGate: the extension forgets the function before it calls it.
Release == \E kept \in MayStay(disarm) :
  /\ disarm' = Nothing
  /\ arms' = (arms \ {disarm}) \cup kept
  /\ stuck' = stuck \cup kept

\* Mutant of Arm: what is held is not given back first.
ArmOnTop(l) == disarm' = l /\ arms' = arms \cup {l} /\ UNCHANGED stuck

\* The exemption of call l takes the place of the one that is held.
Arm(l) == \E kept \in MayStay(disarm) :
  /\ disarm' = l
  /\ arms' = (arms \ {disarm}) \cup kept \cup {l}
  /\ stuck' = stuck \cup kept

\* The gate has no licence, or raises an error: the extension holds nothing.
ArmRefused(l) == \E kept \in MayStay(disarm), counted \in MayStay(l) :
  /\ Fault
  /\ disarm' = Nothing
  /\ arms' = (arms \ {disarm}) \cup kept \cup counted
  /\ stuck' = stuck \cup kept \cup counted

\* /wechat at the terminal.
Wechat == \E l \in 1..Calls :
  /\ FirstCall(l) /\ switch # "config"
  /\ raced' = (raced \/ Busy \/ NewUnderWay)
  /\ by' = [by EXCEPT ![l] = current]
  /\ IF connected[current] /\ hasBot[current]
       THEN call' = [call EXCEPT ![l] = "dialog"] /\ UNCHANGED hasBot
       ELSE call' = [call EXCEPT ![l] = "login"] /\ hasBot' = [hasBot EXCEPT ![current] = TRUE]
  /\ UNCHANGED <<current, connected, request, late, commands, moduleVars, gateVars, auto,
                 switch, cause, newVars, used>>

\* Mutant of StopBegins: the exemption is kept.
StopKeepsArm == UNCHANGED gateVars

\* shutdownBot up to the end of the poll loop it waits for.
StopBegins == Release

Chosen(option) == \E l \in 1..Calls :
  /\ call[l] = "dialog"
  /\ call' = [call EXCEPT ![l] = option]
  /\ IF option = "done" THEN UNCHANGED gateVars ELSE StopBegins
  /\ UNCHANGED <<instanceVars, moduleVars, by, auto, switch, cause, newVars, raced, used>>

\* The rest of shutdownBot clears whatever bot there is by now.
Stopped == \E l \in 1..Calls :
  /\ call[l] \in {"reconnect", "disconnect"}
  /\ connected' = [connected EXCEPT ![by[l]] = FALSE]
  /\ hasBot' = [hasBot EXCEPT ![by[l]] = call[l] = "reconnect"]
  /\ call' = [call EXCEPT ![l] = IF @ = "reconnect" THEN "login" ELSE "done"]
  /\ UNCHANGED <<current, request, late, commands, moduleVars, gateVars, by, auto, switch,
                 cause, newVars, raced, used>>

-----------------------------------------------------------------------------
\* session_start after its startWechat has returned: the /new is acknowledged.
Acknowledged(l, has) ==
  /\ pendingAck' = Nothing
  /\ IF pendingAck = Nothing THEN UNCHANGED <<news, acks>>
     ELSE /\ news' = [news EXCEPT ![pendingAck] = IF has THEN "answered" ELSE "lost"]
          /\ acks' = IF has THEN acks \cup {<<by[l], pendingAck>>} ELSE acks

\* The login of call l fails, or the bot is gone when it succeeds.
NotConnected(l) ==
  /\ connected' = [connected EXCEPT ![by[l]] = FALSE]
  /\ hasBot' = [hasBot EXCEPT ![by[l]] = FALSE]
  /\ Release
  /\ call' = [call EXCEPT ![l] = "done"]
  /\ IF auto[l] THEN Acknowledged(l, FALSE) ELSE UNCHANGED <<pendingAck, news, acks>>

LoginFailed == \E l \in 1..Calls :
  /\ call[l] = "login"
  /\ NotConnected(l)
  /\ UNCHANGED <<current, request, late, commands, restart, by, auto, switch, cause, starting,
                 to, raced, used>>

LoginDone == \E l \in 1..Calls :
  /\ call[l] = "login"
  /\ IF ~hasBot[by[l]]
       THEN NotConnected(l) /\ UNCHANGED used
       ELSE /\ connected' = [connected EXCEPT ![by[l]] = TRUE]
            /\ (Arm(l) /\ UNCHANGED used) \/ ArmRefused(l)
            /\ call' = [call EXCEPT ![l] = "replay"]
            /\ UNCHANGED <<hasBot, pendingAck, news, acks>>
  /\ UNCHANGED <<current, request, late, commands, restart, by, auto, switch, cause, starting,
                 to, raced>>

\* replayJournalTurns is over.
Replayed == \E l \in 1..Calls :
  /\ call[l] = "replay"
  /\ call' = [call EXCEPT ![l] = "done"]
  /\ IF auto[l] THEN Acknowledged(l, hasBot[by[l]]) ELSE UNCHANGED <<pendingAck, news, acks>>
  /\ UNCHANGED <<instanceVars, restart, gateVars, by, auto, switch, cause, starting, to, raced,
                 used>>

\* bot.start() rejects.
StartRejects == \E i \in 1..Instances :
  /\ connected[i] /\ hasBot[i]
  /\ Fault
  /\ connected' = [connected EXCEPT ![i] = FALSE]
  /\ Release
  /\ UNCHANGED <<current, hasBot, request, late, commands, moduleVars, callVars, switch,
                 cause, newVars, raced>>

-----------------------------------------------------------------------------
\* Mutant of SlotTaken: the request of the last /new replaces an earlier one.
SlotNeverTaken == FALSE

SlotTaken == request # Nothing /\ ~late

\* What comes of a request that is given up, unless it is decided already.
Over(m) == IF m # Nothing /\ news[m] = "pending" THEN [news EXCEPT ![m] = "lost"] ELSE news

\* confirmGateMode() is "armed", whoever holds the exemption.
GateArmed == arms # {}

\* A /new of the user: refused, or answered with "Starting" first.  It is refused
\* also when the gate cannot be asked, or the internal command is not there.
NewMessage == \E m \in 1..News :
  /\ news[m] = "none" /\ \A k \in 1..(m - 1) : news[k] # "none"
  /\ connected[current] /\ hasBot[current]
  /\ to' = [to EXCEPT ![m] = current]
  /\ \/ /\ ((~GateArmed \/ SlotTaken) /\ UNCHANGED used) \/ Fault
        /\ news' = [news EXCEPT ![m] = "refused"]
        /\ UNCHANGED <<starting, request, late, raced>>
     \/ /\ GateArmed /\ ~SlotTaken
        /\ news' = [(IF late THEN Over(request) ELSE news) EXCEPT ![m] = "pending"]
        /\ starting' = starting \cup {m}
        /\ request' = m /\ late' = FALSE
        /\ raced' = (raced \/ Busy)
        /\ UNCHANGED used
  /\ UNCHANGED <<current, hasBot, connected, commands, moduleVars, gateVars, callVars,
                 switch, cause, acks>>

RequestAges ==
  /\ request # Nothing /\ ~late
  /\ late' = TRUE
  /\ UNCHANGED <<current, hasBot, connected, request, commands, moduleVars, gateVars,
                 callVars, switch, cause, newVars, raced, used>>

\* Once "Starting" is sent the internal command is; an instance that has been
\* replaced cannot send it.
Dispatched == \E m \in starting :
  /\ starting' = starting \ {m}
  /\ IF to[m] = current
       THEN commands' = commands + 1 /\ UNCHANGED news
       ELSE /\ news' = IF news[m] = "pending" THEN [news EXCEPT ![m] = Told(to[m])] ELSE news
            /\ UNCHANGED commands
  /\ UNCHANGED <<current, hasBot, connected, request, late, moduleVars, gateVars, callVars,
                 switch, cause, to, acks, raced, used>>

\* "Starting" cannot be sent: the request stays until it is too old.
StartingFails == \E m \in starting :
  /\ Fault
  /\ starting' = starting \ {m}
  /\ news' = Over(m)
  /\ UNCHANGED <<instanceVars, moduleVars, gateVars, callVars, switch, cause, to, acks, raced>>

\* performNewSession up to newSession: it takes the request it finds.
Perform ==
  /\ commands > 0 /\ switch = "no"
  /\ commands' = commands - 1
  /\ request' = Nothing /\ late' = FALSE
  /\ CASE request = Nothing -> UNCHANGED <<restart, pendingAck, switch, news, cause, raced>>
       [] request # Nothing /\ late ->
            /\ news' = Over(request)
            /\ UNCHANGED <<restart, pendingAck, switch, cause, raced>>
       [] OTHER ->
            /\ current < Instances
            /\ restart' = TRUE /\ pendingAck' = request
            /\ news' = [news EXCEPT ![request] = "asked"]
            /\ cause' = [cause EXCEPT ![current + 1] = request]
            /\ switch' = "before"
            /\ raced' = (raced \/ Busy)
  /\ UNCHANGED <<current, hasBot, connected, gateVars, callVars, starting, to, acks, used>>

\* A new session at the terminal.
TerminalNew ==
  /\ switch = "no" /\ current < Instances
  /\ switch' = "before"
  /\ cause' = [cause EXCEPT ![current + 1] = Nothing]
  /\ raced' = (raced \/ Busy \/ NewUnderWay)
  /\ UNCHANGED <<instanceVars, moduleVars, gateVars, callVars, newVars, used>>

\* Mutant of RolledBack: the flags are left for the next session.
FlagsStay == UNCHANGED moduleVars

RolledBack == restart' = FALSE /\ pendingAck' = Nothing

\* newSession is cancelled or fails.
SwitchCancelled ==
  /\ switch = "before"
  /\ switch' = "no"
  /\ IF cause[current + 1] = Nothing THEN UNCHANGED <<moduleVars, news>>
     ELSE /\ RolledBack
          /\ news' = [news EXCEPT ![cause[current + 1]] = Told(current)]
  /\ UNCHANGED <<instanceVars, gateVars, callVars, cause, starting, to, acks, raced, used>>

\* session_shutdown of the old instance.
SwitchGoesOn ==
  /\ switch = "before"
  /\ switch' = "stopping"
  /\ StopBegins
  /\ UNCHANGED <<instanceVars, moduleVars, callVars, cause, newVars, raced, used>>

Replaced ==
  /\ switch = "stopping"
  /\ switch' = "config"
  /\ current' = current + 1
  /\ connected' = [connected EXCEPT ![current] = FALSE]
  /\ hasBot' = [hasBot EXCEPT ![current] = FALSE]
  /\ request' = Nothing /\ late' = FALSE /\ commands' = 0
  /\ news' = [m \in 1..News |-> IF news[m] = "pending" /\ m \notin starting THEN "lost"
                                ELSE news[m]]
  /\ UNCHANGED <<moduleVars, gateVars, callVars, cause, starting, to, acks, raced, used>>

\* session_start of the new one; the configuration may be unreadable.
SessionStart ==
  /\ switch = "config"
  /\ switch' = "no"
  /\ restart' = FALSE
  /\ IF ~restart THEN UNCHANGED <<hasBot, callVars>>
     ELSE \E l \in 1..Calls :
            /\ FirstCall(l)
            /\ call' = [call EXCEPT ![l] = "login"]
            /\ by' = [by EXCEPT ![l] = current] /\ auto' = [auto EXCEPT ![l] = TRUE]
            /\ hasBot' = [hasBot EXCEPT ![current] = TRUE]
  /\ UNCHANGED <<current, connected, request, late, commands, pendingAck, gateVars, cause,
                 newVars, raced, used>>

\* reloadConfig throws: the flags stay as they are.
SessionStartFails ==
  /\ switch = "config" /\ Fault
  /\ switch' = "no"
  /\ raced' = (raced \/ restart)
  /\ UNCHANGED <<instanceVars, moduleVars, gateVars, callVars, cause, newVars>>

Next ==
  \/ Wechat \/ Stopped \/ LoginFailed \/ LoginDone \/ Replayed \/ StartRejects
  \/ \E option \in {"reconnect", "disconnect", "done"} : Chosen(option)
  \/ NewMessage \/ RequestAges \/ Dispatched \/ StartingFails \/ Perform
  \/ TerminalNew \/ SwitchCancelled \/ SwitchGoesOn \/ Replaced
  \/ SessionStart \/ SessionStartFails

Spec == Init /\ [][Next]_sessionVars

-----------------------------------------------------------------------------
\* However logins, stops and sessions overlap, an exemption that the gate counts
\* is the one the extension can give back, or one that stayed because a call of
\* the gate failed: the extension itself forgets none.
NoneLeaks == arms \subseteq ({disarm} \ {Nothing}) \cup stuck

\* When nothing overlapped, the dialogs of pi are exempt only while WeChat is
\* connected, the moments of a login's end and of a stop's beginning excepted,
\* and the exemptions a failing gate has kept.
ArmedIsConnected == ~raced /\ arms \ stuck # {} => connected[current]

\* An instance connects by itself, and acknowledges a /new, only if it was made
\* for that /new: not after one that was cancelled, and not when the user starts
\* a session at the terminal.
ForItsNew ==
  ~raced => /\ \A l \in 1..Calls : auto[l] => cause[by[l]] # Nothing
            /\ \A a \in acks : cause[a[1]] = a[2]

\* When all is quiet, every /new the extension accepted has been answered, or
\* given up because a call failed or the request was too old: none is swallowed.
NewIsAnswered ==
  ~raced /\ ~Busy /\ ~NewUnderWay
    => \A m \in 1..News : news[m] \in {"none", "refused", "answered", "lost"}
=============================================================================
