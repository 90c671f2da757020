------------------------------- MODULE Watch -------------------------------
(***************************************************************************)
(* The notice a WeChat user gets when pi makes no progress: InactivityTimer *)
(* (timeout.ts) and the events of pi that arm, touch and disarm it         *)
(* (index.ts).                                                             *)
(*                                                                         *)
(* Time goes by in ticks.  A timer that is due runs its callback when the  *)
(* event loop comes to it, after further events and ticks or before them.  *)
(* A run of pi may start several times before it settles: agent_start      *)
(* comes again, after agent_end, for a retry or a compaction.              *)
(***************************************************************************)
EXTENDS Integers

CONSTANTS
  Timeouts,    \* values of effectiveTimeoutSeconds, in ticks
  AgentStarts, \* bound: agent_start events
  Ticks        \* bound: ticks

Timers == 1..AgentStarts
None == 0
NotSet == -1

\* A timer: its length, and the ticks its setTimeout has left, if it is set.
Disarmed == [armed |-> FALSE, notified |-> FALSE, length |-> 0, left |-> NotSet]

VARIABLES
  turn,     \* activeTurn # null
  timer,    \* timeoutTimer
  timers,   \* every timer made: one per agent_start
  running,  \* between agent_start and agent_settled
  partial,  \* the agent_start latestPartialText came after, None: it is empty
  starts,   \* agent_start events so far
  now,      \* ticks so far
  active,   \* when the run was active last
  notices   \* what was sent, by which timer, and in which state

timerVars == <<timer, timers>>
runVars == <<running, partial, starts, active>>
watchVars == <<turn, timerVars, runVars, now, notices>>

Init ==
  /\ turn = FALSE
  /\ timer = None /\ timers = [t \in Timers |-> Disarmed]
  /\ running = FALSE /\ partial = None /\ starts = 0 /\ active = 0
  /\ now = 0 /\ notices = {}

-----------------------------------------------------------------------------
\* A turn is handed to pi, or ends: with the run, or when WeChat is
\* disconnected, which leaves the timer alone.
TurnChanges ==
  /\ turn' = ~turn
  /\ UNCHANGED <<timerVars, runVars, now, notices>>

\* timeoutTimer?.disarm()
AfterDisarm == IF timer = None THEN timers ELSE [timers EXCEPT ![timer] = Disarmed]

\* Mutant of OldDisarmed: the timer of the last agent_start goes on.
OldGoesOn == timers

OldDisarmed == AfterDisarm

\* arm() of a new timer.
Armed(length) == [armed |-> TRUE, notified |-> FALSE, length |-> length, left |-> length]

\* agent_start: a timer of its own, armed.
AgentStart == \E length \in Timeouts :
  /\ starts < AgentStarts
  /\ starts' = starts + 1
  /\ timer' = starts'
  /\ timers' = [OldDisarmed EXCEPT ![starts'] = Armed(length)]
  /\ running' = TRUE /\ partial' = None /\ active' = now
  /\ UNCHANGED <<turn, now, notices>>

\* touch(): the time starts again, unless the notice was sent.
Touched(t) == IF ~t.armed \/ t.notified THEN t ELSE [t EXCEPT !.left = t.length]

\* message_update, with text or none, and the events of a tool's execution.
Activity == \E text \in BOOLEAN :
  /\ running
  /\ timers' = IF timer = None THEN timers ELSE [timers EXCEPT ![timer] = Touched(@)]
  /\ partial' = IF text THEN starts ELSE partial
  /\ active' = now
  /\ UNCHANGED <<turn, timer, running, starts, now, notices>>

\* agent_settled, of any run; session_shutdown does the same to the timer.
Settled ==
  /\ running
  /\ running' = FALSE
  /\ timers' = AfterDisarm /\ timer' = None
  /\ UNCHANGED <<turn, partial, starts, active, now, notices>>

Tick ==
  /\ now < Ticks
  /\ now' = now + 1
  /\ timers' = [t \in Timers |-> IF timers[t].left > 0 THEN [timers[t] EXCEPT !.left = @ - 1]
                                 ELSE timers[t]]
  /\ UNCHANGED <<turn, timer, runVars, notices>>

\* The callback, and onInactivityTimeout: without an active turn, nobody is told.
Fires == \E t \in Timers :
  /\ timers[t].left = 0
  /\ timers' = [timers EXCEPT ![t].left = NotSet, ![t].notified = @ \/ timers[t].armed]
  /\ notices' = IF timers[t].armed /\ ~timers[t].notified /\ turn
                  THEN notices \cup {[by |-> t, at |-> now, silent |-> now - active,
                                      in |-> IF running THEN starts ELSE None, quotes |-> partial]}
                  ELSE notices
  /\ UNCHANGED <<turn, timer, runVars, now>>

Next == TurnChanges \/ AgentStart \/ Activity \/ Settled \/ Tick \/ Fires

Spec == Init /\ [][Next]_watchVars

-----------------------------------------------------------------------------
\* Whatever events race with a timer that is due, a notice is sent only in a
\* run that was silent for the whole timeout, by the timer of its last
\* agent_start and once by it, and it quotes no text of an earlier one.
NoticeIsDue == \A n \in notices :
  /\ n.in = n.by /\ n.quotes \in {None, n.in}
  /\ n.silent >= timers[n.by].length
  /\ \A m \in notices : m.by = n.by => m = n
=============================================================================
