----------------------------- MODULE PartsProofs -----------------------------
(***************************************************************************)
(* Proofs about the parts that MCParts explores side by side, for any      *)
(* values of their constants.                                              *)
(*                                                                         *)
(* What SettingsProofs and SessionProofs prove of their own specifications *)
(* holds of PartsSpec, whose steps are steps of those or leave their       *)
(* variables alone.  Watch, Pipeline, Typing, Panel and ChunkText have     *)
(* their invariants here.                                                  *)
(***************************************************************************)
EXTENDS MCParts, JournalProofs, TLAPS

SP == INSTANCE SettingsProofs WITH used <- settingsUsed
TP == INSTANCE SessionProofs WITH Instances <- Sessions, current <- instance, used <- faults,
                                  starting <- announcing, raced <- overlapped

-----------------------------------------------------------------------------
\* The settings start as SettingsProofs has them.
LEMMA SettingsInit == S!Init => SP!Init
  BY DEF S!Init, SP!Init, S!DefaultConfig, SP!DefaultConfig, S!Missing, SP!Missing,
         S!Nobody, SP!Nobody

\* A step of the settings is one of SettingsProofs.
LEMMA SettingsNext == S!Next => SP!Next
  BY DEF S!Next, SP!Next, S!Truncate, SP!Truncate, S!WriteDone, SP!WriteDone,
         S!WriteFails, SP!WriteFails, S!Fails, SP!Fails, S!pastVars, SP!pastVars,
         S!Message, SP!Message, S!OpenSettings, SP!OpenSettings, S!Opened, SP!Opened,
         S!Close, SP!Close, S!Closed, SP!Closed, S!Toggle, SP!Toggle,
         S!SessionStart, SP!SessionStart, S!Started, SP!Started,
         S!DefaultConfig, SP!DefaultConfig, S!Missing, SP!Missing, S!Nobody, SP!Nobody,
         S!Broken, SP!Broken, S!Written, SP!Written, S!Authorized, SP!Authorized,
         S!Save, SP!Save, S!Spend, SP!Spend, S!Read, SP!Read, S!Use, SP!Use,
         S!Normalized, SP!Normalized, S!Merged, SP!Merged, S!Loading, SP!Loading

\* What the settings do beside the other parts.
LEMMA SettingsSpec == PartsSpec => SP!Spec
<1>1. PartsInit => SP!Init
  BY SettingsInit DEF PartsInit
<1>2. [PartsNext]_partsVars => [SP!Next]_(SP!settingsVars)
  BY SettingsNext DEF PartsNext, partsVars, settingsVars, SP!settingsVars,
                      SP!pastVars
<1> QED BY <1>1, <1>2, PTL DEF PartsSpec, SP!Spec

\* The first sender is paired for good, whatever is toggled, reloaded or
\* restarted, while accesses to the file do not overlap, no load is used that
\* misses a failed save, and no session starts with files it cannot read
\* (dispatchMessage and openSettings of index.ts).
THEOREM PairedForGood == ASSUME S!Nobody \notin Users PROVE PartsSpec => []PairedOnce
<1>1. SP!Spec => []SP!PairedOnce
  BY SP!FirstIsPaired DEF S!Nobody, SP!Nobody
<1>2. SP!PairedOnce => PairedOnce
  BY DEF SP!PairedOnce, PairedOnce, S!PairedOnce
<1> QED BY <1>1, <1>2, SettingsSpec, PTL

\* When the panel is closed, the runtime goes by what it left in the file, unless
\* accesses overlapped, or the last save or a load failed (config-store.ts,
\* reloadConfig of index.ts).
THEOREM ClosedPanelIsFile == ASSUME S!Nobody \notin Users PROVE PartsSpec => []RuntimeIsFile
<1>1. SP!Spec => []SP!RuntimeIsFile
  BY SP!RuntimeFollowsFile DEF S!Nobody, SP!Nobody
<1>2. SP!RuntimeIsFile => RuntimeIsFile
  BY DEF SP!RuntimeIsFile, RuntimeIsFile, S!RuntimeIsFile, SP!Loading, S!Loading,
         SP!Normalized, S!Normalized
<1> QED BY <1>1, <1>2, SettingsSpec, PTL

-----------------------------------------------------------------------------
\* The session starts as SessionProofs has it.
LEMMA SessionInit == T!Init => TP!Init
  BY DEF T!Init, TP!Init, T!Nothing, TP!Nothing

\* A step of the session is one of SessionProofs.
LEMMA SessionNext == T!Next => TP!Next
  BY DEF T!Next, TP!Next, T!Wechat, TP!Wechat, T!Stopped, TP!Stopped,
         T!LoginFailed, TP!LoginFailed, T!LoginDone, TP!LoginDone, T!Replayed, TP!Replayed,
         T!StartRejects, TP!StartRejects, T!Chosen, TP!Chosen, T!NewMessage, TP!NewMessage,
         T!RequestAges, TP!RequestAges, T!Dispatched, TP!Dispatched,
         T!StartingFails, TP!StartingFails, T!Perform, TP!Perform,
         T!TerminalNew, TP!TerminalNew, T!SwitchCancelled, TP!SwitchCancelled,
         T!SwitchGoesOn, TP!SwitchGoesOn, T!Replaced, TP!Replaced,
         T!SessionStart, TP!SessionStart, T!SessionStartFails, TP!SessionStartFails,
         T!Nothing, TP!Nothing, T!instanceVars, TP!instanceVars, T!moduleVars, TP!moduleVars,
         T!gateVars, TP!gateVars, T!callVars, TP!callVars, T!newVars, TP!newVars,
         T!Fault, TP!Fault, T!Busy, TP!Busy, T!NewUnderWay, TP!NewUnderWay,
         T!FirstCall, TP!FirstCall, T!Told, TP!Told, T!Release, TP!Release, T!Arm, TP!Arm,
         T!MayStay, TP!MayStay, T!ArmRefused, TP!ArmRefused, T!StopBegins, TP!StopBegins,
         T!Acknowledged, TP!Acknowledged, T!NotConnected, TP!NotConnected,
         T!SlotTaken, TP!SlotTaken, T!Over, TP!Over, T!GateArmed, TP!GateArmed,
         T!RolledBack, TP!RolledBack

\* What the session does beside the other parts.
LEMMA SessionSpec == PartsSpec => TP!Spec
<1>1. PartsInit => TP!Init
  BY SessionInit DEF PartsInit
<1>2. [PartsNext]_partsVars => [TP!Next]_(TP!sessionVars)
  BY SessionNext DEF PartsNext, partsVars, sessionVars, TP!sessionVars, TP!instanceVars,
                     TP!moduleVars, TP!gateVars, TP!callVars, TP!newVars
<1> QED BY <1>1, <1>2, PTL DEF PartsSpec, TP!Spec

\* The extension forgets no exemption of the confirmation gate, however logins,
\* stops and sessions overlap and whichever calls of the gate fail
\* (releaseConfirmGate of index.ts).
THEOREM GateIsGivenBack == PartsSpec => []NoneLeaks
<1>1. TP!Spec => []TP!NoneLeaks
  BY TP!GateNeverLeaks
<1>2. TP!NoneLeaks => NoneLeaks
  BY DEF TP!NoneLeaks, NoneLeaks, T!NoneLeaks, TP!Nothing, T!Nothing
<1> QED BY <1>1, <1>2, SessionSpec, PTL

\* As long as nothing overlapped and the gate did not fail, the dialogs of pi are
\* exempt from confirmation only while WeChat is connected (armConfirmGate of
\* index.ts).
THEOREM ExemptWhileConnected ==
  ASSUME TP!Bounds PROVE PartsSpec => []ArmedIsConnected
<1>1. TP!Spec => []TP!ArmedIsConnected
  BY TP!ArmedWhileConnected
<1>2. TP!ArmedIsConnected => ArmedIsConnected
  BY DEF TP!ArmedIsConnected, ArmedIsConnected, T!ArmedIsConnected
<1> QED BY <1>1, <1>2, SessionSpec, PTL

\* A session connects by itself, and acknowledges a /new, only when it was made
\* for that /new (performNewSession and session_start of index.ts).
THEOREM ConnectsForNew == ASSUME TP!Bounds PROVE PartsSpec => []ForItsNew
<1>1. TP!Spec => []TP!ForItsNew
  BY TP!ConnectsForItsNew
<1>2. TP!ForItsNew => ForItsNew
  BY DEF TP!ForItsNew, ForItsNew, T!ForItsNew, TP!Nothing, T!Nothing
<1> QED BY <1>1, <1>2, SessionSpec, PTL

\* No /new that was accepted is swallowed (handleNativeCommand of index.ts).
THEOREM NewIsDecided == ASSUME TP!Bounds PROVE PartsSpec => []NewIsAnswered
<1>1. TP!Spec => []TP!NewIsAnswered
  BY TP!NewIsNotSwallowed
<1>2. TP!NewIsAnswered => NewIsAnswered
  BY DEF TP!NewIsAnswered, NewIsAnswered, T!NewIsAnswered, TP!Busy, T!Busy,
         TP!NewUnderWay, T!NewUnderWay
<1> QED BY <1>1, <1>2, SessionSpec, PTL

-----------------------------------------------------------------------------
(***************************************************************************)
(* Watch.  Only the last timer is armed, and it is armed throughout a run; *)
(* as long as it has sent nothing, the ticks it has left and the ticks     *)
(* since the last activity are no fewer than its length.                   *)
(***************************************************************************)
TimerState == [armed : BOOLEAN, notified : BOOLEAN, length : Nat,
               left : Nat \cup {W!NotSet}]
NoticeRecord == [by : W!Timers, at : Nat, silent : Nat, in : W!Timers \cup {W!None},
                 quotes : W!Timers \cup {W!None}]

WatchTypes ==
  /\ turn \in BOOLEAN /\ running \in BOOLEAN
  /\ starts \in Nat /\ starts <= AgentStarts
  /\ timer \in W!Timers \cup {W!None} /\ partial \in W!Timers \cup {W!None}
  /\ timers \in [W!Timers -> TimerState]
  /\ now \in Nat /\ active \in Nat /\ active <= now
  /\ notices \subseteq NoticeRecord

\* The last timer is there, and armed, while the run goes on.
LastIsArmed ==
  /\ running => starts \in W!Timers /\ timer = starts /\ timers[starts].armed
  /\ ~running => timer = W!None
  /\ partial # W!None => partial <= starts
  /\ running => partial \in {W!None, starts}

\* The other timers are not armed, and none of them is set.
OthersAreDisarmed == \A t \in W!Timers :
  t # timer => ~timers[t].armed /\ timers[t].left = W!NotSet

\* What the last timer has left is at least what the silence lacks of its length:
\* a timer that is due may wait.
LeftIsRest == timer # W!None /\ ~timers[timer].notified =>
  /\ timers[timer].left \in Nat
  /\ timers[timer].left + (now - active) >= timers[timer].length

\* A notice was sent by a timer that will send no other.
Sent == \A n \in notices :
  /\ n.by <= starts
  /\ n.by = timer => timers[n.by].notified
  /\ n.silent >= timers[n.by].length

WatchInv == /\ WatchTypes /\ LastIsArmed /\ OthersAreDisarmed
            /\ LeftIsRest /\ Sent /\ W!NoticeIsDue

-----------------------------------------------------------------------------
\* No timer is set when the extension is loaded.
LEMMA WatchInit == ASSUME AgentStarts \in Nat, W!Init PROVE WatchInv
<1> USE DEF W!Timers, W!None, W!NotSet, W!Disarmed
<1>1. WatchTypes
  <2>1. W!Disarmed \in TimerState
    BY DEF TimerState
  <2>2. timers \in [W!Timers -> TimerState]
    BY <2>1 DEF W!Init
  <2>3. starts = 0 /\ timer = W!None /\ partial = W!None /\ now = 0 /\ active = 0 /\ notices = {}
    BY DEF W!Init
  <2>4. turn \in BOOLEAN /\ running \in BOOLEAN
    BY DEF W!Init
  <2> QED BY <2>2, <2>3, <2>4 DEF WatchTypes
<1>2. LastIsArmed /\ OthersAreDisarmed /\ LeftIsRest
  BY DEF W!Init, LastIsArmed, OthersAreDisarmed, LeftIsRest
<1>3. Sent /\ W!NoticeIsDue
  BY DEF W!Init, Sent, W!NoticeIsDue
<1> QED BY <1>1, <1>2, <1>3 DEF WatchInv

\* agent_start: the old timer is disarmed, and the new one has its whole length.
LEMMA AgentStartKeeps ==
  ASSUME Timeouts \subseteq Nat, AgentStarts \in Nat, WatchInv, W!AgentStart PROVE WatchInv'
<1> USE DEF WatchInv
<1>1. PICK length \in Timeouts :
        /\ starts < AgentStarts /\ starts' = starts + 1 /\ timer' = starts'
        /\ timers' = [W!OldDisarmed EXCEPT ![starts'] = W!Armed(length)]
        /\ running' = TRUE /\ partial' = W!None /\ active' = now
        /\ UNCHANGED <<turn, now, notices>>
  BY DEF W!AgentStart
<1>2. starts' \in W!Timers /\ length \in Nat
  BY <1>1 DEF WatchTypes, W!Timers
<1>3. \A t \in W!Timers : timers'[t] = IF t = starts' THEN W!Armed(length)
                                     ELSE IF t = timer THEN W!Disarmed ELSE timers[t]
  BY <1>1, <1>2 DEF W!OldDisarmed, W!AfterDisarm, WatchTypes, W!Timers, W!None
<1>4. timers' \in [W!Timers -> TimerState]
  <2>1. W!Armed(length) \in TimerState /\ W!Disarmed \in TimerState
    BY <1>2 DEF W!Armed, W!Disarmed, TimerState, W!NotSet
  <2>2. W!OldDisarmed \in [W!Timers -> TimerState]
    BY <2>1 DEF W!OldDisarmed, W!AfterDisarm, WatchTypes
  <2> QED BY <1>1, <2>1, <2>2
<1>5. WatchTypes'
  BY <1>1, <1>2, <1>4 DEF WatchTypes, W!Timers, W!None
<1>6. LastIsArmed'
  BY <1>1, <1>2, <1>3 DEF LastIsArmed, W!Armed, W!None
<1>7. OthersAreDisarmed'
  BY <1>1, <1>3 DEF OthersAreDisarmed, W!Disarmed
<1>8. LeftIsRest'
  BY <1>1, <1>2, <1>3 DEF LeftIsRest, W!Armed, WatchTypes
<1>9. Sent'
  <2> SUFFICES ASSUME NEW n \in notices
               PROVE  /\ n.by <= starts' /\ n.by # starts'
                      /\ n.silent >= timers'[n.by].length
    BY <1>1 DEF Sent
  <2>1. n.by \in W!Timers /\ n.silent \in Nat
    BY DEF WatchTypes, NoticeRecord
  <2>2. n.by <= starts /\ n.silent >= timers[n.by].length
    BY DEF Sent
  <2>3. n.by <= starts' /\ n.by # starts'
    BY <1>1, <2>1, <2>2 DEF WatchTypes, W!Timers
  <2>4. n.silent >= timers'[n.by].length
    BY <1>3, <2>1, <2>2, <2>3 DEF W!Disarmed
  <2> QED BY <2>3, <2>4
<1>10. W!NoticeIsDue'
  <2> SUFFICES ASSUME NEW n \in notices
               PROVE  n.silent >= timers'[n.by].length
    BY <1>1 DEF W!NoticeIsDue
  <2> QED BY <1>1, <1>9 DEF Sent
<1> QED BY <1>5, <1>6, <1>7, <1>8, <1>9, <1>10

\* message_update and the tool events: the silence begins anew.
LEMMA ActivityKeeps == ASSUME AgentStarts \in Nat, WatchInv, W!Activity PROVE WatchInv'
<1> USE DEF WatchInv
<1>1. /\ running /\ timer = starts /\ starts \in W!Timers /\ timer # W!None
      /\ timers' = [timers EXCEPT ![timer] = W!Touched(@)]
      /\ partial' \in {partial, starts} /\ active' = now
      /\ UNCHANGED <<turn, timer, running, starts, now, notices>>
  BY DEF W!Activity, LastIsArmed, W!Timers, W!None
<1>2. \A t \in W!Timers : timers[t] \in TimerState
  BY DEF WatchTypes
<1>3. \A t \in W!Timers : timers'[t] = IF t = timer THEN W!Touched(timers[t]) ELSE timers[t]
  BY <1>1 DEF WatchTypes
<1>4. \A t \in W!Timers : /\ timers'[t] \in TimerState
                          /\ timers'[t].armed = timers[t].armed
                          /\ timers'[t].notified = timers[t].notified
                          /\ timers'[t].length = timers[t].length
  BY <1>2, <1>3 DEF W!Touched, TimerState
<1>5. WatchTypes'
  <2>1. timers' \in [W!Timers -> TimerState]
    BY <1>1, <1>4 DEF WatchTypes
  <2> QED BY <1>1, <2>1 DEF WatchTypes
<1>6. LastIsArmed'
  BY <1>1, <1>4 DEF LastIsArmed, WatchTypes, W!None
<1>7. OthersAreDisarmed'
  BY <1>1, <1>3 DEF OthersAreDisarmed
<1>8. LeftIsRest'
  <2>1. timers[timer].armed
    BY <1>1 DEF LastIsArmed
  <2> SUFFICES ASSUME ~timers[timer].notified
               PROVE  /\ timers'[timer].left \in Nat
                      /\ timers'[timer].left + (now - now) >= timers[timer].length
    BY <1>1, <1>4 DEF LeftIsRest
  <2>2. timers'[timer].left = timers[timer].length
    BY <1>1, <1>2, <1>3, <2>1 DEF W!Touched, TimerState
  <2> QED BY <1>1, <1>2, <2>2 DEF TimerState, WatchTypes
<1>9. \A n \in notices : n.by \in W!Timers
  BY DEF WatchTypes, NoticeRecord
<1>10. Sent'
  BY <1>1, <1>4, <1>9 DEF Sent
<1>11. W!NoticeIsDue'
  BY <1>1, <1>4, <1>9 DEF W!NoticeIsDue
<1> QED BY <1>5, <1>6, <1>7, <1>8, <1>10, <1>11

\* agent_settled: the timer is disarmed and forgotten.
LEMMA SettledKeeps == ASSUME AgentStarts \in Nat, WatchInv, W!Settled PROVE WatchInv'
<1> USE DEF WatchInv
<1>1. /\ timer \in W!Timers /\ running' = FALSE /\ timer' = W!None
      /\ timers' = [timers EXCEPT ![timer] = W!Disarmed]
      /\ UNCHANGED <<turn, partial, starts, active, now, notices>>
  BY DEF W!Settled, W!AfterDisarm, LastIsArmed, W!Timers, W!None
<1>2. \A t \in W!Timers : timers'[t] = IF t = timer THEN W!Disarmed ELSE timers[t]
  BY <1>1 DEF WatchTypes
<1>3. WatchTypes'
  <2>1. W!Disarmed \in TimerState
    BY DEF W!Disarmed, TimerState, W!NotSet
  <2>2. timers' \in [W!Timers -> TimerState]
    BY <1>1, <2>1 DEF WatchTypes
  <2> QED BY <1>1, <2>2 DEF WatchTypes, W!None
<1>4. LastIsArmed' /\ OthersAreDisarmed' /\ LeftIsRest'
  BY <1>1, <1>2 DEF LastIsArmed, OthersAreDisarmed, LeftIsRest, W!Disarmed
<1>5. \A n \in notices : n.by \in W!Timers /\ n.by # W!None /\ n.silent \in Nat
  BY DEF WatchTypes, NoticeRecord, W!Timers, W!None
<1>6. Sent'
  BY <1>1, <1>2, <1>5 DEF Sent, W!Disarmed
<1>7. W!NoticeIsDue'
  BY <1>1, <1>6 DEF W!NoticeIsDue, Sent
<1> QED BY <1>3, <1>4, <1>6, <1>7

\* A tick: what a timer has left goes to the silence.
LEMMA TickKeeps == ASSUME AgentStarts \in Nat, WatchInv, W!Tick PROVE WatchInv'
<1> USE DEF WatchInv
<1>1. /\ now' = now + 1 /\ UNCHANGED <<turn, timer, running, partial, starts, active, notices>>
      /\ timers' = [t \in W!Timers |-> IF timers[t].left > 0
                                       THEN [timers[t] EXCEPT !.left = @ - 1] ELSE timers[t]]
  BY DEF W!Tick, W!runVars
<1>2. \A t \in W!Timers : timers[t] \in TimerState
  BY DEF WatchTypes
<1>3. \A t \in W!Timers : /\ timers'[t] \in TimerState
                          /\ timers'[t].armed = timers[t].armed
                          /\ timers'[t].notified = timers[t].notified
                          /\ timers'[t].length = timers[t].length
                          /\ timers'[t].left = IF timers[t].left > 0 THEN timers[t].left - 1
                                               ELSE timers[t].left
  BY <1>1, <1>2 DEF TimerState, W!NotSet
<1>4. WatchTypes'
  <2>1. timers' \in [W!Timers -> TimerState]
    BY <1>1, <1>3
  <2> QED BY <1>1, <2>1 DEF WatchTypes
<1>5. LastIsArmed'
  BY <1>1, <1>3 DEF LastIsArmed
<1>6. OthersAreDisarmed'
  BY <1>1, <1>3 DEF OthersAreDisarmed, W!NotSet
<1>7. LeftIsRest'
  <2> SUFFICES ASSUME timer # W!None, ~timers[timer].notified
               PROVE  /\ timers'[timer].left \in Nat
                      /\ timers'[timer].left + (now' - active) >= timers[timer].length
    BY <1>1, <1>3 DEF LeftIsRest, WatchTypes
  <2>1. /\ timer \in W!Timers /\ timers[timer].left \in Nat /\ timers[timer].length \in Nat
        /\ timers[timer].left + (now - active) >= timers[timer].length
    BY <1>2 DEF LeftIsRest, WatchTypes, TimerState
  <2> QED BY <1>1, <1>3, <2>1 DEF WatchTypes
<1>8. \A n \in notices : n.by \in W!Timers
  BY DEF WatchTypes, NoticeRecord
<1>9. Sent' /\ W!NoticeIsDue'
  BY <1>1, <1>3, <1>8 DEF Sent, W!NoticeIsDue
<1> QED BY <1>4, <1>5, <1>6, <1>7, <1>9

\* A timer that is due runs its callback: only the last one can be.
LEMMA FiresKeeps == ASSUME AgentStarts \in Nat, WatchInv, W!Fires PROVE WatchInv'
<1> USE DEF WatchInv
<1>1. PICK t \in W!Timers :
        /\ timers[t].left = 0
        /\ timers' = [timers EXCEPT ![t].left = W!NotSet, ![t].notified = @ \/ timers[t].armed]
        /\ notices' = IF timers[t].armed /\ ~timers[t].notified /\ turn
                        THEN notices \cup {[by |-> t, at |-> now, silent |-> now - active,
                               in |-> IF running THEN starts ELSE W!None, quotes |-> partial]}
                        ELSE notices
        /\ UNCHANGED <<turn, timer, running, partial, starts, active, now>>
  BY DEF W!Fires, W!runVars
<1>2. /\ t \in W!Timers
      /\ UNCHANGED <<turn, timer, running, partial, starts, active, now>>
  BY <1>1
<1>3. \A u \in W!Timers : timers[u] \in TimerState
  BY DEF WatchTypes
<1>4. t = timer /\ t # W!None
  BY <1>1 DEF OthersAreDisarmed, W!NotSet, W!Timers, W!None
<1>5. running /\ t = starts /\ timers[t].armed /\ partial \in {W!None, starts}
  BY <1>4 DEF LastIsArmed
<1>6. \A u \in W!Timers : /\ timers'[u].armed = timers[u].armed
                          /\ timers'[u].length = timers[u].length
                          /\ u # t => timers'[u] = timers[u]
                          /\ timers'[u] \in TimerState
  <2>1. timers'[t] = [armed |-> timers[t].armed, length |-> timers[t].length,
                      left |-> W!NotSet, notified |-> TRUE]
    <3>1. timers[t].notified \/ timers[t].armed <=> TRUE
      BY <1>5
    <3>2. timers[t] \in TimerState
      BY <1>3
    <3>3. timers'[t] = [timers[t] EXCEPT !.left = W!NotSet, !.notified = TRUE]
      BY <1>1, <3>1 DEF WatchTypes
    <3> QED BY <3>2, <3>3 DEF TimerState
  <2>2. \A u \in W!Timers : u # t => timers'[u] = timers[u]
    BY <1>1 DEF WatchTypes
  <2>3. /\ timers'[t].armed = timers[t].armed /\ timers'[t].length = timers[t].length
        /\ timers[t].armed \in BOOLEAN /\ timers[t].length \in Nat
    BY <1>3, <2>1 DEF TimerState
  <2>4. timers'[t] \in TimerState
    BY <2>1, <2>3 DEF TimerState
  <2> QED BY <1>3, <2>2, <2>3, <2>4
<1>7. timers'[t].notified
  BY <1>1, <1>3, <1>5 DEF TimerState, WatchTypes
<1>8. LastIsArmed' /\ OthersAreDisarmed' /\ LeftIsRest'
  <2>1. LastIsArmed'
    BY <1>2, <1>6 DEF LastIsArmed
  <2>2. OthersAreDisarmed'
    BY <1>2, <1>4, <1>6 DEF OthersAreDisarmed
  <2>3. LeftIsRest'
    BY <1>2, <1>4, <1>7 DEF LeftIsRest
  <2> QED BY <2>1, <2>2, <2>3
<1>9. timers' \in [W!Timers -> TimerState]
  BY <1>1, <1>6 DEF WatchTypes
<1>10. \A n \in notices : n.by \in W!Timers
  BY DEF WatchTypes, NoticeRecord
<1> DEFINE new == [by |-> t, at |-> now, silent |-> now - active,
                   in |-> IF running THEN starts ELSE W!None, quotes |-> partial]
<1>11. CASE notices' = notices
  <2>1. WatchTypes'
    BY <1>2, <1>9, <1>11 DEF WatchTypes
  <2>2. Sent' /\ W!NoticeIsDue'
    BY <1>2, <1>4, <1>6, <1>7, <1>10, <1>11 DEF Sent, W!NoticeIsDue
  <2> QED BY <1>8, <2>1, <2>2
<1>12. CASE ~timers[t].notified /\ notices' = notices \cup {new}
  <2>1. /\ new.by = t /\ new.in = t /\ new.quotes \in {W!None, t}
        /\ new.silent = now - active /\ new \in NoticeRecord
    BY <1>5 DEF NoticeRecord, WatchTypes
  <2>2. new.silent >= timers[t].length
    BY <1>1, <1>3, <1>4, <1>12, <2>1 DEF LeftIsRest, WatchTypes, TimerState
  <2>3. \A n \in notices : n.by # t
    BY <1>4, <1>12 DEF Sent
  <2> HIDE DEF new
  <2>4. WatchTypes'
    BY <1>2, <1>9, <1>12, <2>1 DEF WatchTypes
  <2>5. Sent'
    <3>1. t <= starts'
      BY <1>2, <1>5 DEF WatchTypes
    <3> SUFFICES ASSUME NEW n \in notices \cup {new}
                 PROVE  /\ n.by <= starts'
                        /\ n.by = timer' => timers'[n.by].notified
                        /\ n.silent >= timers'[n.by].length
      BY <1>12 DEF Sent
    <3>2. CASE n = new
      <4>1. n.by = t /\ n.silent >= timers[t].length
        BY <2>1, <2>2, <3>2
      <4>2. timers'[t].length = timers[t].length
        BY <1>2, <1>6
      <4>3. timers'[n.by].notified
        BY <1>7, <4>1, Zenon
      <4> QED BY <3>1, <4>1, <4>2, <4>3
    <3>3. CASE n \in notices
      <4>1. n.by \in W!Timers /\ n.by # t
        BY <1>10, <2>3, <3>3
      <4>2. timers'[n.by] = timers[n.by]
        BY <1>6, <4>1
      <4> QED BY <1>2, <3>3, <4>2 DEF Sent
    <3> QED BY <3>2, <3>3
  <2>6. W!NoticeIsDue'
    BY <1>6, <1>10, <1>12, <2>1, <2>2, <2>3 DEF W!NoticeIsDue
  <2> QED BY <1>8, <2>4, <2>5, <2>6
<1> QED BY <1>1, <1>11, <1>12

-----------------------------------------------------------------------------
\* Every step keeps the invariant; a turn that is handed to pi, or ends, leaves
\* the timers alone.
LEMMA WatchStepKeeps ==
  ASSUME Timeouts \subseteq Nat, AgentStarts \in Nat, WatchInv, [W!Next]_(W!watchVars)
  PROVE  WatchInv'
<1>1. CASE W!TurnChanges
  <2>1. turn' \in BOOLEAN /\ UNCHANGED <<timer, timers, running, partial, starts, active,
                                         now, notices>>
    BY <1>1 DEF W!TurnChanges, W!timerVars, W!runVars
  <2>2. WatchTypes' /\ LastIsArmed' /\ OthersAreDisarmed'
    BY <2>1 DEF WatchInv, WatchTypes, LastIsArmed, OthersAreDisarmed
  <2>3. LeftIsRest' /\ Sent' /\ W!NoticeIsDue'
    BY <2>1 DEF WatchInv, LeftIsRest, Sent, W!NoticeIsDue
  <2> QED BY <2>2, <2>3 DEF WatchInv
<1>2. CASE W!AgentStart BY <1>2, AgentStartKeeps
<1>3. CASE W!Activity BY <1>3, ActivityKeeps
<1>4. CASE W!Settled BY <1>4, SettledKeeps
<1>5. CASE W!Tick BY <1>5, TickKeeps
<1>6. CASE W!Fires BY <1>6, FiresKeeps
<1>7. CASE UNCHANGED W!watchVars
  <2>1. UNCHANGED <<turn, timer, timers, running, partial, starts, active, now, notices>>
    BY <1>7 DEF W!watchVars, W!timerVars, W!runVars
  <2>2. WatchTypes' /\ LastIsArmed' /\ OthersAreDisarmed'
    BY <2>1 DEF WatchInv, WatchTypes, LastIsArmed, OthersAreDisarmed
  <2>3. LeftIsRest' /\ Sent' /\ W!NoticeIsDue'
    BY <2>1 DEF WatchInv, LeftIsRest, Sent, W!NoticeIsDue
  <2> QED BY <2>2, <2>3 DEF WatchInv
<1> QED BY <1>1, <1>2, <1>3, <1>4, <1>5, <1>6, <1>7 DEF W!Next

\* A WeChat user is told that pi makes no progress only in a run that was
\* silent for its whole timeout, by the timer of its last agent_start and once
\* by it, and is shown no text of an earlier one (timeout.ts and the handlers of
\* agent_start, message_update and agent_settled in index.ts).
THEOREM NoticesAreDue ==
  ASSUME Timeouts \subseteq Nat, AgentStarts \in Nat PROVE PartsSpec => []NoticeIsDue
<1>1. PartsInit => WatchInv
  BY WatchInit DEF PartsInit
<1>2. WatchInv /\ [PartsNext]_partsVars => WatchInv'
  <2>1. [PartsNext]_partsVars => [W!Next]_(W!watchVars)
    BY DEF PartsNext, partsVars, watchVars, W!watchVars, W!timerVars, W!runVars
  <2> QED BY <2>1, WatchStepKeeps
<1>3. WatchInv => NoticeIsDue
  BY DEF WatchInv, NoticeIsDue
<1> QED BY <1>1, <1>2, <1>3, PTL DEF PartsSpec

-----------------------------------------------------------------------------
(***************************************************************************)
(* Pipeline.  What waits in a batch is of that batch, in order, and nobody *)
(* has dealt with it: neither was it handed to the handlers, nor handled   *)
(* by a middleware, nor lost.  Only the first message of a batch that      *)
(* waits for handlers was handed to them, after those of its batch before. *)
(* The token in memory is one the loop has looked at, and what an          *)
(* operation under way will store is the token, as long as nothing has     *)
(* touched it.                                                             *)
(***************************************************************************)

Pos == Nat \ {0}
Phases == {"none", "middleware", "handlers", "flush", "over"}
Logins4 == {"no", "clearing", "login", "failed"}
StorageOps == [by : P!Batch \cup {P!ClearAll, P!Clear}, value : Int]

PipeTypes ==
  /\ polled \in Nat /\ valid \in Pos
  /\ of \in [P!Message -> Int]
  /\ todo \in [P!Batch -> Seq(Pos)] /\ phase \in [P!Batch -> Phases]
  /\ dispatched \in Seq(Pos)
  /\ context \in Int /\ dirty \in BOOLEAN /\ stored \in Int
  /\ ops \subseteq StorageOps
  /\ relogin \in Logins4
  /\ touched \in BOOLEAN

\* Nothing is known of a message that was not polled.
Known ==
  /\ 1..polled \subseteq P!Message
  /\ user \subseteq 1..polled /\ dropped \subseteq 1..polled /\ thrown \subseteq 1..polled
  /\ lost \subseteq 1..polled /\ seen \subseteq 1..polled
  /\ \A i \in 1..Len(dispatched) : dispatched[i] \in 1..polled

WasDispatched(m) == \E i \in 1..Len(dispatched) : dispatched[i] = m

Dealt(m) == m \in dropped \/ m \in lost \/ WasDispatched(m)

\* Messages of a batch in order, none of them dealt with, and none before one
\* that was dispatched.
Waits(b, ms) ==
  /\ \A i \in 1..Len(ms) : ms[i] \in 1..polled /\ of[ms[i]] = b /\ ~Dealt(ms[i])
  /\ \A i, j \in 1..Len(ms) : i < j => ms[i] < ms[j]
  /\ \A d \in 1..Len(dispatched) : of[dispatched[d]] = b =>
       \A i \in 1..Len(ms) : dispatched[d] < ms[i]

\* Where a batch stands.
Stands(b) ==
  /\ phase[b] \in {"middleware", "handlers"} <=> todo[b] # <<>>
  /\ phase[b] = "middleware" => Waits(b, todo[b])
  /\ phase[b] = "handlers" => Waits(b, Tail(todo[b])) /\ WasDispatched(Head(todo[b]))
  /\ phase[b] = "none" => \A m \in 1..polled : of[m] # b

\* Dispatched once, in order, and neither dropped nor lost.
DispatchedOnce ==
  /\ \A i, j \in 1..Len(dispatched) : dispatched[i] = dispatched[j] => i = j
  /\ \A i \in 1..Len(dispatched) : dispatched[i] \notin dropped /\ dispatched[i] \notin lost
  /\ dropped \cap lost = {}
  /\ \A i, j \in 1..Len(dispatched) :
       i < j /\ of[dispatched[i]] = of[dispatched[j]] => dispatched[i] < dispatched[j]

\* The messages of the user.
UsersAre == \A m \in user : Dealt(m) \/ \E b \in P!Batch : \E i \in 1..Len(todo[b]) : todo[b][i] = m

\* Lost with, or after, one of their batch that threw.
LostByThrow == \A m \in lost : \E t \in thrown : of[t] = of[m] /\ t <= m

\* A batch that flushes waits for its one operation.
Flushes ==
  /\ \A o \in ops : o.by \in P!Batch => phase[o.by] = "flush"
  /\ \A o, p \in ops : o.by = p.by /\ o.by \in P!Batch => o = p

\* What will be in storage, and is.
Saves == ~touched =>
  /\ \A o, p \in ops : o = p
  /\ \A o \in ops : o.by # P!ClearAll => o.value = context
  /\ \A o \in ops : o.by \in P!Batch => dirty
  /\ ops = {} /\ ~dirty /\ relogin = "no" => stored = context

Stand == \A b \in P!Batch : Stands(b)

Places == Known /\ Stand /\ DispatchedOnce /\ UsersAre /\ LostByThrow /\ Flushes

PipeInv == PipeTypes /\ Places /\ Saves /\ P!CanSend

-----------------------------------------------------------------------------
\* GoOn leaves out the messages before the first one of the user, and waits for
\* its middleware, or flushes, or is over.
LeavesOut(b, ms, k) ==
  /\ \A i \in 1..k : ms[i] \notin user'
  /\ todo' = [todo EXCEPT ![b] = SubSeq(ms, k + 1, Len(ms))]
  /\ k < Len(ms) => phase' = [phase EXCEPT ![b] = "middleware"] /\ ops' = ops
  /\ k = Len(ms) =>
       \/ phase' = [phase EXCEPT ![b] = "over"] /\ ops' = ops
       \/ phase' = [phase EXCEPT ![b] = "flush"] /\ ops' = ops \cup {P!Op(b, context')} /\ dirty'

\* Going on with the next message of a batch, or with the flush.
LEMMA GoOnIs ==
  ASSUME PipeTypes, NEW b \in P!Batch, NEW ms \in Seq(Pos), P!GoOn(b, ms)
  PROVE  \E k \in 0..Len(ms) : LeavesOut(b, ms, k)
<1> DEFINE first == P!FirstOf(ms)
<1>1. Len(ms) \in Nat /\ DOMAIN ms = 1..Len(ms)
  OBVIOUS
<1>2. CASE first = {}
  <2>1. \A i \in 1..Len(ms) : ms[i] \notin user'
    <3> DEFINE theirs == {i \in 1..Len(ms) : ms[i] \in user'}
    <3> SUFFICES ASSUME theirs # {} PROVE FALSE
      OBVIOUS
    <3>1. PICK x \in theirs : \A y \in theirs : x <= y
      <4>1. theirs \in SUBSET Nat
        BY <1>1
      <4> QED BY <4>1, LeastOf
    <3>2. x \in first
      BY <1>1, <3>1 DEF P!FirstOf
    <3> QED BY <1>2, <3>2
  <2>2. SubSeq(ms, Len(ms) + 1, Len(ms)) = <<>>
    BY <1>1, SubSeqEmpty
  <2>3. todo' = [todo EXCEPT ![b] = <<>>]
    BY <1>2 DEF P!GoOn
  <2>4. \/ phase' = [phase EXCEPT ![b] = "over"] /\ ops' = ops
        \/ phase' = [phase EXCEPT ![b] = "flush"] /\ ops' = ops \cup {P!Op(b, context')} /\ dirty'
    BY <1>2 DEF P!GoOn, P!StartFlush
  <2> HIDE DEF first
  <2>5. todo' = [todo EXCEPT ![b] = SubSeq(ms, Len(ms) + 1, Len(ms))]
    BY <2>2, <2>3
  <2>6. ~(Len(ms) < Len(ms))
    BY <1>1
  <2> DEFINE n == Len(ms)
  <2> HIDE DEF n
  <2>7. LeavesOut(b, ms, n)
    BY <2>1, <2>4, <2>5, <2>6 DEF LeavesOut, n
  <2> QED BY <1>1, <2>7 DEF n
<1>3. CASE first # {}
  <2> DEFINE last == CHOOSE i \in first : TRUE
  <2>1. last \in first
    BY <1>3
  <2>2. last \in 1..Len(ms) /\ \A i \in 1..(last - 1) : ms[i] \notin user'
    BY <1>1, <2>1 DEF P!FirstOf
  <2>3. todo' = [todo EXCEPT ![b] = SubSeq(ms, last, Len(ms))]
    BY <1>3 DEF P!GoOn
  <2>4. phase' = [phase EXCEPT ![b] = "middleware"] /\ ops' = ops
    BY <1>3 DEF P!GoOn
  <2> HIDE DEF first, last
  <2>5. last - 1 \in 0..Len(ms) /\ (last - 1) + 1 = last /\ last - 1 # Len(ms)
    BY <1>1, <2>2
  <2>6. LeavesOut(b, ms, last - 1)
    BY <2>2, <2>3, <2>4, <2>5 DEF LeavesOut
  <2> QED BY <2>5, <2>6
<1> QED BY <1>2, <1>3

\* Meanwhile some of the messages it looks at have a token.
Remembers(ms, tokens) ==
  /\ \A t \in tokens : \E i \in 1..Len(ms) : t = ms[i]
  /\ seen' = seen \cup tokens
  /\ tokens = {} => context' = context /\ dirty' = dirty
  /\ tokens # {} => context' \in tokens /\ dirty' = TRUE
  /\ touched' = ((touched /\ tokens = {}) \/ (ops # {} /\ (tokens # {} \/ ops' # ops)))

\* Those are messages of the batch; the last of them is remembered.
LEMMA GoOnToken ==
  ASSUME PipeTypes, NEW b \in P!Batch, NEW ms \in Seq(Pos), P!GoOn(b, ms)
  PROVE  \E tokens \in SUBSET Pos : Remembers(ms, tokens)
<1> DEFINE first == P!FirstOf(ms)
           last == IF first = {} THEN Len(ms) ELSE CHOOSE i \in first : TRUE
<1>1. PICK tokens \in SUBSET P!ToSet(SubSeq(ms, 1, last)) :
        /\ seen' = seen \cup tokens /\ P!Remembered(tokens) /\ P!Disturbs(tokens # {})
  BY DEF P!GoOn
<1>2. Len(ms) \in Nat /\ DOMAIN ms = 1..Len(ms) /\ first \subseteq 1..Len(ms)
  BY DEF P!FirstOf
<1>3. last \in 0..Len(ms)
  <2>1. CASE first = {}
    BY <1>2, <2>1
  <2>2. CASE first # {}
    <3>1. last \in first
      BY <2>2
    <3> QED BY <1>2, <3>1
  <2> QED BY <2>1, <2>2
<1>4. \A t \in tokens : \E i \in 1..Len(ms) : t = ms[i]
  <2> DEFINE l == last
  <2> HIDE DEF l
  <2>1. l \in 0..Len(ms) /\ tokens \in SUBSET P!ToSet(SubSeq(ms, 1, l))
    BY <1>1, <1>3 DEF l
  <2>2. DOMAIN SubSeq(ms, 1, l) = 1..l /\ \A i \in 1..l : SubSeq(ms, 1, l)[i] = ms[i]
    BY <1>2, <2>1
  <2>3. \A t \in tokens : \E i \in 1..l : t = ms[i]
    BY <2>1, <2>2 DEF P!ToSet
  <2>4. 1..l \subseteq 1..Len(ms)
    BY <1>2, <2>1
  <2> QED BY <2>3, <2>4
<1>5. tokens \in SUBSET Pos
  BY <1>2, <1>4
<1>6. Remembers(ms, tokens)
  BY <1>1, <1>4 DEF P!Remembered, P!Latest, P!Disturbs, Remembers
<1> QED BY <1>5, <1>6

\* What of a sequence is left after the first k.
LEMMA RestIs ==
  ASSUME NEW ms \in Seq(Pos), NEW k \in 0..Len(ms), NEW rest, rest = SubSeq(ms, k + 1, Len(ms))
  PROVE  rest \in Seq(Pos) /\ Len(rest) = Len(ms) - k /\ \A i \in 1..Len(rest) : rest[i] = ms[k + i]
<1>1. Len(ms) \in Nat
  OBVIOUS
<1>2. CASE k = Len(ms)
  <2>1. rest = <<>>
    BY <1>1, <1>2, SubSeqEmpty
  <2> QED BY <1>1, <1>2, <2>1
<1>3. CASE k # Len(ms)
  <2>1. k + 1 \in 1..Len(ms) /\ Len(ms) \in 1..Len(ms)
    BY <1>1, <1>3
  <2> QED BY <1>1, <2>1
<1> QED BY <1>2, <1>3

\* GoOn keeps the types.
LEMMA GoOnTypes ==
  ASSUME PipeTypes, NEW b \in P!Batch, NEW ms \in Seq(Pos), P!GoOn(b, ms)
  PROVE  /\ todo' \in [P!Batch -> Seq(Pos)] /\ phase' \in [P!Batch -> Phases]
         /\ context' \in Int /\ dirty' \in BOOLEAN /\ ops' \subseteq StorageOps
         /\ touched' \in BOOLEAN
<1>1. PICK k \in 0..Len(ms) : LeavesOut(b, ms, k)
  BY GoOnIs
<1>2. context' \in Int /\ dirty' \in BOOLEAN /\ touched' \in BOOLEAN
  <2>1. PICK tokens \in SUBSET Pos : Remembers(ms, tokens)
    BY GoOnToken
  <2>2. tokens # {} => context' \in Pos /\ dirty' = TRUE
    BY <2>1 DEF Remembers
  <2>3. tokens = {} => context' = context /\ dirty' = dirty
    BY <2>1 DEF Remembers
  <2>4. touched' \in BOOLEAN
    BY <2>1 DEF Remembers
  <2>5. context' \in Int
    BY <2>2, <2>3 DEF PipeTypes, Pos
  <2>6. dirty' \in BOOLEAN
    BY <2>2, <2>3 DEF PipeTypes
  <2> QED BY <2>4, <2>5, <2>6
<1>3. SubSeq(ms, k + 1, Len(ms)) \in Seq(Pos)
  BY RestIs
<1>4. todo' \in [P!Batch -> Seq(Pos)]
  BY <1>1, <1>3 DEF LeavesOut, PipeTypes
<1>5. Len(ms) \in Nat
  OBVIOUS
<1>6. k < Len(ms) \/ k = Len(ms)
  BY <1>5
<1>7. P!Op(b, context') \in StorageOps
  BY <1>2 DEF P!Op, StorageOps
<1>8. phase' \in [P!Batch -> Phases] /\ ops' \subseteq StorageOps
  BY <1>1, <1>6, <1>7 DEF LeavesOut, PipeTypes, Phases
<1> QED BY <1>2, <1>4, <1>8

\* What GoOn keeps of the token.
LEMMA GoOnSaves ==
  ASSUME PipeTypes, Saves, P!CanSend, NEW b \in P!Batch, NEW ms \in Seq(Pos), P!GoOn(b, ms),
         stored' = stored, relogin' = relogin, valid' = valid
  PROVE  Saves' /\ P!CanSend'
<1>1. PICK k \in 0..Len(ms) : LeavesOut(b, ms, k)
  BY GoOnIs
<1>2. PICK tokens \in SUBSET Pos : Remembers(ms, tokens)
  BY GoOnToken
<1>3. ops' = ops \/ (ops' = ops \cup {P!Op(b, context')} /\ dirty')
  <2>1. Len(ms) \in Nat
    OBVIOUS
  <2>2. k < Len(ms) \/ k = Len(ms)
    BY <2>1
  <2> QED BY <1>1, <2>2 DEF LeavesOut
<1>4. b # P!ClearAll /\ b # P!Clear
  BY DEF P!Batch, P!ClearAll, P!Clear
<1>5. P!Op(b, context').by = b /\ P!Op(b, context').value = context'
  BY DEF P!Op
<1>6. Saves'
  <2> HIDE DEF P!Op
  <2> SUFFICES ASSUME ~touched'
               PROVE  /\ \A o, p \in ops' : o = p
                      /\ \A o \in ops' : o.by # P!ClearAll => o.value = context'
                      /\ \A o \in ops' : o.by \in P!Batch => dirty'
                      /\ ops' = {} /\ ~dirty' /\ relogin' = "no" => stored' = context'
    BY DEF Saves
  <2>1. CASE tokens # {}
    <3>1. ops = {} /\ dirty' = TRUE
      BY <1>2, <2>1 DEF Remembers
    <3>2. ops' = {} \/ ops' = {P!Op(b, context')}
      BY <1>3, <3>1
    <3> QED BY <1>5, <3>1, <3>2
  <2>2. CASE tokens = {}
    <3>1. ~touched /\ (ops = {} \/ ops' = ops) /\ context' = context /\ dirty' = dirty
      BY <1>2, <2>2 DEF Remembers
    <3>2. CASE ops' = ops
      BY <3>1, <3>2 DEF Saves
    <3>3. CASE ops = {} /\ ops' # ops
      <4>1. ops' = {P!Op(b, context')} /\ dirty'
        BY <1>3, <3>3
      <4> QED BY <1>5, <4>1
    <3> QED BY <3>1, <3>2, <3>3
  <2> QED BY <2>1, <2>2
<1>7. P!CanSend'
  <2>1. CASE tokens # {}
    BY <1>2, <2>1 DEF Remembers, P!CanSend, P!NoMessage, Pos
  <2>2. CASE tokens = {}
    <3>1. seen' = seen /\ context' = context
      BY <1>2, <2>2 DEF Remembers
    <3> QED BY <3>1 DEF P!CanSend
  <2> QED BY <2>1, <2>2
<1> QED BY <1>6, <1>7

\* What the step of another batch leaves of where a batch stands.
LEMMA OthersStand ==
  ASSUME PipeTypes, Places, NEW c \in P!Batch, todo'[c] = todo[c], phase'[c] = phase[c],
         polled' \in Nat, polled <= polled',
         \A m \in 1..polled : of'[m] = of[m],
         \A m \in 1..polled' : m \notin 1..polled => of'[m] # c,
         \A m \in 1..polled : of[m] = c => (Dealt(m)' <=> Dealt(m)),
         \A i \in 1..Len(dispatched) : i \in 1..Len(dispatched') /\ dispatched'[i] = dispatched[i],
         \A i \in 1..Len(dispatched') :
           of'[dispatched'[i]] = c => i \in 1..Len(dispatched)
  PROVE  Stands(c)'
<1>1. polled \in Nat /\ 1..polled \subseteq 1..polled'
  BY DEF PipeTypes
<1>2. ASSUME NEW ms, Waits(c, ms) PROVE Waits(c, ms)'
  <2>1. \A i \in 1..Len(ms) : ms[i] \in 1..polled /\ of[ms[i]] = c /\ ~Dealt(ms[i])
    BY <1>2 DEF Waits
  <2>2. \A i \in 1..Len(ms) : ms[i] \in 1..polled' /\ of'[ms[i]] = c /\ ~Dealt(ms[i])'
    BY <1>1, <2>1
  <2>3. ASSUME NEW d \in 1..Len(dispatched'), of'[dispatched'[d]] = c
        PROVE  \A i \in 1..Len(ms) : dispatched'[d] < ms[i]
    <3>1. d \in 1..Len(dispatched) /\ dispatched'[d] = dispatched[d]
      BY <2>3
    <3>2. dispatched[d] \in 1..polled
      BY <3>1 DEF Places, Known
    <3>3. of[dispatched[d]] = c
      BY <2>3, <3>1, <3>2
    <3> QED BY <1>2, <3>1, <3>3 DEF Waits
  <2> QED BY <1>2, <2>2, <2>3 DEF Waits
<1>3. Stands(c)
  BY DEF Places, Stand
<1>4. phase[c] = "none" => \A m \in 1..polled' : of'[m] # c
  BY <1>1, <1>3 DEF Stands
<1>5. WasDispatched(Head(todo[c])) => WasDispatched(Head(todo[c]))'
  BY DEF WasDispatched
<1> QED BY <1>2, <1>3, <1>4, <1>5 DEF Stands

\* After GoOn its batch stands before the next message of the user, and no user's
\* message has left it; the other batches are where they were.
LEMMA GoOnStands ==
  ASSUME PipeTypes, Flushes, NEW b \in P!Batch, NEW ms \in Seq(Pos), P!GoOn(b, ms),
         phase[b] # "flush", Waits(b, ms)'
  PROVE  /\ Stands(b)' /\ Flushes'
         /\ \A c \in P!Batch \ {b} : todo'[c] = todo[c] /\ phase'[c] = phase[c]
         /\ \A i \in 1..Len(ms) :
              ms[i] \in user' => \E j \in 1..Len(todo'[b]) : todo'[b][j] = ms[i]
<1>1. PICK k \in 0..Len(ms) : LeavesOut(b, ms, k)
  BY GoOnIs
<1>2. PICK rest : rest = SubSeq(ms, k + 1, Len(ms))
  OBVIOUS
<1>3. rest \in Seq(Pos) /\ Len(rest) = Len(ms) - k /\ \A i \in 1..Len(rest) : rest[i] = ms[k + i]
  BY <1>2, RestIs
<1>4. Len(ms) \in Nat /\ Len(rest) \in Nat /\ k \in Nat /\ k <= Len(ms)
  BY <1>3
<1>5. \A i \in 1..Len(rest) : k + i \in 1..Len(ms)
  BY <1>3, <1>4
<1>6. todo'[b] = rest /\ \A c \in P!Batch \ {b} : todo'[c] = todo[c]
  BY <1>1, <1>2 DEF LeavesOut, PipeTypes
<1>7. \A c \in P!Batch \ {b} : phase'[c] = phase[c]
  <2>1. k < Len(ms) \/ k = Len(ms)
    BY <1>4
  <2> QED BY <1>1, <2>1 DEF LeavesOut, PipeTypes
<1>8. \/ rest # <<>> /\ phase'[b] = "middleware" /\ ops' = ops
      \/ rest = <<>> /\ phase'[b] = "over" /\ ops' = ops
      \/ rest = <<>> /\ phase'[b] = "flush" /\ ops' = ops \cup {P!Op(b, context')}
  <2>1. CASE k < Len(ms)
    <3>1. rest # <<>>
      BY <1>3, <1>4, <2>1
    <3> QED BY <1>1, <2>1, <3>1 DEF LeavesOut, PipeTypes
  <2>2. CASE k = Len(ms)
    <3>1. rest = <<>>
      BY <1>3, <1>4, <2>2
    <3> QED BY <1>1, <2>2, <3>1 DEF LeavesOut, PipeTypes
  <2> QED BY <1>4, <2>1, <2>2
<1>9. Waits(b, rest)'
  <2>1. /\ \A i \in 1..Len(ms) : ms[i] \in 1..polled' /\ of'[ms[i]] = b /\ ~Dealt(ms[i])'
        /\ \A i, j \in 1..Len(ms) : i < j => ms[i] < ms[j]
        /\ \A d \in 1..Len(dispatched') : of'[dispatched'[d]] = b =>
             \A i \in 1..Len(ms) : dispatched'[d] < ms[i]
    BY DEF Waits
  <2>2. \A i \in 1..Len(rest) : rest[i] \in 1..polled' /\ of'[rest[i]] = b
    BY <1>3, <1>5, <2>1
  <2>3. \A i \in 1..Len(rest) : ~Dealt(rest[i])'
    <3> SUFFICES ASSUME NEW i \in 1..Len(rest) PROVE ~Dealt(rest[i])'
      OBVIOUS
    <3>1. rest[i] = ms[k + i] /\ k + i \in 1..Len(ms)
      BY <1>3, <1>5
    <3>2. ~Dealt(ms[k + i])'
      BY <2>1, <3>1
    <3> QED BY <3>1, <3>2 DEF Dealt, WasDispatched
  <2>4. ASSUME NEW i \in 1..Len(rest), NEW j \in 1..Len(rest), i < j PROVE rest[i] < rest[j]
    <3>1. k + i < k + j
      BY <1>4, <2>4
    <3>2. ms[k + i] < ms[k + j]
      BY <1>5, <2>1, <3>1
    <3> QED BY <1>3, <3>2
  <2>5. \A d \in 1..Len(dispatched') : of'[dispatched'[d]] = b =>
          \A i \in 1..Len(rest) : dispatched'[d] < rest[i]
    BY <1>3, <1>5, <2>1
  <2> QED BY <2>2, <2>3, <2>4, <2>5 DEF Waits
<1>10. Stands(b)'
  <2>1. CASE rest # <<>>
    BY <1>6, <1>8, <1>9, <2>1 DEF Stands
  <2>2. CASE rest = <<>>
    BY <1>6, <1>8, <2>2 DEF Stands
  <2> QED BY <2>1, <2>2
<1>11. ASSUME NEW i \in 1..Len(ms), ms[i] \in user'
       PROVE  \E j \in 1..Len(todo'[b]) : todo'[b][j] = ms[i]
  <2>1. i > k
    BY <1>1, <1>4, <1>11 DEF LeavesOut
  <2>2. i - k \in 1..Len(rest) /\ k + (i - k) = i
    BY <1>3, <1>4, <2>1
  <2>3. rest[i - k] = ms[i]
    BY <1>3, <2>2
  <2> QED BY <1>6, <2>2, <2>3
<1>12. Flushes'
  <2>1. \A o \in ops : o.by \in P!Batch => phase[o.by] = "flush" /\ o.by # b
    BY DEF Flushes
  <2>2. \A o \in ops : o.by \in P!Batch => phase'[o.by] = "flush"
    BY <1>7, <2>1
  <2>3. CASE ops' = ops
    BY <2>2, <2>3 DEF Flushes
  <2>4. CASE phase'[b] = "flush" /\ ops' = ops \cup {P!Op(b, context')}
    <3>1. P!Op(b, context').by = b
      BY DEF P!Op
    <3> HIDE DEF P!Op
    <3>2. \A o \in ops' : o.by \in P!Batch => phase'[o.by] = "flush"
      BY <2>2, <2>4, <3>1
    <3>3. \A o, p \in ops' : o.by = p.by /\ o.by \in P!Batch => o = p
      BY <2>1, <2>4, <3>1 DEF Flushes
    <3> QED BY <3>2, <3>3 DEF Flushes
  <2> QED BY <1>8, <2>3, <2>4
<1> QED BY <1>6, <1>7, <1>10, <1>11, <1>12

\* What waits behind the first message of a batch.
LEMMA TailIs ==
  ASSUME NEW s \in Seq(Pos), s # <<>>
  PROVE  /\ Head(s) = s[1] /\ s[1] \in Pos /\ Tail(s) \in Seq(Pos) /\ 1 \in 1..Len(s)
         /\ \A i \in 1..Len(Tail(s)) :
              i + 1 \in 1..Len(s) /\ 1 < i + 1 /\ i + 1 \in Int /\ Tail(s)[i] = s[i + 1]
         /\ \A i \in 1..Len(s) : i = 1 \/ \E j \in 1..Len(Tail(s)) : s[i] = Tail(s)[j]
<1>1. /\ Len(s) \in Nat \ {0} /\ Head(s) = s[1] /\ s[1] \in Pos /\ Tail(s) \in Seq(Pos)
      /\ Len(Tail(s)) = Len(s) - 1 /\ \A i \in 1..Len(Tail(s)) : Tail(s)[i] = s[i + 1]
  OBVIOUS
<1>2. \A i \in 1..Len(Tail(s)) : i + 1 \in 1..Len(s) /\ 1 < i + 1 /\ i + 1 \in Int
  BY <1>1
<1>3. ASSUME NEW i \in 1..Len(s), i # 1 PROVE \E j \in 1..Len(Tail(s)) : s[i] = Tail(s)[j]
  <2>1. i - 1 \in 1..Len(Tail(s)) /\ (i - 1) + 1 = i
    BY <1>1, <1>3
  <2> QED BY <1>1, <2>1
<1> QED BY <1>1, <1>2, <1>3

\* The messages of a batch, and the one it has just handed to the middleware.
FirstIs(b, s, m, ms) ==
  /\ s = todo[b] /\ m = Head(todo[b]) /\ ms = Tail(todo[b])
  /\ m \in 1..polled /\ of[m] = b /\ ~Dealt(m)
  /\ \A d \in 1..Len(dispatched) : of[dispatched[d]] = b => dispatched[d] < m
  /\ Waits(b, s) /\ Waits(b, ms)
  /\ \A i \in 1..Len(ms) : m < ms[i]
  /\ \A i \in 1..Len(s) : s[i] = m \/ \E j \in 1..Len(ms) : s[i] = ms[j]
  /\ \A i \in 1..Len(s) : m <= s[i] /\ of[s[i]] = b /\ s[i] \in 1..polled
  /\ \E i \in 1..Len(s) : s[i] = m

\* That message is before all others of the batch that nobody has dealt with.
LEMMA HeadWaits ==
  ASSUME PipeTypes, Places, NEW b \in P!Batch, phase[b] = "middleware"
  PROVE  \E s \in Seq(Pos), m \in Pos, ms \in Seq(Pos) : FirstIs(b, s, m, ms)
<1>1. PICK s \in Seq(Pos) : s = todo[b]
  BY DEF PipeTypes
<1>2. s # <<>> /\ Waits(b, s)
  BY <1>1 DEF Places, Stand, Stands
<1>3. PICK m \in Pos, ms \in Seq(Pos) :
        /\ m = Head(s) /\ m = s[1] /\ ms = Tail(s) /\ 1 \in 1..Len(s)
        /\ \A i \in 1..Len(ms) : i + 1 \in 1..Len(s) /\ 1 < i + 1 /\ i + 1 \in Int /\ ms[i] = s[i + 1]
        /\ \A i \in 1..Len(s) : i = 1 \/ \E j \in 1..Len(ms) : s[i] = ms[j]
  BY <1>2, TailIs
<1>4. /\ \A i \in 1..Len(s) : s[i] \in 1..polled /\ of[s[i]] = b /\ ~Dealt(s[i])
      /\ \A i, j \in 1..Len(s) : i < j => s[i] < s[j]
      /\ \A d \in 1..Len(dispatched) : of[dispatched[d]] = b =>
           \A i \in 1..Len(s) : dispatched[d] < s[i]
  BY <1>2 DEF Waits
<1>5. m \in 1..polled /\ of[m] = b /\ ~Dealt(m)
  <2>1. m = s[1] /\ 1 \in 1..Len(s)
    BY <1>3
  <2> QED BY <1>4, <2>1
<1>6. \A d \in 1..Len(dispatched) : of[dispatched[d]] = b => dispatched[d] < m
  BY <1>3, <1>4
<1>7. Waits(b, ms)
  <2>1. \A i \in 1..Len(ms) : ms[i] \in 1..polled /\ of[ms[i]] = b /\ ~Dealt(ms[i])
    <3> SUFFICES ASSUME NEW i \in 1..Len(ms)
                 PROVE  ms[i] \in 1..polled /\ of[ms[i]] = b /\ ~Dealt(ms[i])
      OBVIOUS
    <3>1. ms[i] = s[i + 1] /\ i + 1 \in 1..Len(s)
      BY <1>3
    <3> QED BY <1>4, <3>1
  <2>2. ASSUME NEW i \in 1..Len(ms), NEW j \in 1..Len(ms), i < j PROVE ms[i] < ms[j]
    <3>1. i + 1 < j + 1
      BY <2>2
    <3> QED BY <1>3, <1>4, <3>1
  <2>3. \A d \in 1..Len(dispatched) : of[dispatched[d]] = b =>
          \A i \in 1..Len(ms) : dispatched[d] < ms[i]
    BY <1>3, <1>4
  <2> QED BY <2>1, <2>2, <2>3 DEF Waits
<1>8. \A i \in 1..Len(ms) : m < ms[i]
  BY <1>3, <1>4
<1>9. \A i \in 1..Len(s) : s[i] = m \/ \E j \in 1..Len(ms) : s[i] = ms[j]
  BY <1>3
<1>10. ASSUME NEW i \in 1..Len(s) PROVE m <= s[i]
  <2>1. CASE s[i] = m
    BY <2>1 DEF Pos
  <2>2. CASE \E j \in 1..Len(ms) : s[i] = ms[j]
    <3>1. PICK j \in 1..Len(ms) : s[i] = ms[j]
      BY <2>2
    <3>2. m < ms[j] /\ ms[j] \in Pos
      BY <1>8
    <3> QED BY <3>1, <3>2 DEF Pos
  <2> QED BY <1>9, <2>1, <2>2
<1>11. s = todo[b] /\ m = Head(todo[b]) /\ ms = Tail(todo[b])
  BY <1>1, <1>3
<1>12. FirstIs(b, s, m, ms)
  BY <1>2, <1>3, <1>4, <1>5, <1>6, <1>7, <1>8, <1>9, <1>10, <1>11 DEF FirstIs
<1> QED BY <1>12

\* The listener starts with a batch: it holds messages nobody has seen.
LEMMA PollKeeps ==
  ASSUME PipeInv, NEW b \in P!Batch, NEW n \in 1..BatchSize, P!Poll(b, n)
  PROVE  PipeInv'
<1> USE DEF PipeInv
<1>1. PICK theirs \in SUBSET {polled + i : i \in 1..n} :
        /\ phase[b] = "none"
        /\ polled + n <= Messages
        /\ polled' = polled + n /\ user' = user \cup theirs
        /\ of' = [m \in P!Message |-> IF m \in (polled + 1)..(polled + n) THEN b ELSE of[m]]
        /\ P!GoOn(b, [i \in 1..n |-> polled + i])
        /\ UNCHANGED <<dispatched, dropped, thrown, lost, stored, valid, relogin>>
  BY DEF P!Poll, P!fateVars
<1>2. /\ polled \in Nat /\ polled' \in Nat /\ polled <= polled' /\ n \in Nat /\ 1 \in 1..n
      /\ 1..polled \subseteq 1..polled'
  BY <1>1, PartsAssumption DEF PipeTypes, P!PipelineAssumption
<1>3. PICK ms \in Seq(Pos) : /\ ms = [i \in 1..n |-> polled + i]
                             /\ Len(ms) = n /\ \A i \in 1..n : ms[i] = polled + i
  <2> DEFINE s == [i \in 1..n |-> polled + i]
  <2>1. s \in [1..n -> Pos]
    BY <1>2 DEF Pos
  <2>2. DOMAIN s = 1..n /\ \A i \in 1..n : s[i] = polled + i
    OBVIOUS
  <2> HIDE DEF s
  <2>3. s \in Seq(Pos)
    BY <1>2, <2>1, SeqDef
  <2>4. Len(s) = n
    BY <1>2, <2>2, <2>3, LenProperties
  <2> QED BY <2>2, <2>3, <2>4 DEF s
<1>4. P!GoOn(b, ms)
  BY <1>1, <1>3
<1>5. /\ \A i \in 1..Len(ms) : ms[i] \in 1..polled' /\ ms[i] \notin 1..polled
      /\ \A i, j \in 1..Len(ms) : i < j => ms[i] < ms[j]
      /\ theirs \subseteq 1..polled'
      /\ \A m \in theirs : \E i \in 1..Len(ms) : ms[i] = m
  <2>1. /\ \A i \in 1..Len(ms) : ms[i] \in 1..polled' /\ ms[i] \notin 1..polled
        /\ \A i, j \in 1..Len(ms) : i < j => ms[i] < ms[j]
    BY <1>1, <1>2, <1>3
  <2>2. \A m \in theirs : \E i \in 1..n : m = polled + i
    BY <1>1
  <2>3. theirs \subseteq 1..polled'
    BY <1>1, <1>2, <2>2
  <2> QED
    BY <1>3, <2>1, <2>2, <2>3
<1>6. Known /\ DispatchedOnce /\ UsersAre /\ LostByThrow /\ Flushes /\ Stands(b)
  BY DEF Places, Stand
<1>7. todo[b] = <<>> /\ \A m \in 1..polled : of[m] # b
  BY <1>1, <1>6 DEF Stands
<1>8. 1..polled' \subseteq P!Message
  BY <1>1, <1>2, PartsAssumption DEF P!PipelineAssumption, P!Message
<1>9. /\ \A m \in 1..polled : of'[m] = of[m]
      /\ \A m \in 1..polled' : m \notin 1..polled => of'[m] = b
  <2>1. \A m \in P!Message : of'[m] = IF m \in (polled + 1)..(polled + n) THEN b ELSE of[m]
    BY <1>1
  <2>2. \A m \in 1..polled : m \notin (polled + 1)..(polled + n)
    BY <1>2
  <2>3. \A m \in 1..polled' : m \notin 1..polled => m \in (polled + 1)..(polled + n)
    BY <1>1, <1>2
  <2> QED BY <1>2, <1>8, <2>1, <2>2, <2>3
<1>10. PipeTypes'
  <2>1. of' \in [P!Message -> Int]
    <3>1. b \in Int
      BY DEF P!Batch
    <3>2. \A m \in P!Message : (IF m \in (polled + 1)..(polled + n) THEN b ELSE of[m]) \in Int
      BY <3>1 DEF PipeTypes
    <3> QED BY <1>1, <3>2
  <2>2. polled' \in Nat /\ valid' = valid /\ dispatched' = dispatched /\ stored' = stored
        /\ relogin' = relogin
    BY <1>1, <1>2
  <2> QED BY <2>1, <2>2, <1>4, GoOnTypes DEF PipeTypes
<1>11. \A m : Dealt(m)' <=> Dealt(m)
  BY <1>1 DEF Dealt, WasDispatched
<1>12. Waits(b, ms)'
  <2>1. ASSUME NEW i \in 1..Len(ms) PROVE ms[i] \in 1..polled' /\ of'[ms[i]] = b /\ ~Dealt(ms[i])'
    <3>1. ms[i] \in 1..polled' /\ ms[i] \notin 1..polled
      BY <1>5
    <3>2. ~Dealt(ms[i])
      BY <1>6, <3>1 DEF Dealt, WasDispatched, Known
    <3> QED BY <1>9, <1>11, <3>1, <3>2
  <2>2. \A d \in 1..Len(dispatched') : of'[dispatched'[d]] # b
    BY <1>1, <1>6, <1>7, <1>9 DEF Known
  <2> QED BY <1>5, <2>1, <2>2 DEF Waits
<1>13. /\ Stands(b)' /\ Flushes'
       /\ \A c \in P!Batch \ {b} : todo'[c] = todo[c] /\ phase'[c] = phase[c]
       /\ \A i \in 1..Len(ms) :
            ms[i] \in user' => \E j \in 1..Len(todo'[b]) : todo'[b][j] = ms[i]
  <2>1. phase[b] # "flush"
    BY <1>1
  <2> QED BY <1>4, <1>6, <1>12, <2>1, GoOnStands
<1>14. Stand'
  <2>1. ASSUME NEW c \in P!Batch \ {b} PROVE Stands(c)'
    <3>1. todo'[c] = todo[c] /\ phase'[c] = phase[c]
      BY <1>13
    <3>2. \A m \in 1..polled' : m \notin 1..polled => of'[m] # c
      BY <1>9
    <3> QED BY <1>1, <1>2, <1>9, <1>11, <3>1, <3>2, OthersStand
  <2> QED BY <1>13, <2>1 DEF Stand
<1>15. Known'
  <2>1. seen' \subseteq 1..polled'
    <3>1. PICK tokens \in SUBSET Pos : Remembers(ms, tokens)
      BY <1>4, GoOnToken
    <3>2. \A t \in tokens : t \in 1..polled'
      BY <1>5, <3>1 DEF Remembers
    <3>3. seen' = seen \cup tokens /\ seen \subseteq 1..polled'
      BY <1>2, <1>6, <3>1 DEF Remembers, Known
    <3> QED BY <3>2, <3>3
  <2>2. user' \subseteq 1..polled'
    BY <1>1, <1>2, <1>5, <1>6 DEF Known
  <2>3. dropped' \subseteq 1..polled' /\ thrown' \subseteq 1..polled' /\ lost' \subseteq 1..polled'
    BY <1>1, <1>2, <1>6 DEF Known
  <2>4. \A i \in 1..Len(dispatched') : dispatched'[i] \in 1..polled'
    BY <1>1, <1>2, <1>6 DEF Known
  <2> QED BY <1>8, <2>1, <2>2, <2>3, <2>4 DEF Known
<1>16. DispatchedOnce'
  <2>1. \A i \in 1..Len(dispatched) : of'[dispatched[i]] = of[dispatched[i]]
    BY <1>6, <1>9 DEF Known
  <2> QED BY <1>1, <1>6, <2>1 DEF DispatchedOnce
<1>17. UsersAre'
  <2> SUFFICES ASSUME NEW m \in user'
               PROVE  \/ Dealt(m)'
                      \/ \E c \in P!Batch : \E i \in 1..Len(todo'[c]) : todo'[c][i] = m
    BY DEF UsersAre
  <2>1. CASE m \in theirs
    BY <1>5, <1>13, <2>1
  <2>2. CASE m \in user
    <3>1. CASE Dealt(m)
      BY <1>11, <3>1
    <3>2. CASE \E c \in P!Batch : \E i \in 1..Len(todo[c]) : todo[c][i] = m
      <4>1. PICK c \in P!Batch : \E i \in 1..Len(todo[c]) : todo[c][i] = m
        BY <3>2
      <4>2. c # b
        BY <1>7, <4>1
      <4> QED BY <1>13, <4>1, <4>2
    <3> QED BY <1>6, <2>2, <3>1, <3>2 DEF UsersAre
  <2> QED BY <1>1, <2>1, <2>2
<1>18. LostByThrow'
  <2>1. \A m \in lost : of'[m] = of[m]
    BY <1>6, <1>9 DEF Known
  <2>2. \A t \in thrown : of'[t] = of[t]
    BY <1>6, <1>9 DEF Known
  <2> QED BY <1>1, <1>6, <2>1, <2>2 DEF LostByThrow
<1>19. Places'
  BY <1>13, <1>14, <1>15, <1>16, <1>17, <1>18 DEF Places
<1>20. Saves' /\ P!CanSend'
  BY <1>1, <1>4, GoOnSaves
<1> QED BY <1>10, <1>19, <1>20

\* The listener goes on after the handlers, or after a message that was handled:
\* the message it leaves is dealt with.
LEMMA GoesOnWithTail ==
  ASSUME PipeInv, NEW b \in P!Batch, NEW ms \in Seq(Pos), P!GoOn(b, ms), ms = Tail(todo[b]),
         NEW m \in 1..polled, m = Head(todo[b]), phase[b] \in {"middleware", "handlers"},
         UNCHANGED <<polled, user, of, dispatched, thrown, lost, stored, valid, relogin>>,
         Waits(b, ms)',
         \/ WasDispatched(m) /\ dropped' = dropped
         \/ ~Dealt(m) /\ of[m] = b /\ dropped' = dropped \cup {m}
  PROVE  PipeInv'
<1> USE DEF PipeInv
<1>1. Known /\ DispatchedOnce /\ UsersAre /\ LostByThrow /\ Flushes /\ Stands(b)
  BY DEF Places, Stand
<1>2. todo[b] # <<>> /\ todo[b] \in Seq(Pos)
  BY <1>1 DEF Stands, PipeTypes
<1>3. PipeTypes'
  BY GoOnTypes DEF PipeTypes
<1>4. /\ Stands(b)' /\ Flushes'
      /\ \A c \in P!Batch \ {b} : todo'[c] = todo[c] /\ phase'[c] = phase[c]
      /\ \A i \in 1..Len(ms) :
           ms[i] \in user' => \E j \in 1..Len(todo'[b]) : todo'[b][j] = ms[i]
  <2>1. phase[b] # "flush"
    OBVIOUS
  <2> QED BY <1>1, <2>1, GoOnStands
<1>5. \A x : Dealt(x)' <=> Dealt(x) \/ x = m
  BY DEF Dealt, WasDispatched
<1>6. Stand'
  <2>1. ASSUME NEW c \in P!Batch \ {b} PROVE Stands(c)'
    <3>1. \A x \in 1..polled : of[x] = c => (Dealt(x)' <=> Dealt(x))
      BY <1>5 DEF Dealt
    <3>2. todo'[c] = todo[c] /\ phase'[c] = phase[c]
      BY <1>4
    <3>3. polled' \in Nat /\ polled <= polled' /\ polled' = polled
      BY DEF PipeTypes
    <3> QED BY <3>1, <3>2, <3>3, OthersStand
  <2> QED BY <1>4, <2>1 DEF Stand
<1>7. Known'
  <2>1. seen' \subseteq 1..polled'
    <3>1. PICK tokens \in SUBSET Pos : Remembers(ms, tokens)
      BY GoOnToken
    <3>2. \A i \in 1..Len(ms) : ms[i] \in 1..polled'
      BY DEF Waits
    <3>3. \A t \in tokens : t \in 1..polled'
      BY <3>1, <3>2 DEF Remembers
    <3>4. seen' = seen \cup tokens /\ seen \subseteq 1..polled'
      BY <1>1, <3>1 DEF Remembers, Known
    <3> QED BY <3>3, <3>4
  <2>2. dropped' \subseteq 1..polled'
    BY <1>1 DEF Known
  <2> QED BY <1>1, <2>1, <2>2 DEF Known
<1>8. DispatchedOnce'
  <2>1. \A i \in 1..Len(dispatched) : dispatched[i] \notin dropped'
    BY <1>1 DEF DispatchedOnce, Dealt, WasDispatched
  <2>2. dropped' \cap lost = {}
    BY <1>1 DEF DispatchedOnce, Dealt
  <2> QED BY <1>1, <2>1, <2>2 DEF DispatchedOnce
<1>9. UsersAre'
  <2> SUFFICES ASSUME NEW u \in user
               PROVE  \/ Dealt(u)'
                      \/ \E c \in P!Batch : \E i \in 1..Len(todo'[c]) : todo'[c][i] = u
    BY DEF UsersAre
  <2>1. CASE Dealt(u)
    BY <1>5, <2>1
  <2>2. CASE \E c \in P!Batch : \E i \in 1..Len(todo[c]) : todo[c][i] = u
    <3>1. PICK c \in P!Batch : \E i \in 1..Len(todo[c]) : todo[c][i] = u
      BY <2>2
    <3>2. CASE c = b
      <4>1. PICK i \in 1..Len(todo[b]) : todo[b][i] = u
        BY <3>1, <3>2
      <4>2. m = todo[b][1] /\ (i = 1 \/ \E j \in 1..Len(ms) : todo[b][i] = ms[j])
        BY <1>2, TailIs
      <4>3. u = m \/ \E j \in 1..Len(ms) : ms[j] = u
        BY <4>1, <4>2
      <4> QED BY <1>4, <1>5, <4>3
    <3>3. CASE c # b
      BY <1>4, <3>1, <3>3
    <3> QED BY <3>2, <3>3
  <2> QED BY <1>1, <2>1, <2>2 DEF UsersAre
<1>10. LostByThrow'
  BY <1>1 DEF LostByThrow
<1>11. Places'
  BY <1>4, <1>6, <1>7, <1>8, <1>9, <1>10 DEF Places
<1>12. Saves' /\ P!CanSend'
  BY GoOnSaves
<1> QED BY <1>3, <1>11, <1>12

\* All handlers have settled.
LEMMA HandlersKeep ==
  ASSUME PipeInv, NEW b \in P!Batch, P!HandlersDone(b)
  PROVE  PipeInv'
<1>1. phase[b] = "handlers" /\ P!GoOn(b, Tail(todo[b]))
      /\ UNCHANGED <<polled, user, of, dispatched, dropped, thrown, lost, stored, valid, relogin>>
  BY DEF P!HandlersDone, P!fateVars
<1>2. Waits(b, Tail(todo[b])) /\ WasDispatched(Head(todo[b])) /\ todo[b] # <<>> /\ Known
  BY <1>1 DEF PipeInv, Places, Stand, Stands
<1>3. PICK m, ms : m = Head(todo[b]) /\ ms = Tail(todo[b])
  OBVIOUS
<1>4. ms \in Seq(Pos)
  BY <1>2, <1>3, TailIs DEF PipeInv, PipeTypes
<1>5. m \in 1..polled /\ WasDispatched(m)
  BY <1>2, <1>3 DEF Known, WasDispatched
<1>6. Waits(b, ms)'
  BY <1>1, <1>2, <1>3 DEF Waits, Dealt, WasDispatched
<1> QED BY <1>1, <1>3, <1>4, <1>5, <1>6, GoesOnWithTail

\* A middleware has handled the message.
LEMMA HandledKeeps ==
  ASSUME PipeInv, NEW b \in P!Batch, phase[b] = "middleware", P!GoOn(b, Tail(todo[b])),
         dropped' = dropped \cup {Head(todo[b])},
         UNCHANGED <<polled, user, of, dispatched, thrown, lost, stored, valid, relogin>>
  PROVE  PipeInv'
<1>1. PICK s \in Seq(Pos), m \in Pos, ms \in Seq(Pos) : FirstIs(b, s, m, ms)
  BY HeadWaits DEF PipeInv
<1>2. /\ m = Head(todo[b]) /\ ms = Tail(todo[b])
      /\ m \in 1..polled /\ of[m] = b /\ ~Dealt(m)
      /\ Waits(b, ms) /\ \A i \in 1..Len(ms) : m < ms[i]
  BY <1>1 DEF FirstIs
<1>3. Waits(b, ms)'
  <2>1. \A i \in 1..Len(ms) : ~Dealt(ms[i]) /\ ms[i] # m
    BY <1>2 DEF Waits
  <2>2. \A i \in 1..Len(ms) : ~Dealt(ms[i])'
    BY <1>2, <2>1 DEF Dealt, WasDispatched
  <2> QED BY <1>2, <2>2 DEF Waits
<1> QED BY <1>2, <1>3, GoesOnWithTail

\* What it means that a message is handed to the handlers.
LEMMA DispatchAppends ==
  ASSUME PipeTypes, DispatchedOnce, NEW m \in Pos, ~Dealt(m),
         \A d \in 1..Len(dispatched) : of[dispatched[d]] = of[m] => dispatched[d] < m,
         dispatched' = Append(dispatched, m), of' = of, dropped' = dropped
  PROVE  /\ dispatched' \in Seq(Pos)
         /\ \A i \in 1..Len(dispatched) : i \in 1..Len(dispatched') /\ dispatched'[i] = dispatched[i]
         /\ \A i \in 1..Len(dispatched') : i \in 1..Len(dispatched) \/ dispatched'[i] = m
         /\ \A x : WasDispatched(x)' <=> WasDispatched(x) \/ x = m
         /\ \A i, j \in 1..Len(dispatched') : dispatched'[i] = dispatched'[j] => i = j
         /\ \A i, j \in 1..Len(dispatched') :
              i < j /\ of'[dispatched'[i]] = of'[dispatched'[j]] => dispatched'[i] < dispatched'[j]
<1>1. /\ Len(dispatched') = Len(dispatched) + 1
      /\ dispatched' \in Seq(Pos) /\ Len(dispatched) \in Nat
      /\ \A i \in 1..Len(dispatched) : i \in 1..Len(dispatched') /\ dispatched'[i] = dispatched[i]
      /\ dispatched'[Len(dispatched')] = m /\ Len(dispatched') \in 1..Len(dispatched')
      /\ \A i \in 1..Len(dispatched') : i \in 1..Len(dispatched) \/ i = Len(dispatched')
  BY DEF PipeTypes
<1>2. \A x : WasDispatched(x)' <=> WasDispatched(x) \/ x = m
  BY <1>1 DEF WasDispatched
<1>3. \A i \in 1..Len(dispatched) : dispatched[i] # m
  BY DEF Dealt, WasDispatched
<1>4. \A i, j \in 1..Len(dispatched') : dispatched'[i] = dispatched'[j] => i = j
  BY <1>1, <1>3 DEF DispatchedOnce
<1>5. ASSUME NEW i \in 1..Len(dispatched'), NEW j \in 1..Len(dispatched'),
             i < j, of'[dispatched'[i]] = of'[dispatched'[j]]
      PROVE  dispatched'[i] < dispatched'[j]
  <2>1. i \in 1..Len(dispatched)
    BY <1>1, <1>5
  <2>2. CASE j \in 1..Len(dispatched)
    BY <1>1, <1>5, <2>1, <2>2 DEF DispatchedOnce
  <2>3. CASE j = Len(dispatched')
    BY <1>1, <1>5, <2>1, <2>3
  <2> QED BY <1>1, <2>2, <2>3
<1> QED BY <1>1, <1>2, <1>4, <1>5

\* A message is handed to the handlers, which are waited for.
LEMMA DispatchKeeps ==
  ASSUME PipeInv, NEW b \in P!Batch, phase[b] = "middleware",
         dispatched' = Append(dispatched, Head(todo[b])),
         phase' = [phase EXCEPT ![b] = "handlers"],
         UNCHANGED <<polled, user, of, todo, dropped, thrown, lost, seen, context, dirty, stored,
                     ops, touched, valid, relogin>>
  PROVE  PipeInv'
<1> USE DEF PipeInv
<1>1. PICK s \in Seq(Pos), m \in Pos, ms \in Seq(Pos) : FirstIs(b, s, m, ms)
  BY HeadWaits
<1>2. /\ m = Head(todo[b]) /\ ms = Tail(todo[b])
      /\ m \in 1..polled /\ of[m] = b /\ ~Dealt(m)
      /\ \A d \in 1..Len(dispatched) : of[dispatched[d]] = b => dispatched[d] < m
      /\ Waits(b, ms) /\ \A i \in 1..Len(ms) : m < ms[i]
  BY <1>1 DEF FirstIs
<1>3. Known /\ DispatchedOnce /\ UsersAre /\ LostByThrow /\ Flushes /\ Stands(b)
  BY DEF Places, Stand
<1>4. /\ dispatched' \in Seq(Pos)
      /\ \A i \in 1..Len(dispatched) : i \in 1..Len(dispatched') /\ dispatched'[i] = dispatched[i]
      /\ \A i \in 1..Len(dispatched') : i \in 1..Len(dispatched) \/ dispatched'[i] = m
      /\ \A x : WasDispatched(x)' <=> WasDispatched(x) \/ x = m
      /\ \A i, j \in 1..Len(dispatched') : dispatched'[i] = dispatched'[j] => i = j
      /\ \A i, j \in 1..Len(dispatched') :
           i < j /\ of'[dispatched'[i]] = of'[dispatched'[j]] => dispatched'[i] < dispatched'[j]
  BY <1>2, <1>3, DispatchAppends
<1>5. \A x : Dealt(x)' <=> Dealt(x) \/ x = m
  BY <1>4 DEF Dealt
<1>6. phase'[b] = "handlers" /\ \A c \in P!Batch \ {b} : phase'[c] = phase[c]
  BY DEF PipeTypes
<1>7. PipeTypes'
  BY <1>4 DEF PipeTypes, Phases
<1>8. Stands(b)'
  <2>1. todo[b] # <<>>
    BY <1>3 DEF Stands
  <2>2. Waits(b, ms)'
    <3>1. \A i \in 1..Len(ms) : ~Dealt(ms[i]) /\ ms[i] # m
      BY <1>2 DEF Waits
    <3>2. \A i \in 1..Len(ms) : ~Dealt(ms[i])'
      BY <1>5, <3>1
    <3>3. \A d \in 1..Len(dispatched') : of[dispatched'[d]] = b =>
            \A i \in 1..Len(ms) : dispatched'[d] < ms[i]
      BY <1>2, <1>4 DEF Waits
    <3> QED BY <1>2, <3>2, <3>3 DEF Waits
  <2>3. WasDispatched(m)'
    BY <1>4
  <2>4. WasDispatched(Head(todo[b]))' /\ Waits(b, Tail(todo[b]))'
    BY <1>2, <2>2, <2>3
  <2> QED BY <1>6, <2>1, <2>4 DEF Stands
<1>9. Stand'
  <2>1. ASSUME NEW c \in P!Batch \ {b} PROVE Stands(c)'
    <3>1. \A x \in 1..polled : of[x] = c => (Dealt(x)' <=> Dealt(x))
      BY <1>2, <1>5
    <3>2. \A i \in 1..Len(dispatched') : of'[dispatched'[i]] = c => i \in 1..Len(dispatched)
      BY <1>2, <1>4
    <3>3. todo'[c] = todo[c] /\ phase'[c] = phase[c]
      BY <1>6
    <3>4. polled' \in Nat /\ polled <= polled' /\ polled' = polled
      BY DEF PipeTypes
    <3> QED BY <1>4, <3>1, <3>2, <3>3, <3>4, OthersStand
  <2> QED BY <1>8, <2>1 DEF Stand
<1>10. Known'
  <2>1. \A i \in 1..Len(dispatched') : dispatched'[i] \in 1..polled'
    BY <1>2, <1>3, <1>4 DEF Known
  <2> QED BY <1>3, <2>1 DEF Known
<1>11. DispatchedOnce'
  <2>1. m \notin dropped /\ m \notin lost
    BY <1>2 DEF Dealt
  <2>2. \A i \in 1..Len(dispatched') : dispatched'[i] \notin dropped' /\ dispatched'[i] \notin lost'
    BY <1>3, <1>4, <2>1 DEF DispatchedOnce
  <2> QED BY <1>3, <1>4, <2>2 DEF DispatchedOnce
<1>12. UsersAre'
  <2>1. \A u : Dealt(u) => Dealt(u)'
    BY <1>5
  <2> QED BY <1>3, <2>1 DEF UsersAre
<1>13. LostByThrow'
  BY <1>3 DEF LostByThrow
<1>14. Flushes'
  BY <1>3, <1>6 DEF Flushes
<1>15. Places'
  BY <1>9, <1>10, <1>11, <1>12, <1>13, <1>14 DEF Places
<1>16. Saves' /\ P!CanSend'
  BY DEF Saves, P!CanSend
<1> QED BY <1>7, <1>15, <1>16

\* What was not dealt with in a batch is lost with what threw.
LEMMA AbandonKeeps ==
  ASSUME PipeInv, NEW b \in P!Batch, NEW s \in Seq(Pos), NEW m \in Pos, NEW ms \in Seq(Pos),
         FirstIs(b, s, m, ms), phase[b] = "middleware",
         todo' = [todo EXCEPT ![b] = <<>>], phase' = [phase EXCEPT ![b] = "over"],
         thrown' = thrown \cup {m},
         lost \subseteq lost', \A x \in lost' : x \in lost \/ \E i \in 1..Len(s) : s[i] = x,
         dispatched' \in Seq(Pos),
         \A i \in 1..Len(dispatched) : i \in 1..Len(dispatched') /\ dispatched'[i] = dispatched[i],
         \A i \in 1..Len(dispatched') : i \in 1..Len(dispatched) \/ dispatched'[i] = m,
         \A i \in 1..Len(s) : Dealt(s[i])', DispatchedOnce',
         UNCHANGED <<polled, user, of, dropped, seen, context, dirty, stored, ops, touched,
                     valid, relogin>>
  PROVE  PipeInv'
<1> USE DEF PipeInv
<1>0. phase[b] # "flush"
  OBVIOUS
<1>1. /\ s = todo[b] /\ m \in 1..polled /\ of[m] = b
      /\ \A i \in 1..Len(s) : m <= s[i] /\ of[s[i]] = b /\ s[i] \in 1..polled
      /\ \E i \in 1..Len(s) : s[i] = m
  BY DEF FirstIs
<1>2. Known /\ UsersAre /\ LostByThrow /\ Flushes /\ Stands(b)
  BY DEF Places, Stand
<1>3. /\ todo'[b] = <<>> /\ phase'[b] = "over"
      /\ \A c \in P!Batch \ {b} : todo'[c] = todo[c] /\ phase'[c] = phase[c]
  BY DEF PipeTypes
<1>4. PipeTypes'
  BY DEF PipeTypes, Phases
<1>5. \A x : Dealt(x)' <=> Dealt(x) \/ \E i \in 1..Len(s) : s[i] = x
  <2> SUFFICES ASSUME NEW x PROVE Dealt(x)' <=> Dealt(x) \/ \E i \in 1..Len(s) : s[i] = x
    OBVIOUS
  <2>1. WasDispatched(x) => WasDispatched(x)'
    BY DEF WasDispatched
  <2>2. WasDispatched(x)' => WasDispatched(x) \/ x = m
    BY DEF WasDispatched
  <2>3. Dealt(x) => Dealt(x)'
    BY <2>1 DEF Dealt
  <2>4. Dealt(x)' => Dealt(x) \/ \E i \in 1..Len(s) : s[i] = x
    BY <1>1, <2>2 DEF Dealt
  <2>5. (\E i \in 1..Len(s) : s[i] = x) => Dealt(x)'
    OBVIOUS
  <2> QED BY <2>3, <2>4, <2>5
<1>6. Stand'
  <2>1. ASSUME NEW c \in P!Batch \ {b} PROVE Stands(c)'
    <3>1. \A x \in 1..polled : of[x] = c => (Dealt(x)' <=> Dealt(x))
      BY <1>1, <1>5
    <3>2. \A i \in 1..Len(dispatched') : of'[dispatched'[i]] = c => i \in 1..Len(dispatched)
      BY <1>1
    <3>3. todo'[c] = todo[c] /\ phase'[c] = phase[c]
      BY <1>3
    <3>4. polled' \in Nat /\ polled <= polled' /\ polled' = polled
      BY DEF PipeTypes
    <3> QED BY <3>1, <3>2, <3>3, <3>4, OthersStand
  <2>2. Stands(b)'
    BY <1>3 DEF Stands
  <2> QED BY <2>1, <2>2 DEF Stand
<1>7. Known'
  <2>1. \A i \in 1..Len(dispatched') : dispatched'[i] \in 1..polled'
    BY <1>1, <1>2 DEF Known
  <2>2. lost' \subseteq 1..polled' /\ thrown' \subseteq 1..polled'
    <3>1. lost \subseteq 1..polled /\ thrown \subseteq 1..polled
      BY <1>2 DEF Known
    <3>2. \A x \in lost' : x \in 1..polled
      BY <1>1, <3>1
    <3>3. \A x \in thrown' : x \in 1..polled
      BY <1>1, <3>1
    <3> QED BY <3>2, <3>3
  <2> QED BY <1>2, <2>1, <2>2 DEF Known
<1>8. UsersAre'
  <2> SUFFICES ASSUME NEW u \in user
               PROVE  \/ Dealt(u)'
                      \/ \E c \in P!Batch : \E i \in 1..Len(todo'[c]) : todo'[c][i] = u
    BY DEF UsersAre
  <2>1. CASE Dealt(u)
    BY <1>5, <2>1
  <2>2. CASE \E c \in P!Batch : \E i \in 1..Len(todo[c]) : todo[c][i] = u
    <3>1. PICK c \in P!Batch : \E i \in 1..Len(todo[c]) : todo[c][i] = u
      BY <2>2
    <3>2. CASE c = b
      BY <1>1, <1>5, <3>1, <3>2
    <3>3. CASE c # b
      BY <1>3, <3>1, <3>3
    <3> QED BY <3>2, <3>3
  <2> QED BY <1>2, <2>1, <2>2 DEF UsersAre
<1>9. LostByThrow'
  <2> SUFFICES ASSUME NEW x \in lost' PROVE \E t \in thrown' : of[t] = of[x] /\ t <= x
    BY DEF LostByThrow
  <2>1. CASE x \in lost
    BY <1>2, <2>1 DEF LostByThrow
  <2>2. CASE \E i \in 1..Len(s) : s[i] = x
    <3>1. m \in thrown' /\ of[m] = of[x] /\ m <= x
      BY <1>1, <2>2
    <3> QED BY <3>1
  <2> QED BY <2>1, <2>2
<1>10. Flushes'
  BY <1>2, <1>3, <1>0 DEF Flushes
<1>11. Places'
  BY <1>6, <1>7, <1>8, <1>9, <1>10 DEF Places
<1>12. Saves' /\ P!CanSend'
  BY DEF Saves, P!CanSend
<1> QED BY <1>4, <1>11, <1>12

\* A middleware, or the parser, throws: the whole batch is lost.
LEMMA ThrownKeeps ==
  ASSUME PipeInv, NEW b \in P!Batch, phase[b] = "middleware", P!Abandon(b, P!ToSet(todo[b])),
         UNCHANGED <<polled, user, of, dispatched, valid, relogin>>
  PROVE  PipeInv'
<1>1. PICK s \in Seq(Pos), m \in Pos, ms \in Seq(Pos) : FirstIs(b, s, m, ms)
  BY HeadWaits DEF PipeInv
<1>2. s = todo[b] /\ m = Head(todo[b]) /\ \A i \in 1..Len(s) : ~Dealt(s[i])
  BY <1>1 DEF FirstIs, Waits
<1>3. /\ todo' = [todo EXCEPT ![b] = <<>>] /\ phase' = [phase EXCEPT ![b] = "over"]
      /\ thrown' = thrown \cup {m} /\ lost' = lost \cup P!ToSet(s)
      /\ UNCHANGED <<dropped, seen, context, dirty, stored, ops, touched>>
  BY <1>2 DEF P!Abandon, P!contextVars
<1>4. \A x : x \in lost' <=> x \in lost \/ \E i \in 1..Len(s) : s[i] = x
  BY <1>3 DEF P!ToSet
<1>5. dispatched \in Seq(Pos) /\ DispatchedOnce
  BY DEF PipeInv, PipeTypes, Places
<1>6. DispatchedOnce'
  <2>1. \A i \in 1..Len(s) : s[i] \notin dropped /\ ~WasDispatched(s[i])
    BY <1>2 DEF Dealt
  <2>2. \A i \in 1..Len(dispatched) : dispatched[i] \notin lost'
    BY <1>4, <1>5, <2>1 DEF DispatchedOnce, WasDispatched
  <2>3. dropped \cap lost' = {}
    BY <1>4, <1>5, <2>1 DEF DispatchedOnce
  <2> QED BY <1>3, <1>5, <2>2, <2>3 DEF DispatchedOnce
<1>7. \A i \in 1..Len(s) : Dealt(s[i])'
  BY <1>4 DEF Dealt
<1> QED BY <1>1, <1>3, <1>4, <1>5, <1>6, <1>7, AbandonKeeps

\* A handler throws before it returns: the rest of the batch is lost.
LEMMA HandlerThrows ==
  ASSUME PipeInv, NEW b \in P!Batch, phase[b] = "middleware",
         P!Abandon(b, P!ToSet(Tail(todo[b]))), dispatched' = Append(dispatched, Head(todo[b])),
         UNCHANGED <<polled, user, of, valid, relogin>>
  PROVE  PipeInv'
<1>1. PICK s \in Seq(Pos), m \in Pos, ms \in Seq(Pos) : FirstIs(b, s, m, ms)
  BY HeadWaits DEF PipeInv
<1>2. /\ s = todo[b] /\ m = Head(todo[b]) /\ ms = Tail(todo[b]) /\ ~Dealt(m) /\ of[m] = b
      /\ \A d \in 1..Len(dispatched) : of[dispatched[d]] = b => dispatched[d] < m
      /\ \A i \in 1..Len(ms) : ~Dealt(ms[i]) /\ m < ms[i]
      /\ \A i \in 1..Len(s) : s[i] = m \/ \E j \in 1..Len(ms) : s[i] = ms[j]
      /\ \A i \in 1..Len(s) : ~Dealt(s[i])
  BY <1>1 DEF FirstIs, Waits
<1>3. /\ todo' = [todo EXCEPT ![b] = <<>>] /\ phase' = [phase EXCEPT ![b] = "over"]
      /\ thrown' = thrown \cup {m} /\ lost' = lost \cup P!ToSet(ms)
      /\ UNCHANGED <<dropped, seen, context, dirty, stored, ops, touched>>
  BY <1>2 DEF P!Abandon, P!contextVars
<1>4. \A x : x \in lost' <=> x \in lost \/ \E i \in 1..Len(ms) : ms[i] = x
  <2>1. DOMAIN ms = 1..Len(ms)
    OBVIOUS
  <2>2. \A x : x \in P!ToSet(ms) <=> \E i \in 1..Len(ms) : ms[i] = x
    BY <2>1, Zenon DEF P!ToSet
  <2> QED BY <1>3, <2>2
<1>5. DispatchedOnce /\ PipeTypes
  BY DEF PipeInv, Places
<1>6. /\ dispatched' \in Seq(Pos)
      /\ \A i \in 1..Len(dispatched) : i \in 1..Len(dispatched') /\ dispatched'[i] = dispatched[i]
      /\ \A i \in 1..Len(dispatched') : i \in 1..Len(dispatched) \/ dispatched'[i] = m
      /\ \A x : WasDispatched(x)' <=> WasDispatched(x) \/ x = m
      /\ \A i, j \in 1..Len(dispatched') : dispatched'[i] = dispatched'[j] => i = j
      /\ \A i, j \in 1..Len(dispatched') :
           i < j /\ of'[dispatched'[i]] = of'[dispatched'[j]] => dispatched'[i] < dispatched'[j]
  <2>1. dispatched' = Append(dispatched, m) /\ of' = of /\ dropped' = dropped /\ ~Dealt(m)
    BY <1>2, <1>3
  <2>2. \A d \in 1..Len(dispatched) : of[dispatched[d]] = of[m] => dispatched[d] < m
    BY <1>2
  <2> QED BY <1>5, <2>1, <2>2, DispatchAppends
<1>7. DispatchedOnce'
  <2>1. ASSUME NEW i \in 1..Len(ms)
        PROVE  ms[i] \notin dropped /\ ~WasDispatched(ms[i]) /\ ms[i] # m
    <3>1. ~Dealt(ms[i]) /\ m < ms[i] /\ ms[i] \in Pos
      BY <1>2
    <3>2. ms[i] # m
      BY <3>1 DEF Pos
    <3> QED BY <3>1, <3>2 DEF Dealt
  <2>2. m \notin dropped /\ m \notin lost'
    BY <1>2, <1>4, <2>1 DEF Dealt
  <2>3. ASSUME NEW i \in 1..Len(dispatched)
        PROVE  dispatched[i] \notin lost' /\ dispatched[i] \notin dropped
    <3>1. dispatched[i] \notin lost /\ dispatched[i] \notin dropped
      BY <1>5 DEF DispatchedOnce
    <3>2. WasDispatched(dispatched[i])
      BY DEF WasDispatched
    <3>3. \A j \in 1..Len(ms) : ms[j] # dispatched[i]
      BY <2>1, <3>2
    <3> QED BY <1>4, <3>1, <3>3
  <2>4. \A i \in 1..Len(dispatched') : dispatched'[i] \notin lost' /\ dispatched'[i] \notin dropped'
    BY <1>3, <1>6, <2>2, <2>3
  <2>5. dropped' \cap lost' = {}
    BY <1>3, <1>4, <1>5, <2>1 DEF DispatchedOnce
  <2> QED BY <1>6, <2>4, <2>5 DEF DispatchedOnce
<1>8. \A i \in 1..Len(s) : Dealt(s[i])'
  <2> SUFFICES ASSUME NEW i \in 1..Len(s) PROVE Dealt(s[i])'
    OBVIOUS
  <2>1. CASE s[i] = m
    BY <1>6, <2>1 DEF Dealt
  <2>2. CASE \E j \in 1..Len(ms) : s[i] = ms[j]
    BY <1>4, <2>2 DEF Dealt
  <2> QED BY <1>2, <2>1, <2>2
<1>9. \A x \in lost' : x \in lost \/ \E i \in 1..Len(s) : s[i] = x
  <2>1. s # <<>>
    BY <1>1, <1>2, EmptySeq DEF FirstIs
  <2>2. \A j \in 1..Len(ms) : j + 1 \in 1..Len(s) /\ ms[j] = s[j + 1]
    BY <1>2, <2>1, TailIs
  <2> QED BY <1>4, <2>2
<1>10. lost \subseteq lost'
  BY <1>4
<1> QED BY <1>1, <1>3, <1>6, <1>7, <1>8, <1>9, <1>10, AbandonKeeps

\* The middleware ends.
LEMMA MiddlewareKeeps ==
  ASSUME PipeInv, NEW b \in P!Batch, NEW verdict, P!MiddlewareDone(b, verdict)
  PROVE  PipeInv'
<1>1. phase[b] = "middleware" /\ UNCHANGED <<polled, user, of, valid, relogin>>
  BY DEF P!MiddlewareDone
<1>2. CASE P!GoesOn(verdict)
  <2>1. P!Dispatch(b)
    BY <1>2 DEF P!MiddlewareDone
  <2> QED BY <1>1, <2>1, DispatchKeeps, HandlerThrows DEF P!Dispatch, P!fateVars, P!contextVars
<1>3. CASE ~P!GoesOn(verdict)
  <2>1. P!AfterMiddleware(b, verdict) /\ UNCHANGED dispatched
    BY <1>3 DEF P!MiddlewareDone
  <2> QED BY <1>1, <2>1, HandledKeeps, ThrownKeeps DEF P!AfterMiddleware
<1> QED BY <1>2, <1>3

\* As long as nothing is polled or dealt with.
LEMMA WaitsStay ==
  ASSUME UNCHANGED <<polled, of, dispatched, dropped, lost>>
  PROVE  /\ \A x : Dealt(x)' <=> Dealt(x)
         /\ \A x : WasDispatched(x)' <=> WasDispatched(x)
         /\ \A c, ms : Waits(c, ms)' <=> Waits(c, ms)
<1>1. \A x : WasDispatched(x)' <=> WasDispatched(x)
  BY DEF WasDispatched
<1>2. \A x : Dealt(x)' <=> Dealt(x)
  BY <1>1 DEF Dealt
<1>3. \A c, ms : Waits(c, ms)' <=> Waits(c, ms)
  BY <1>2 DEF Waits
<1> QED BY <1>1, <1>2, <1>3

\* The batches wait where they wait.
LEMMA PlacesStay ==
  ASSUME Places, UNCHANGED <<polled, user, of, todo, phase, dispatched, dropped, thrown, lost, seen>>,
         \A o \in ops' : o \in ops \/ o.by \notin P!Batch
  PROVE  Places'
<1>1. Known' /\ DispatchedOnce' /\ LostByThrow'
  BY DEF Places, Known, DispatchedOnce, LostByThrow
<1>2. Stand'
  BY WaitsStay DEF Places, Stand, Stands
<1>3. UsersAre'
  BY WaitsStay DEF Places, UsersAre
<1>4. Flushes'
  BY DEF Places, Flushes
<1> QED BY <1>1, <1>2, <1>3, <1>4 DEF Places

\* reply() to a message that was dispatched.
LEMMA ReplyKeeps ==
  ASSUME PipeInv, NEW m, P!Reply(m)
  PROVE  PipeInv'
<1> USE DEF PipeInv
<1>1. m \in Pos
  BY DEF P!Reply, P!ToSet, PipeTypes
<1>2. /\ context' \in {m, -1} /\ dirty' = TRUE /\ touched' = (ops # {})
      /\ UNCHANGED <<polled, user, of, todo, phase, dispatched, dropped, thrown, lost, seen, stored,
                     ops, valid, relogin>>
  BY DEF P!Reply, P!Blank, P!Disturbs, P!batchVars, P!fateVars, PipeTypes
<1>3. PipeTypes'
  BY <1>1, <1>2 DEF PipeTypes, Pos
<1>4. Places'
  BY <1>2, PlacesStay
<1>5. Saves'
  <2>1. ~touched' => ops' = {} /\ dirty'
    BY <1>2
  <2> QED BY <2>1 DEF Saves
<1>6. P!CanSend'
  BY <1>1, <1>2 DEF P!CanSend, P!NoMessage, Pos
<1> QED BY <1>3, <1>4, <1>5, <1>6

\* A storage operation ends, and with it the flush of a batch.
LEMMA OpEnds ==
  ASSUME PipeTypes, Places, NEW o \in ops, ops' = ops \ {o},
         phase' = IF o.by \in P!Batch THEN [phase EXCEPT ![o.by] = "over"] ELSE phase,
         UNCHANGED <<polled, user, of, todo, dispatched, dropped, thrown, lost, seen>>
  PROVE  phase' \in [P!Batch -> Phases] /\ Places'
<1>1. phase' \in [P!Batch -> Phases]
  BY DEF PipeTypes, Phases
<1>2. CASE o.by \notin P!Batch
  <2>1. phase' = phase
    BY <1>2
  <2>2. UNCHANGED <<polled, user, of, todo, phase, dispatched, dropped, thrown, lost, seen>>
    BY <2>1
  <2>3. \A p \in ops' : p \in ops
    OBVIOUS
  <2>4. Places'
    BY <2>2, <2>3, PlacesStay
  <2> QED BY <1>1, <2>4
<1>3. CASE o.by \in P!Batch
  <2>1. /\ phase[o.by] = "flush" /\ phase'[o.by] = "over"
        /\ \A c \in P!Batch \ {o.by} : phase'[c] = phase[c]
    BY <1>3 DEF Places, Flushes, PipeTypes
  <2>2. Known' /\ DispatchedOnce' /\ LostByThrow'
    BY DEF Places, Known, DispatchedOnce, LostByThrow
  <2>3. UsersAre'
    BY WaitsStay DEF Places, UsersAre
  <2>4. Stand'
    <3>1. \A c \in P!Batch :
            /\ phase'[c] \in {"middleware", "handlers"} <=> phase[c] \in {"middleware", "handlers"}
            /\ phase'[c] = "handlers" <=> phase[c] = "handlers"
            /\ phase'[c] = "middleware" <=> phase[c] = "middleware"
            /\ phase'[c] = "none" <=> phase[c] = "none"
      BY <2>1
    <3>2. ASSUME NEW c \in P!Batch PROVE Stands(c)'
      <4>1. Stands(c)
        BY DEF Places, Stand
      <4> QED BY <3>1, <4>1, WaitsStay DEF Stands
    <3> QED BY <3>2 DEF Stand
  <2>5. Flushes'
    <3>1. \A p \in ops' : p \in ops /\ p # o
      OBVIOUS
    <3>2. \A p \in ops' : p.by \in P!Batch => p.by # o.by /\ phase[p.by] = "flush"
      BY <1>3, <3>1 DEF Places, Flushes
    <3>3. \A p \in ops' : p.by \in P!Batch => phase'[p.by] = "flush"
      BY <2>1, <3>2
    <3>4. \A p, q \in ops' : p.by = q.by /\ p.by \in P!Batch => p = q
      BY <3>1 DEF Places, Flushes
    <3> QED BY <3>3, <3>4 DEF Flushes
  <2> QED BY <1>1, <2>2, <2>3, <2>4, <2>5 DEF Places
<1> QED BY <1>1, <1>2, <1>3

\* It has done what it was to do.
LEMMA StorageKeeps ==
  ASSUME PipeInv, P!StorageDone
  PROVE  PipeInv'
<1> USE DEF PipeInv
<1>1. PICK o \in ops :
        /\ ops' = ops \ {o}
        /\ stored' = o.value
        /\ dirty' = (o.by \notin P!Batch /\ dirty)
        /\ phase' = IF o.by \in P!Batch THEN [phase EXCEPT ![o.by] = "over"] ELSE phase
        /\ relogin' = IF o.by = P!ClearAll THEN "login" ELSE relogin
        /\ UNCHANGED <<polled, user, of, todo, dispatched, dropped, thrown, lost, seen, context,
                       touched, valid>>
  BY DEF P!StorageDone, P!fateVars
<1>2. phase' \in [P!Batch -> Phases] /\ Places'
  BY <1>1, OpEnds
<1>3. PipeTypes'
  <2>1. o.value \in Int
    BY DEF PipeTypes, StorageOps
  <2>2. dirty' \in BOOLEAN /\ relogin' \in Logins4
    BY <1>1 DEF PipeTypes, Logins4
  <2> QED BY <1>1, <1>2, <2>1, <2>2 DEF PipeTypes
<1>4. Saves'
  <2> SUFFICES ASSUME ~touched PROVE Saves'
    BY <1>1 DEF Saves
  <2>1. /\ \A p, q \in ops : p = q
        /\ o.by # P!ClearAll => o.value = context
    BY DEF Saves
  <2>2. ops' = {}
    BY <1>1, <2>1
  <2>3. relogin' = "no" => stored' = context'
    BY <1>1, <2>1
  <2> QED BY <2>2, <2>3 DEF Saves
<1>5. P!CanSend'
  BY <1>1 DEF P!CanSend
<1> QED BY <1>2, <1>3, <1>4, <1>5

\* It has failed: a flush leaves the token marked as unsaved, a deletion is known
\* to have been touched, and the session stays expired.
LEMMA StorageFailsKeeps ==
  ASSUME PipeInv, P!StorageFails
  PROVE  PipeInv'
<1> USE DEF PipeInv
<1>1. PICK o \in ops :
        /\ ops' = ops \ {o}
        /\ stored' \in {stored, 0}
        /\ phase' = IF o.by \in P!Batch THEN [phase EXCEPT ![o.by] = "over"] ELSE phase
        /\ relogin' = IF o.by = P!ClearAll THEN "failed" ELSE relogin
        /\ touched' = (touched \/ o.by = P!Clear)
        /\ UNCHANGED <<polled, user, of, todo, dispatched, dropped, thrown, lost, seen, context,
                       dirty, valid>>
  BY DEF P!StorageFails, P!fateVars, P!NoMessage
<1>2. phase' \in [P!Batch -> Phases] /\ Places'
  BY <1>1, OpEnds
<1>3. PipeTypes'
  BY <1>1, <1>2 DEF PipeTypes, Logins4
<1>4. Saves'
  <2> SUFFICES ASSUME ~touched, o.by # P!Clear PROVE Saves'
    BY <1>1 DEF Saves
  <2>1. /\ \A p, q \in ops : p = q
        /\ o.by \in P!Batch => dirty
    BY DEF Saves
  <2>2. ops' = {}
    BY <1>1, <2>1
  <2>3. o.by \in P!Batch \/ o.by = P!ClearAll
    BY DEF PipeTypes, StorageOps
  <2>4. dirty' \/ relogin' # "no"
    BY <1>1, <2>1, <2>3
  <2> QED BY <2>2, <2>4 DEF Saves
<1>5. P!CanSend'
  BY <1>1 DEF P!CanSend
<1> QED BY <1>2, <1>3, <1>4, <1>5

\* The session ends.
LEMMA ExpiryKeeps ==
  ASSUME PipeInv, P!SessionExpired
  PROVE  PipeInv'
<1> USE DEF PipeInv
<1>1. /\ relogin' = "clearing" /\ ops' = ops \cup {P!Op(P!ClearAll, 0)}
      /\ touched' = (touched \/ (ops # {} /\ ops' # ops))
      /\ UNCHANGED <<polled, user, of, todo, phase, dispatched, dropped, thrown, lost, seen, context,
                     dirty, stored, valid>>
  BY DEF P!SessionExpired, P!Disturbs, P!NoMessage, P!batchVars, P!fateVars, PipeTypes
<1>2. /\ P!Op(P!ClearAll, 0) \in StorageOps /\ P!Op(P!ClearAll, 0).by = P!ClearAll
      /\ P!ClearAll \notin P!Batch /\ P!ClearAll # P!Clear
  BY DEF P!Op, StorageOps, P!Batch, P!ClearAll, P!Clear
<1>3. PipeTypes'
  <2>1. touched' \in BOOLEAN
    BY <1>1
  <2>2. ops' \subseteq StorageOps
    BY <1>1, <1>2 DEF PipeTypes
  <2> QED BY <1>1, <2>1, <2>2 DEF PipeTypes, Logins4
<1>4. Places'
  BY <1>1, <1>2, PlacesStay
<1>5. P!CanSend'
  BY <1>1 DEF P!CanSend
<1>6. Saves'
  <2> HIDE DEF P!Op
  <2> SUFFICES ASSUME ~touched' PROVE Saves'
    BY DEF Saves
  <2>1. ~touched /\ (ops = {} \/ ops' = ops)
    BY <1>1
  <2>2. CASE ops = {}
    <3>1. ops' = {P!Op(P!ClearAll, 0)}
      BY <1>1, <2>2
    <3> QED BY <1>1, <1>2, <3>1 DEF Saves
  <2>3. CASE ops' = ops
    <3>1. P!Op(P!ClearAll, 0) \in ops'
      BY <1>1
    <3>2. ops' # {}
      BY <3>1
    <3> QED BY <1>1, <2>1, <2>3, <3>2 DEF Saves
  <2> QED BY <2>1, <2>2, <2>3
<1> QED BY <1>3, <1>4, <1>5, <1>6

\* The login fails.
LEMMA ReloginFailsKeeps ==
  ASSUME PipeInv, P!ReloginFails
  PROVE  PipeInv'
<1> USE DEF PipeInv
<1>1. /\ relogin' = "failed"
      /\ UNCHANGED <<polled, user, of, todo, phase, dispatched, dropped, thrown, lost, seen, context,
                     dirty, stored, ops, touched, valid>>
  BY DEF P!ReloginFails, P!batchVars, P!fateVars, P!contextVars
<1>2. PipeTypes' /\ P!CanSend' /\ Saves'
  BY <1>1 DEF PipeTypes, Logins4, P!CanSend, Saves
<1>3. Places'
  BY <1>1, PlacesStay
<1> QED BY <1>2, <1>3

\* The login sets other credentials.
LEMMA CredentialsKeep ==
  ASSUME PipeInv, P!SetCredentials
  PROVE  PipeInv'
<1> USE DEF PipeInv
<1>1. /\ relogin' = "no" /\ valid' = polled + 1 /\ context' = 0 /\ dirty' = FALSE
      /\ ops' = ops \cup {P!Op(P!Clear, 0)}
      /\ touched' = (ops # {})
      /\ UNCHANGED <<polled, user, of, todo, phase, dispatched, dropped, thrown, lost, seen, stored>>
  BY DEF P!SetCredentials, P!ClearContext, P!Disturbs, P!NoMessage, P!batchVars, P!fateVars, PipeTypes
<1>2. /\ P!Op(P!Clear, 0) \in StorageOps /\ P!Op(P!Clear, 0).by = P!Clear
      /\ P!Op(P!Clear, 0).value = 0 /\ P!Clear \notin P!Batch
  BY DEF P!Op, StorageOps, P!Batch, P!Clear
<1>3. PipeTypes'
  <2>1. polled \in Nat
    BY DEF PipeTypes
  <2>2. valid' \in Pos /\ context' \in Int /\ dirty' \in BOOLEAN /\ relogin' \in Logins4
    <3>1. polled + 1 \in Pos
      BY <2>1 DEF Pos
    <3>2. "no" \in Logins4 /\ 0 \in Int /\ FALSE \in BOOLEAN
      BY DEF Logins4
    <3> QED BY <1>1, <3>1, <3>2
  <2>3. ops' \subseteq StorageOps /\ touched' \in BOOLEAN
    BY <1>1, <1>2 DEF PipeTypes
  <2> QED BY <1>1, <2>2, <2>3 DEF PipeTypes
<1>4. Places'
  BY <1>1, <1>2, PlacesStay
<1>5. Saves'
  <2> HIDE DEF P!Op
  <2>1. ~touched' => ops' = {P!Op(P!Clear, 0)}
    BY <1>1
  <2> QED BY <1>1, <1>2, <2>1 DEF Saves
<1>6. P!CanSend'
  <2>1. \A m \in seen : ~(m >= polled + 1)
    BY DEF PipeTypes, Places, Known
  <2> QED BY <1>1, <2>1 DEF P!CanSend
<1> QED BY <1>3, <1>4, <1>5, <1>6

\* The pipeline starts empty.
LEMMA PipeStarts == P!Init => PipeInv
<1> SUFFICES ASSUME P!Init PROVE PipeInv
  OBVIOUS
<1> USE DEF P!Init, P!NoMessage
<1>1. PipeTypes
  <2>1. todo \in [P!Batch -> Seq(Pos)] /\ of \in [P!Message -> Int]
    OBVIOUS
  <2>2. phase \in [P!Batch -> Phases] /\ relogin \in Logins4
    BY DEF Phases, Logins4
  <2>3. dispatched \in Seq(Pos) /\ polled \in Nat /\ valid \in Pos /\ context \in Int
    BY DEF Pos
  <2> QED BY <2>1, <2>2, <2>3 DEF PipeTypes
<1>2. \A b \in P!Batch : todo[b] = <<>> /\ phase[b] = "none"
  OBVIOUS
<1>3. Stand
  BY <1>2 DEF Stand, Stands
<1>4. Known /\ DispatchedOnce /\ UsersAre /\ LostByThrow /\ Flushes
  BY DEF Known, DispatchedOnce, UsersAre, LostByThrow, Flushes
<1>5. Saves /\ P!CanSend
  BY DEF Saves, P!CanSend
<1> QED BY <1>1, <1>3, <1>4, <1>5 DEF PipeInv, Places

\* Every step of the pipeline keeps the invariant.
LEMMA PipeNext == PipeInv /\ P!Next => PipeInv'
<1> SUFFICES ASSUME PipeInv, P!Next PROVE PipeInv'
  OBVIOUS
<1>1. CASE \E b \in P!Batch, n \in 1..BatchSize : P!Poll(b, n)
  BY <1>1, PollKeeps
<1>2. CASE \E b \in P!Batch, verdict \in {"next", "skipped", "handled", "thrown"} :
             P!MiddlewareDone(b, verdict)
  BY <1>2, MiddlewareKeeps
<1>3. CASE \E b \in P!Batch : P!HandlersDone(b)
  BY <1>3, HandlersKeep
<1>4. CASE \E m \in P!Message : P!Reply(m)
  BY <1>4, ReplyKeeps
<1>5. CASE P!StorageDone \/ P!StorageFails
  BY <1>5, StorageKeeps, StorageFailsKeeps
<1>6. CASE P!SessionExpired \/ P!ReloginFails
  BY <1>6, ExpiryKeeps, ReloginFailsKeeps
<1>7. CASE P!SetCredentials
  BY <1>7, CredentialsKeep
<1> QED BY <1>1, <1>2, <1>3, <1>4, <1>5, <1>6, <1>7 DEF P!Next

\* Beside the other parts, too.
LEMMA PipeSpec == PartsSpec => []PipeInv
<1>1. PartsInit => PipeInv
  BY PipeStarts DEF PartsInit
<1>2. ASSUME PipeInv, [PartsNext]_partsVars PROVE PipeInv'
  <2>1. CASE P!Next
    BY <1>2, <2>1, PipeNext
  <2>2. CASE UNCHANGED pipelineVars
    <3>1. UNCHANGED <<polled, user, of, todo, phase, dispatched, dropped, thrown, lost, seen, context,
                      dirty, stored, ops, touched, valid, relogin>>
      BY <2>2 DEF pipelineVars
    <3>2. PipeTypes' /\ Places' /\ Saves' /\ P!CanSend'
      BY <1>2, <3>1, PlacesStay DEF PipeInv, PipeTypes, Saves, P!CanSend
    <3> QED BY <3>2 DEF PipeInv
  <2> QED BY <1>2, <2>1, <2>2 DEF PartsNext, partsVars
<1> QED BY <1>1, <1>2, PTL DEF PartsSpec

\* However the batches overlap, each message of the user is waiting in its
\* batch, handed to the handlers once and in the order of its batch, handled by
\* a middleware, or lost with, or after, one of its batch that threw
\* (setupPollerEvents of core/client.ts).
THEOREM UsersAreAccounted == PartsSpec => []Accounted
<1>1. PipeInv => Accounted
  <2> SUFFICES ASSUME PipeInv PROVE Accounted
    OBVIOUS
  <2>1. dispatched \in Seq(Pos) /\ \A b \in P!Batch : todo[b] \in Seq(Pos)
    BY DEF PipeInv, PipeTypes
  <2>2. \A x : x \in P!Dispatched <=> WasDispatched(x)
    BY <2>1 DEF P!Dispatched, P!ToSet, WasDispatched
  <2>3. P!IsInjective(dispatched)
    BY <2>1 DEF P!IsInjective, PipeInv, Places, DispatchedOnce
  <2>4. P!Dispatched \cap (dropped \cup lost) = {} /\ dropped \cap lost = {}
    BY <2>2 DEF PipeInv, Places, DispatchedOnce, WasDispatched
  <2>5. ASSUME NEW m \in user
        PROVE  m \in P!Waiting \cup P!Dispatched \cup dropped \cup lost
    <3>1. CASE Dealt(m)
      BY <2>2, <3>1 DEF Dealt
    <3>2. CASE \E b \in P!Batch : \E i \in 1..Len(todo[b]) : todo[b][i] = m
      BY <2>1, <3>2 DEF P!Waiting, P!ToSet
    <3> QED BY <3>1, <3>2 DEF PipeInv, Places, UsersAre
  <2>6. \A m \in lost : \E t \in thrown : of[t] = of[m] /\ t <= m
    BY DEF PipeInv, Places, LostByThrow
  <2>7. \A i, j \in DOMAIN dispatched :
          i < j /\ of[dispatched[i]] = of[dispatched[j]] => dispatched[i] < dispatched[j]
    BY <2>1 DEF PipeInv, Places, DispatchedOnce
  <2> QED BY <2>3, <2>4, <2>5, <2>6, <2>7 DEF Accounted, P!Accounted
<1> QED BY <1>1, PipeSpec, PTL

\* After a message of the session that has a token send() has one
\* (messaging/context.ts, setupPollerEvents).
THEOREM CanAlwaysSend == PartsSpec => []CanSend
<1>1. PipeInv => CanSend
  BY DEF PipeInv, CanSend
<1> QED BY <1>1, PipeSpec, PTL

\* Context tokens that are not marked as unsaved are in storage, unless they
\* changed while an operation was under way, or a deletion failed
\* (ContextStore.flush).
THEOREM SavedUnlessTouched == PartsSpec => []CleanIsSaved
<1>1. PipeInv => CleanIsSaved
  BY DEF PipeInv, CleanIsSaved, P!CleanIsSaved, Saves
<1> QED BY <1>1, PipeSpec, PTL

-----------------------------------------------------------------------------
(***************************************************************************)
(* Typing.  A ticket that is of an earlier session than the one there is   *)
(* came after that session had ended.                                      *)
(***************************************************************************)

TypingInv == ticket # 0 /\ ~overtaken => ticket = session

\* The cached ticket, however many requests are under way.
LEMMA TypingNext == ASSUME TypingInv, Y!Next PROVE TypingInv'
<1> USE DEF TypingInv
<1>1. CASE Y!Remember \/ \E c \in Y!TypingCall : Y!AskTicket(c)
  BY <1>1 DEF Y!Remember, Y!AskTicket
<1>2. CASE \E c \in Y!TypingCall : Y!TicketAnswered(c)
  <2>1. PICK c \in Y!TypingCall : Y!TicketAnswered(c)
    BY <1>2
  <2>2. session' = session
    BY <2>1 DEF Y!TicketAnswered
  <2>3. CASE ticket' = asked[c] /\ overtaken' = (asked[c] # session)
    BY <2>2, <2>3
  <2>4. CASE UNCHANGED <<ticket, overtaken>>
    BY <2>2, <2>4
  <2>5. CASE ticket' = 0
    BY <2>5
  <2> QED BY <2>1, <2>3, <2>4, <2>5 DEF Y!TicketAnswered, Y!NoTicket
<1>3. CASE Y!SessionExpired \/ Y!ReloginFails
  BY <1>3 DEF Y!SessionExpired, Y!ReloginFails
<1>4. CASE Y!Cleared \/ Y!SetCredentials
  BY <1>4 DEF Y!Cleared, Y!SetCredentials, Y!ClearCache, Y!NoTicket
<1> QED BY <1>1, <1>2, <1>3, <1>4 DEF Y!Next

\* A cached typing ticket is one of this session, unless its answer came after
\* its session had ended (messaging/typing.ts).
THEOREM TicketIsOfSession == PartsSpec => []TicketServes
<1>1. PartsInit => TypingInv
  BY DEF PartsInit, Y!Init, Y!NoTicket, TypingInv
<1>2. ASSUME TypingInv, [PartsNext]_partsVars PROVE TypingInv'
  <2>1. CASE Y!Next
    BY <1>2, <2>1, TypingNext
  <2>2. CASE UNCHANGED typingVars
    BY <1>2, <2>2 DEF typingVars, TypingInv
  <2> QED BY <1>2, <2>1, <2>2 DEF PartsNext, partsVars
<1>3. TypingInv => TicketServes
  BY DEF TypingInv, TicketServes, Y!TicketServes, Y!NoTicket
<1> QED BY <1>1, <1>2, <1>3, PTL DEF PartsSpec

-----------------------------------------------------------------------------
(***************************************************************************)
(* Panel, for any items, presets and number of rows.  The cursor is on a   *)
(* row of the list, or on the first; after it was rendered the window is   *)
(* around it, as far as the list goes.                                     *)
(***************************************************************************)
Switches == {"on", "off", "inherit"}
Timeouts4 == N!FileTimeouts \cup {N!Unset}

Cursor ==
  /\ open \in BOOLEAN /\ tab \in {"user", "project"} /\ section \in N!Sections
  /\ filterActive \in BOOLEAN /\ fresh \in BOOLEAN
  /\ selectedIndex \in Nat /\ scrollOffset \in Nat
  /\ selectedIndex = 0 \/ selectedIndex < N!Count
  /\ fresh => N!SelectionShown

Configs ==
  /\ userSettings \in [timeout : Timeouts4, commands : [N!Commands -> Switches]]
  /\ project \in [timeout : Timeouts4, commands : [N!Commands -> Switches]]

PanelInv == Cursor /\ Configs

\* Panel counts as this module does.
LEMMA PanelCounts == \A X : N!Cardinality(X) = Cardinality(X)
  BY Zenon DEF N!Cardinality, Cardinality

\* What the list of items is like, whatever the items are.
LEMMA ItemsAre ==
  /\ IsFiniteSet(DOMAIN Items) /\ DOMAIN Items \in SUBSET Nat
  /\ MAX_VISIBLE \in Nat \ {0}
<1>1. Items \in Seq(N!ToSet(Items)) /\ MAX_VISIBLE \in Nat \ {0}
  BY PartsAssumption DEF N!PanelAssumption
<1>2. DOMAIN Items = 1..Len(Items) /\ Len(Items) \in Nat
  BY <1>1
<1>3. \A n \in Nat : IsFiniteSet(1..n)
  BY FS_Interval
<1> QED BY <1>1, <1>2, <1>3

\* The list is finite.
LEMMA RowsAre ==
  /\ N!VisibleItems \in SUBSET (DOMAIN Items) /\ IsFiniteSet(N!VisibleItems)
  /\ N!VisibleItems \in SUBSET Nat /\ N!Count \in Nat
<1>1. N!VisibleItems \in SUBSET (DOMAIN Items)
  BY DEF N!VisibleItems, N!InSection
<1>2. IsFiniteSet(N!VisibleItems)
  BY <1>1, ItemsAre, FS_Subset
<1>3. N!Count = Cardinality(N!VisibleItems)
  BY PanelCounts DEF N!Count
<1> QED BY <1>1, <1>2, <1>3, ItemsAre, FS_CardinalityType

\* The list stays while section and filter do.
LEMMA RowsStay ==
  ASSUME UNCHANGED <<section, filterActive, filter>>
  PROVE  N!VisibleItems' = N!VisibleItems /\ N!Count' = N!Count
  BY DEF N!VisibleItems, N!Count, N!InSection, N!Includes

\* What is listed is in the section and passes the filter.
LEMMA ListedIs ==
  /\ N!VisibleItems = {q \in DOMAIN Items : N!Listed(q)}
  /\ \A p : {q \in DOMAIN Items : N!Listed(q) /\ q < p} = {q \in N!VisibleItems : q < p}
<1>1. N!VisibleItems = {q \in DOMAIN Items : N!Listed(q)}
  BY DEF N!VisibleItems, N!InSection, N!Listed
<1> QED BY <1>1

\* What is selected is the item under the cursor.
LEMMA SelectedIs ==
  ASSUME Cursor, N!Count > 0
  PROVE  \E i \in DOMAIN Items : N!Selected = Items[i] /\ N!OnCursor(i)
<1>1. selectedIndex + 1 \in 1..N!Count
  BY RowsAre DEF Cursor
<1>2. PICK i \in N!VisibleItems : UpTo(N!VisibleItems, i) = selectedIndex + 1
  <2>1. N!Count = Cardinality(N!VisibleItems)
    BY PanelCounts DEF N!Count
  <2> QED BY <1>1, <2>1, RowsAre, Ranked
<1>3. {j \in N!VisibleItems : j < i} = {j \in N!VisibleItems : j <= i} \ {i}
  BY RowsAre
<1>4. Cardinality({j \in N!VisibleItems : j < i}) = selectedIndex
  <2> DEFINE upto == {j \in N!VisibleItems : j <= i}
  <2>1. i \in upto /\ upto \in SUBSET N!VisibleItems
    BY RowsAre
  <2>2. Cardinality(upto) = selectedIndex + 1 /\ selectedIndex \in Nat
    BY <1>2 DEF UpTo, Cursor
  <2> HIDE DEF upto
  <2>3. IsFiniteSet(upto)
    BY <2>1, RowsAre, FS_Subset
  <2>4. Cardinality(upto \ {i}) = Cardinality(upto) - 1
    BY <2>1, <2>3, FS_RemoveElement
  <2>5. Cardinality(upto \ {i}) = selectedIndex
    BY <2>2, <2>4
  <2> QED BY <1>3, <2>5 DEF upto
<1> DEFINE chosen == CHOOSE j \in N!VisibleItems :
                       Cardinality({l \in N!VisibleItems : l < j}) = selectedIndex
<1>5. /\ chosen \in N!VisibleItems
      /\ Cardinality({l \in N!VisibleItems : l < chosen}) = selectedIndex
  BY <1>4
<1>6. N!Selected = Items[chosen]
  <2>1. \A j \in N!VisibleItems :
          N!Cardinality({l \in N!VisibleItems : l < j}) = Cardinality({l \in N!VisibleItems : l < j})
    BY PanelCounts
  <2> QED BY <2>1, Zenon DEF N!Selected, N!InRow
<1> HIDE DEF chosen
<1>7. chosen \in DOMAIN Items /\ N!Listed(chosen)
  BY <1>5, ListedIs
<1>8. N!OnCursor(chosen)
  <2>1. {q \in DOMAIN Items : N!Listed(q) /\ q < chosen} = {q \in N!VisibleItems : q < chosen}
    BY ListedIs
  <2> QED BY <1>5, <1>7, <2>1, PanelCounts DEF N!OnCursor
<1> QED BY <1>6, <1>7, <1>8

\* A preset, and where one stands.
LEMMA PresetIs ==
  /\ Len(TIMEOUT_PRESETS) \in Nat \ {0}
  /\ \A i \in 0..(Len(TIMEOUT_PRESETS) - 1) : N!NextPreset(i) \in Timeouts4
  /\ \A t : N!PresetIndex(t) \in 0..Len(TIMEOUT_PRESETS)
  /\ N!PresetIndex(N!Unset) = 0
<1>1. /\ TIMEOUT_PRESETS \in Seq(Nat \ {N!Unset})
      /\ DOMAIN TIMEOUT_PRESETS = 1..Len(TIMEOUT_PRESETS) /\ Len(TIMEOUT_PRESETS) \in Nat \ {0}
  <2>1. TIMEOUT_PRESETS \in Seq(Nat \ {N!Unset}) /\ TIMEOUT_PRESETS # <<>>
    BY PartsAssumption DEF N!PanelAssumption
  <2> QED BY <2>1
<1>2. \A i \in DOMAIN TIMEOUT_PRESETS :
        TIMEOUT_PRESETS[i] \in N!ToSet(TIMEOUT_PRESETS) /\ TIMEOUT_PRESETS[i] # N!Unset
  BY <1>1 DEF N!ToSet
<1>3. \A i \in 0..(Len(TIMEOUT_PRESETS) - 1) : N!NextPreset(i) \in Timeouts4
  <2> SUFFICES ASSUME NEW i \in 0..(Len(TIMEOUT_PRESETS) - 1) PROVE N!NextPreset(i) \in Timeouts4
    OBVIOUS
  <2>1. i + 1 \in DOMAIN TIMEOUT_PRESETS
    BY <1>1
  <2> QED BY <1>2, <2>1 DEF N!NextPreset, Timeouts4, N!FileTimeouts
<1>4. ASSUME NEW t PROVE N!PresetIndex(t) \in 0..Len(TIMEOUT_PRESETS)
  <2>1. CASE t \in N!ToSet(TIMEOUT_PRESETS)
    <3> DEFINE at == CHOOSE i \in DOMAIN TIMEOUT_PRESETS : TIMEOUT_PRESETS[i] = t
    <3>1. at \in DOMAIN TIMEOUT_PRESETS
      BY <2>1 DEF N!ToSet
    <3>2. N!PresetIndex(t) = at
      BY <2>1 DEF N!PresetIndex
    <3> QED BY <1>1, <3>1, <3>2
  <2>2. CASE t \notin N!ToSet(TIMEOUT_PRESETS)
    BY <1>1, <2>2 DEF N!PresetIndex
  <2> QED BY <2>1, <2>2
<1>5. N!PresetIndex(N!Unset) = 0
  <2>1. N!Unset \notin N!ToSet(TIMEOUT_PRESETS)
    BY <1>2 DEF N!ToSet
  <2> QED BY <2>1 DEF N!PresetIndex
<1> QED BY <1>1, <1>3, <1>4, <1>5

\* The timeout goes round; nothing else changes.
LEMMA TimeoutToggled ==
  ASSUME Configs, tab \in {"user", "project"}, N!ToggleTimeout
  PROVE  /\ Configs'
         /\ IF tab = "user" THEN project' = project ELSE userSettings' = userSettings
         /\ userSettings'.commands = userSettings.commands
         /\ project'.commands = project.commands
<1>1. CASE tab = "user"
  <2>1. /\ userSettings' = [userSettings EXCEPT !.timeout =
                              N!NextPreset(N!PresetIndex(@) % Len(TIMEOUT_PRESETS))]
        /\ project' = project
    BY <1>1 DEF N!ToggleTimeout
  <2>2. N!NextPreset(N!PresetIndex(userSettings.timeout) % Len(TIMEOUT_PRESETS)) \in Timeouts4
    <3> DEFINE at == N!PresetIndex(userSettings.timeout)
               n == Len(TIMEOUT_PRESETS)
    <3>1. at \in Nat /\ n \in Nat \ {0}
      BY PresetIs
    <3> HIDE DEF at, n
    <3>2. at % n \in 0..(n - 1)
      BY <3>1
    <3> QED BY <3>2, PresetIs DEF at, n
  <2> QED BY <1>1, <2>1, <2>2 DEF Configs
<1>2. CASE tab # "user"
  <2> DEFINE t == IF /\ project.timeout # N!Unset
                     /\ N!PresetIndex(project.timeout) = Len(TIMEOUT_PRESETS)
                    THEN N!Unset ELSE N!NextPreset(N!PresetIndex(project.timeout))
  <2>1. project' = [project EXCEPT !.timeout = t] /\ userSettings' = userSettings
    BY <1>2 DEF N!ToggleTimeout
  <2>2. t \in Timeouts4
    <3>1. N!PresetIndex(project.timeout) \in 0..Len(TIMEOUT_PRESETS)
      BY PresetIs
    <3>2. CASE project.timeout # N!Unset /\ N!PresetIndex(project.timeout) = Len(TIMEOUT_PRESETS)
      BY <3>2 DEF Timeouts4
    <3>3. CASE ~(project.timeout # N!Unset /\ N!PresetIndex(project.timeout) = Len(TIMEOUT_PRESETS))
      <4>1. N!PresetIndex(project.timeout) \in 0..(Len(TIMEOUT_PRESETS) - 1)
        <5>1. N!PresetIndex(project.timeout) # Len(TIMEOUT_PRESETS)
          BY <3>3, PresetIs
        <5> QED BY <3>1, <5>1, PresetIs
      <4>2. t = N!NextPreset(N!PresetIndex(project.timeout))
        BY <3>3
      <4> QED BY <4>1, <4>2, PresetIs
    <3> QED BY <3>2, <3>3
  <2> HIDE DEF t
  <2> QED BY <1>2, <2>1, <2>2 DEF Configs
<1> QED BY <1>1, <1>2

\* The switch of a command is thrown; nothing else changes.
LEMMA CommandToggled ==
  ASSUME Configs, tab \in {"user", "project"}, NEW c, N!ToggleCommand(c)
  PROVE  /\ Configs'
         /\ IF tab = "user" THEN project' = project ELSE userSettings' = userSettings
         /\ \A d \in N!Commands \ {c} :
              /\ userSettings'.commands[d] = userSettings.commands[d]
              /\ project'.commands[d] = project.commands[d]
         /\ userSettings'.timeout = userSettings.timeout
         /\ project'.timeout = project.timeout
<1>1. CASE tab = "user"
  <2> DEFINE v == IF userSettings.commands[c] = "on" THEN "off" ELSE "on"
  <2>1. /\ userSettings' = [userSettings EXCEPT !.commands[c] = v]
        /\ project' = project
    BY <1>1 DEF N!ToggleCommand
  <2>2. v \in Switches
    BY DEF Switches
  <2> HIDE DEF v
  <2>3. /\ userSettings'.timeout = userSettings.timeout
        /\ userSettings'.commands = [userSettings.commands EXCEPT ![c] = v]
    BY <2>1 DEF Configs
  <2>4. userSettings'.commands \in [N!Commands -> Switches]
    BY <2>2, <2>3 DEF Configs
  <2>5. userSettings' \in [timeout : Timeouts4, commands : [N!Commands -> Switches]]
    BY <2>1, <2>2 DEF Configs
  <2> QED BY <1>1, <2>1, <2>3, <2>5 DEF Configs
<1>2. CASE tab # "user"
  <2> DEFINE v == CASE project.commands[c] = "inherit" -> "on"
                    [] project.commands[c] = "on" -> "off" [] OTHER -> "inherit"
  <2>1. /\ project' = [project EXCEPT !.commands[c] = v]
        /\ userSettings' = userSettings
    BY <1>2 DEF N!ToggleCommand
  <2>2. v \in Switches
    BY DEF Switches
  <2> HIDE DEF v
  <2>3. /\ project'.timeout = project.timeout
        /\ project'.commands = [project.commands EXCEPT ![c] = v]
    BY <2>1 DEF Configs
  <2>5. project' \in [timeout : Timeouts4, commands : [N!Commands -> Switches]]
    BY <2>1, <2>2 DEF Configs
  <2> QED BY <1>2, <2>1, <2>3, <2>5 DEF Configs
<1> QED BY <1>1, <1>2

\* A step that changes no configuration and leaves the cursor on the first row.
LEMMA BackToTop ==
  ASSUME PanelInv, open' \in BOOLEAN, tab' \in {"user", "project"}, section' \in N!Sections,
         filterActive' \in BOOLEAN, fresh' = FALSE, selectedIndex' = 0, scrollOffset' = 0,
         UNCHANGED <<userSettings, project>>
  PROVE  PanelInv'
  BY DEF PanelInv, Cursor, Configs

\* Or on its row, while the list stays.
LEMMA StaysOnRow ==
  ASSUME PanelInv, open' \in BOOLEAN, fresh' \in {FALSE, fresh}, Configs',
         UNCHANGED <<tab, section, selectedIndex, scrollOffset, filterActive, filter>>
  PROVE  PanelInv'
<1>1. N!Count' = N!Count
  BY RowsStay
<1>2. fresh' => fresh /\ N!SelectionShown'
  BY <1>1 DEF N!SelectionShown, PanelInv, Cursor
<1> QED BY <1>1, <1>2 DEF PanelInv, Cursor

\* The panel starts closed.
LEMMA PanelStarts == N!Init => PanelInv
<1> SUFFICES ASSUME N!Init PROVE PanelInv
  OBVIOUS
<1>1. TIMEOUT_PRESETS[1] \in Timeouts4
  <2>1. N!NextPreset(0) \in Timeouts4
    BY PresetIs
  <2> QED BY <2>1 DEF N!NextPreset
<1>2. Configs
  <2>1. N!Unset \in Timeouts4 /\ {"off", "inherit"} \subseteq Switches
    BY DEF Timeouts4, Switches
  <2> QED BY <1>1, <2>1 DEF N!Init, Configs
<1>3. "native" \in N!Sections
  BY DEF N!Sections, N!SECTION_ORDER, N!ToSet
<1>4. Cursor
  BY <1>3, RowsAre DEF N!Init, Cursor
<1> QED BY <1>2, <1>4 DEF PanelInv

\* The panel opens with what is in the files.
LEMMA OpenKeeps ==
  ASSUME PanelInv, NEW t \in N!FileTimeouts, NEW p \in N!FileTimeouts \cup {N!Unset}, N!Open(t, p)
  PROVE  PanelInv'
<1>1. t \in Timeouts4 /\ p \in Timeouts4
  BY DEF Timeouts4
<1>2. Configs'
  BY <1>1 DEF N!Open, PanelInv, Configs
<1>3. /\ open' = TRUE /\ tab' = "user" /\ section' = "native" /\ filterActive' = FALSE
      /\ fresh' = FALSE /\ selectedIndex' = 0 /\ scrollOffset' = 0
  BY DEF N!Open, N!ClearFilter, N!ResetSelection
<1>4. "native" \in N!Sections
  BY DEF N!Sections, N!SECTION_ORDER, N!ToSet
<1>5. Cursor'
  BY <1>3, <1>4 DEF Cursor
<1> QED BY <1>2, <1>5 DEF PanelInv

\* Keys that change the list bring the cursor back to its top.
LEMMA ListKeysKeep ==
  ASSUME PanelInv, \/ N!Backspace \/ N!Slash \/ N!Tab
                   \/ \E delta \in {-1, 1} : N!CycleSection(delta)
                   \/ \E l \in Letters : N!Type(l)
  PROVE  PanelInv'
<1> USE DEF N!Key, N!ResetSelection, N!ClearFilter, N!NoConfig, N!configVars
<1>1. CASE N!Backspace \/ N!Slash \/ N!Tab \/ \E l \in Letters : N!Type(l)
  <2>1. /\ open' \in BOOLEAN /\ tab' \in {"user", "project"} /\ section' = section
        /\ filterActive' \in BOOLEAN /\ fresh' = FALSE /\ selectedIndex' = 0 /\ scrollOffset' = 0
        /\ UNCHANGED <<userSettings, project>>
    BY <1>1 DEF N!Backspace, N!Slash, N!Tab, N!Type, PanelInv, Cursor
  <2> QED BY <2>1, BackToTop DEF PanelInv, Cursor
<1>2. CASE \E delta \in {-1, 1} : N!CycleSection(delta)
  <2>1. PICK delta \in {-1, 1} : N!CycleSection(delta)
    BY <1>2
  <2>2. section' \in N!Sections
    <3> DEFINE idx == CHOOSE i \in DOMAIN N!SECTION_ORDER : N!SECTION_ORDER[i] = section
               at == ((idx - 1 + delta + Len(N!SECTION_ORDER)) % Len(N!SECTION_ORDER)) + 1
    <3>1. DOMAIN N!SECTION_ORDER = 1..3 /\ Len(N!SECTION_ORDER) = 3
      BY DEF N!SECTION_ORDER
    <3>2. section \in N!Sections
      BY DEF PanelInv, Cursor
    <3>3. idx \in 1..3
      <4>1. \E i \in DOMAIN N!SECTION_ORDER : N!SECTION_ORDER[i] = section
        BY <3>2 DEF N!Sections, N!ToSet
      <4> QED BY <3>1, <4>1
    <3>4. section' = N!SECTION_ORDER[at]
      BY <2>1 DEF N!CycleSection
    <3> HIDE DEF idx
    <3>5. at \in DOMAIN N!SECTION_ORDER
      BY <3>1, <3>3
    <3> HIDE DEF at
    <3> QED BY <3>4, <3>5 DEF N!Sections, N!ToSet
  <2>3. /\ open' = open /\ tab' = tab /\ filterActive' = FALSE /\ fresh' = FALSE
        /\ selectedIndex' = 0 /\ scrollOffset' = 0 /\ UNCHANGED <<userSettings, project>>
    BY <2>1 DEF N!CycleSection
  <2>4. open' \in BOOLEAN /\ tab' \in {"user", "project"} /\ filterActive' \in BOOLEAN
    BY <2>3 DEF PanelInv, Cursor
  <2> QED BY <2>2, <2>3, <2>4, BackToTop
<1> QED BY <1>1, <1>2

\* Esc ends the filter, or closes the panel.
LEMMA EscapeKeeps == ASSUME PanelInv, N!Escape PROVE PanelInv'
<1> USE DEF N!Escape, N!Key, N!ResetSelection, N!ClearFilter, N!NoConfig, N!configVars, N!listVars
<1>1. CASE filterActive
  <2>1. /\ open' \in BOOLEAN /\ tab' \in {"user", "project"} /\ section' \in N!Sections
        /\ filterActive' \in BOOLEAN /\ fresh' = FALSE /\ selectedIndex' = 0 /\ scrollOffset' = 0
        /\ UNCHANGED <<userSettings, project>>
    BY <1>1 DEF PanelInv, Cursor
  <2> QED BY <2>1, BackToTop
<1>2. CASE ~filterActive
  <2>1. /\ open' \in BOOLEAN /\ fresh' = FALSE
        /\ UNCHANGED <<tab, section, selectedIndex, scrollOffset, filterActive, filter>>
        /\ UNCHANGED <<userSettings, project>>
    BY <1>2
  <2>2. Configs'
    BY <2>1 DEF PanelInv, Configs
  <2> QED BY <2>1, <2>2, StaysOnRow
<1> QED BY <1>1, <1>2

\* The cursor moves around the ends of the list.
LEMMA MoveKeeps == ASSUME PanelInv, NEW delta \in {-1, 1}, N!Move(delta) PROVE PanelInv'
<1>1. /\ open /\ fresh' = FALSE
      /\ selectedIndex' = IF N!Count > 0 THEN (selectedIndex + delta + N!Count) % N!Count
                                         ELSE selectedIndex
      /\ UNCHANGED <<open, tab, section, scrollOffset, filterActive, filter, userSettings, project>>
  BY DEF N!Move, N!Key, N!NoConfig, N!configVars
<1>2. N!Count' = N!Count /\ N!Count \in Nat
  BY <1>1, RowsStay, RowsAre
<1>3. selectedIndex' \in Nat /\ (selectedIndex' = 0 \/ selectedIndex' < N!Count)
  <2>1. CASE N!Count > 0
    <3> DEFINE sum == selectedIndex + delta + N!Count
    <3>1. sum \in Int
      BY <1>2 DEF PanelInv, Cursor
    <3> HIDE DEF sum
    <3>2. \A n \in Nat : n > 0 => sum % n \in 0..(n - 1)
      BY <3>1
    <3> QED BY <1>1, <1>2, <2>1, <3>2 DEF sum
  <2>2. CASE ~(N!Count > 0)
    BY <1>1, <2>2 DEF PanelInv, Cursor
  <2> QED BY <2>1, <2>2
<1>4. Cursor'
  BY <1>1, <1>2, <1>3 DEF PanelInv, Cursor
<1> QED BY <1>1, <1>4 DEF PanelInv, Configs

\* A space or Enter throws the switch under the cursor, if there is one.
LEMMA ToggleIs ==
  ASSUME PanelInv, N!Toggle
  PROVE  /\ open /\ UNCHANGED <<open, tab, section, selectedIndex, scrollOffset, filterActive, filter>>
         /\ fresh' = FALSE
         /\ \/ UNCHANGED <<userSettings, project>>
            \/ \E i \in DOMAIN Items : N!OnCursor(i) /\
                 \/ Items[i].id = N!TIMEOUT_ITEM_ID /\ N!ToggleTimeout
                 \/ /\ Items[i].id # N!TIMEOUT_ITEM_ID /\ ~Items[i].exempt
                    /\ N!ToggleCommand(Items[i].id)
<1>1. /\ open /\ UNCHANGED <<open, tab, section, selectedIndex, scrollOffset, filterActive, filter>>
      /\ fresh' = FALSE
  BY DEF N!Toggle, N!Key, N!listVars
<1>2. CASE N!Count = 0
  BY <1>1, <1>2, RowsAre DEF N!Toggle, N!NoConfig, N!configVars
<1>3. CASE N!Count > 0
  <2>1. PICK i \in DOMAIN Items : N!Selected = Items[i] /\ N!OnCursor(i)
    BY <1>3, SelectedIs DEF PanelInv
  <2>2. \/ UNCHANGED <<userSettings, project>>
        \/ N!Selected.id = N!TIMEOUT_ITEM_ID /\ N!ToggleTimeout
        \/ /\ N!Selected.id # N!TIMEOUT_ITEM_ID /\ ~N!Selected.exempt
           /\ N!ToggleCommand(N!Selected.id)
    BY <1>3, RowsAre, Zenon DEF N!Toggle, N!NoConfig, N!configVars
  <2> QED BY <1>1, <2>1, <2>2, Zenon
<1>4. N!Count = 0 \/ N!Count > 0
  BY RowsAre
<1> QED BY <1>2, <1>3, <1>4

\* The configurations keep their form.
LEMMA ToggleKeeps == ASSUME PanelInv, N!Toggle PROVE PanelInv'
<1>1. Configs'
  BY ToggleIs, TimeoutToggled, CommandToggled DEF PanelInv, Cursor, Configs
<1> QED BY <1>1, ToggleIs, StaysOnRow DEF PanelInv, Cursor

\* Rendered, the window is around the cursor.
LEMMA RenderKeeps == ASSUME PanelInv, N!Render PROVE PanelInv'
<1> DEFINE row == IF selectedIndex < N!Count THEN selectedIndex
                  ELSE IF N!Count > 0 THEN N!Count - 1 ELSE 0
<1>1. /\ selectedIndex' = row /\ scrollOffset' = N!Scrolled(selectedIndex') /\ fresh' = TRUE
      /\ UNCHANGED <<open, tab, section, filterActive, filter, userSettings, project>>
  BY DEF N!Render, N!configVars
<1>2. /\ N!Count' = N!Count /\ N!Count \in Nat /\ selectedIndex \in Nat /\ scrollOffset \in Nat
      /\ MAX_VISIBLE \in Nat \ {0}
  BY <1>1, RowsStay, RowsAre, ItemsAre DEF PanelInv, Cursor
<1>3. /\ selectedIndex' \in Nat /\ (selectedIndex' = 0 \/ selectedIndex' < N!Count)
      /\ (N!Count > 0 => selectedIndex' < N!Count)
  BY <1>1, <1>2
<1> DEFINE top == CASE selectedIndex' < scrollOffset -> selectedIndex'
                    [] selectedIndex' >= scrollOffset + MAX_VISIBLE ->
                         selectedIndex' - MAX_VISIBLE + 1
                    [] OTHER -> scrollOffset
           lowest == IF N!Count > MAX_VISIBLE THEN N!Count - MAX_VISIBLE ELSE 0
<1>4. scrollOffset' = IF top > lowest THEN lowest ELSE top
  BY <1>1 DEF N!Scrolled
<1>5. top \in Nat /\ selectedIndex' \in top..(top + MAX_VISIBLE - 1)
  <2>1. CASE selectedIndex' < scrollOffset
    BY <1>2, <1>3, <2>1
  <2>2. CASE ~(selectedIndex' < scrollOffset) /\ selectedIndex' >= scrollOffset + MAX_VISIBLE
    BY <1>2, <1>3, <2>2
  <2>3. CASE ~(selectedIndex' < scrollOffset) /\ ~(selectedIndex' >= scrollOffset + MAX_VISIBLE)
    BY <1>2, <1>3, <2>3
  <2> QED BY <2>1, <2>2, <2>3
<1> HIDE DEF top
<1>6. /\ scrollOffset' \in Nat
      /\ N!Count > 0 => selectedIndex' \in scrollOffset'..(scrollOffset' + MAX_VISIBLE - 1)
      /\ scrollOffset' > 0 => scrollOffset' + MAX_VISIBLE <= N!Count
  BY <1>2, <1>3, <1>4, <1>5
<1>7. N!SelectionShown'
  BY <1>2, <1>3, <1>6 DEF N!SelectionShown
<1>8. Cursor'
  BY <1>1, <1>2, <1>3, <1>6, <1>7 DEF PanelInv, Cursor
<1> QED BY <1>1, <1>8 DEF PanelInv, Configs

\* Every step of the panel keeps the invariant.
LEMMA PanelNext == ASSUME PanelInv, N!Next PROVE PanelInv'
<1>1. CASE \E t \in N!FileTimeouts, p \in N!FileTimeouts \cup {N!Unset} : N!Open(t, p)
  BY <1>1, OpenKeeps
<1>2. CASE \/ N!Backspace \/ N!Slash \/ N!Tab
           \/ \E delta \in {-1, 1} : N!CycleSection(delta)
           \/ \E l \in Letters : N!Type(l)
  BY <1>2, ListKeysKeep
<1>3. CASE N!Escape
  BY <1>3, EscapeKeeps
<1>4. CASE \E delta \in {-1, 1} : N!Move(delta)
  BY <1>4, MoveKeeps
<1>5. CASE N!Toggle
  BY <1>5, ToggleKeeps
<1>6. CASE N!Render
  BY <1>6, RenderKeeps
<1> QED BY <1>1, <1>2, <1>3, <1>4, <1>5, <1>6 DEF N!Next

\* Beside the other parts, too.
LEMMA PanelSpec == PartsSpec => []PanelInv
<1>1. PartsInit => PanelInv
  BY PanelStarts DEF PartsInit
<1>2. ASSUME PanelInv, [PartsNext]_partsVars PROVE PanelInv'
  <2>1. CASE N!Next
    BY <1>2, <2>1, PanelNext
  <2>2. CASE UNCHANGED panelVars
    <3>1. UNCHANGED <<open, tab, section, selectedIndex, scrollOffset, filterActive, filter,
                      userSettings, project, fresh>>
      BY <2>2 DEF panelVars
    <3>2. open' \in BOOLEAN /\ fresh' \in {FALSE, fresh} /\ Configs'
      BY <1>2, <3>1 DEF PanelInv, Cursor, Configs
    <3> QED BY <1>2, <3>1, <3>2, StaysOnRow
  <2> QED BY <1>2, <2>1, <2>2 DEF PartsNext, partsVars
<1> QED BY <1>1, <1>2, PTL DEF PartsSpec

\* After every rendering the cursor is on a row of the list that is shown, and the
\* window leaves no row empty that could show an item, whatever the items, the
\* filter and the number of rows (render of panel.ts).
THEOREM CursorIsShown == PartsSpec => []SelectionShown
<1>1. PanelInv => SelectionShown
  BY DEF PanelInv, Cursor, SelectionShown, N!SelectionShown
<1> QED BY <1>1, PanelSpec, PTL

\* A switch is thrown by Toggle only.
LEMMA OnlyToggle ==
  ASSUME PanelInv, N!Next, open, N!configVars' # N!configVars
  PROVE  N!Toggle
<1>1. ~N!Escape /\ ~N!Backspace /\ ~N!Slash /\ ~N!Tab /\ ~N!Render
  BY DEF N!Escape, N!Backspace, N!Slash, N!Tab, N!Render, N!NoConfig
<1>2. \A delta \in {-1, 1} : ~N!CycleSection(delta) /\ ~N!Move(delta)
  BY DEF N!CycleSection, N!Move, N!NoConfig
<1>3. \A l \in Letters : ~N!Type(l)
  BY DEF N!Type, N!NoConfig
<1>4. \A t, p : ~N!Open(t, p)
  BY DEF N!Open
<1> QED BY <1>1, <1>2, <1>3, <1>4 DEF N!Next

\* A key throws at most one switch: that of the item in the row of the cursor, in
\* the scope of the tab, and none of a command that is always on, whatever the
\* items, the filter and the presets (handleInput and toggle of panel.ts).
THEOREM KeysThrowSelected == PartsSpec => ChangesSelected
<1>1. ASSUME PanelInv, [PartsNext]_partsVars PROVE [N!OnlySelected]_(N!panelVars)
  <2>1. CASE N!Next
    <3> SUFFICES ASSUME open, N!configVars' # N!configVars PROVE N!OnlySelected
      BY DEF N!OnlySelected
    <3>1. N!Toggle
      BY <1>1, <2>1, OnlyToggle
    <3>2. PICK i \in DOMAIN Items :
            /\ N!OnCursor(i)
            /\ \/ Items[i].id = N!TIMEOUT_ITEM_ID /\ N!ToggleTimeout
               \/ /\ Items[i].id # N!TIMEOUT_ITEM_ID /\ ~Items[i].exempt
                  /\ N!ToggleCommand(Items[i].id)
      BY <1>1, <3>1, ToggleIs DEF N!configVars
    <3>3. Configs /\ tab \in {"user", "project"}
      BY <1>1 DEF PanelInv, Cursor
    <3>4. CASE Items[i].id = N!TIMEOUT_ITEM_ID /\ N!ToggleTimeout
      <4>1. /\ IF tab = "user" THEN project' = project ELSE userSettings' = userSettings
            /\ userSettings'.commands = userSettings.commands
            /\ project'.commands = project.commands
        BY <3>3, <3>4, TimeoutToggled
      <4> QED BY <3>2, <3>4, <4>1 DEF N!OnlySelected
    <3>5. CASE /\ Items[i].id # N!TIMEOUT_ITEM_ID /\ ~Items[i].exempt
               /\ N!ToggleCommand(Items[i].id)
      <4>1. /\ IF tab = "user" THEN project' = project ELSE userSettings' = userSettings
            /\ \A d \in N!Commands \ {Items[i].id} :
                 /\ userSettings'.commands[d] = userSettings.commands[d]
                 /\ project'.commands[d] = project.commands[d]
            /\ userSettings'.timeout = userSettings.timeout
            /\ project'.timeout = project.timeout
        BY <3>3, <3>5, CommandToggled
      <4> QED BY <3>2, <3>5, <4>1 DEF N!OnlySelected
    <3> QED BY <3>2, <3>4, <3>5
  <2>2. CASE UNCHANGED panelVars
    BY <2>2 DEF panelVars, N!panelVars, N!listVars, N!configVars
  <2> QED BY <1>1, <2>1, <2>2 DEF PartsNext, partsVars
<1> QED BY <1>1, PanelSpec, PTL DEF PartsSpec, ChangesSelected, N!ChangesSelected
-----------------------------------------------------------------------------
(***************************************************************************)
(* The chunks of a text.  FlattenSeq is recursive: what holds of it for    *)
(* every sequence is shown of the least counterexample (LeastOf).          *)
(***************************************************************************)
\* The partial results of FlattenSeq.
Flat(s, n, f) == f = [i \in 1..n |-> IF i = 1 THEN s[i] ELSE f[i - 1] \o s[i]]

\* They exist: the least number without them would have those of the one before.
LEMMA FlatExists ==
  ASSUME NEW s, NEW n \in Nat
  PROVE  \E f : Flat(s, n, f)
<1> DEFINE bad == {m \in Nat : ~\E f : Flat(s, m, f)}
<1> SUFFICES ASSUME bad # {} PROVE FALSE
  OBVIOUS
<1>1. PICK m \in bad : \A k \in bad : m <= k
  BY LeastOf
<1>2. CASE m = 0
  <2>1. Flat(s, 0, [i \in 1..0 |-> s[i]])
    BY DEF Flat
  <2> QED BY <1>1, <1>2, <2>1
<1>3. CASE m # 0
  <2>1. m - 1 \in Nat /\ ~(m <= m - 1)
    BY <1>1, <1>3
  <2>2. PICK f : Flat(s, m - 1, f)
    BY <1>1, <2>1
  <2> DEFINE g == [i \in 1..m |-> IF i = 1 THEN s[i] ELSE f[i - 1] \o s[i]]
  <2>3. ASSUME NEW i \in 1..m, i # 1 PROVE g[i - 1] = f[i - 1]
    <3>1. i - 1 \in 1..(m - 1) /\ i - 1 \in 1..m
      BY <1>1, <2>3
    <3> QED BY <2>2, <3>1 DEF Flat
  <2>4. g = [i \in 1..m |-> IF i = 1 THEN s[i] ELSE g[i - 1] \o s[i]]
    BY <2>3
  <2>5. Flat(s, m, g)
    BY <2>4 DEF Flat
  <2> QED BY <1>1, <2>5
<1> QED BY <1>2, <1>3

\* And they depend on what was put in so far only.
LEMMA FlatSame ==
  \A s, t, f, g : \A n, m \in Nat :
    /\ n <= m /\ \A i \in 1..n : s[i] = t[i]
    /\ Flat(s, n, f) /\ Flat(t, m, g)
    => \A i \in 1..n : f[i] = g[i]
<1> SUFFICES ASSUME NEW s, NEW t, NEW f, NEW g, NEW n \in Nat, NEW m \in Nat,
                    n <= m, \A i \in 1..n : s[i] = t[i], Flat(s, n, f), Flat(t, m, g)
             PROVE  \A i \in 1..n : f[i] = g[i]
  OBVIOUS
<1> DEFINE bad == {i \in 1..n : f[i] # g[i]}
<1> SUFFICES ASSUME bad # {} PROVE FALSE
  OBVIOUS
<1>1. PICK i \in bad : \A k \in bad : i <= k
  <2>1. bad \in SUBSET Nat
    OBVIOUS
  <2> QED BY <2>1, LeastOf
<1>2. i \in 1..n /\ i \in 1..m /\ f[i] # g[i] /\ s[i] = t[i]
  BY <1>1
<1>3. i # 1 => f[i - 1] = g[i - 1]
  <2>1. i # 1 => i - 1 \in 1..n /\ ~(i <= i - 1)
    BY <1>2
  <2> QED BY <1>1, <2>1
<1>4. /\ \A j \in 1..n : f[j] = IF j = 1 THEN s[j] ELSE f[j - 1] \o s[j]
      /\ \A j \in 1..m : g[j] = IF j = 1 THEN t[j] ELSE g[j - 1] \o t[j]
  BY Zenon DEF Flat
<1>5. CASE i = 1
  BY <1>2, <1>4, <1>5
<1>6. CASE i # 1
  <2>1. f[i] = f[i - 1] \o s[i] /\ g[i] = g[i - 1] \o t[i]
    BY <1>2, <1>4, <1>6
  <2> QED BY <1>2, <1>3, <1>6, <2>1
<1> QED BY <1>5, <1>6

\* FlattenSeq returns the last of them.
LEMMA FlattenIs ==
  ASSUME NEW s, Len(s) \in Nat, NEW f, Flat(s, Len(s), f)
  PROVE  C!FlattenSeq(s) = IF Len(s) = 0 THEN s ELSE f[Len(s)]
<1>1. CASE Len(s) = 0
  BY <1>1 DEF C!FlattenSeq
<1>2. CASE Len(s) # 0
  <2> DEFINE g == CHOOSE h : h = [i \in 1..Len(s) |-> IF i = 1 THEN s[i] ELSE h[i - 1] \o s[i]]
  <2>1. Flat(s, Len(s), g)
    BY DEF Flat
  <2>2. C!FlattenSeq(s) = g[Len(s)]
    BY <1>2 DEF C!FlattenSeq
  <2> HIDE DEF g
  <2>3. \A i \in 1..Len(s) : g[i] = f[i]
    <3>1. PICK n, u : n = Len(s) /\ u = s
      OBVIOUS
    <3>2. n \in Nat /\ n <= n /\ (\A i \in 1..n : u[i] = s[i]) /\ Flat(u, n, g) /\ Flat(s, n, f)
      BY <2>1, <3>1
    <3>3. \A i \in 1..n : g[i] = f[i]
      BY <3>2, FlatSame
    <3> QED BY <3>1, <3>3
  <2>4. Len(s) \in 1..Len(s)
    BY <1>2
  <2> QED BY <1>2, <2>2, <2>3, <2>4
<1> QED BY <1>1, <1>2

\* One more sequence goes to the end.
LEMMA FlattenAppends ==
  ASSUME NEW X, NEW s \in Seq(Seq(X)), C!FlattenSeq(s) \in Seq(X), NEW c \in Seq(X)
  PROVE  /\ C!FlattenSeq(Append(s, c)) = C!FlattenSeq(s) \o c
         /\ C!FlattenSeq(Append(s, c)) \in Seq(X)
<1> DEFINE n == Len(s)
           t == Append(s, c)
<1>1. /\ n \in Nat /\ Len(t) = n + 1 /\ \A i \in 1..n : t[i] = s[i]
      /\ t[n + 1] = c
  OBVIOUS
<1> HIDE DEF t
<1>2. PICK f : Flat(s, n, f)
  BY <1>1, FlatExists
<1>3. PICK g : Flat(t, n + 1, g)
  <2>1. n + 1 \in Nat
    BY <1>1
  <2> QED BY <2>1, FlatExists
<1>4. C!FlattenSeq(s) = IF n = 0 THEN s ELSE f[n]
  BY <1>1, <1>2, FlattenIs
<1>5. C!FlattenSeq(t) = g[n + 1]
  <2>1. Len(t) \in Nat /\ Len(t) # 0 /\ Flat(t, Len(t), g)
    BY <1>1, <1>3
  <2>2. C!FlattenSeq(t) = g[Len(t)]
    BY <2>1, FlattenIs
  <2> QED BY <1>1, <2>2
<1>6. g[n + 1] = IF n = 0 THEN c ELSE g[n] \o c
  <2>1. \A j \in 1..(n + 1) : g[j] = IF j = 1 THEN t[j] ELSE g[j - 1] \o t[j]
    BY <1>3, Zenon DEF Flat
  <2>2. n + 1 \in 1..(n + 1) /\ (n + 1 = 1 <=> n = 0) /\ (n + 1) - 1 = n
    BY <1>1
  <2> QED BY <1>1, <2>1, <2>2
<1>7. n # 0 => g[n] = f[n]
  <2>1. n \in Nat /\ n + 1 \in Nat /\ n <= n + 1 /\ \A i \in 1..n : s[i] = t[i]
    BY <1>1
  <2> HIDE DEF n
  <2>2. \A i \in 1..n : f[i] = g[i]
    <3> PICK m : m = n + 1
      OBVIOUS
    <3>1. n \in Nat /\ m \in Nat /\ n <= m /\ (\A i \in 1..n : s[i] = t[i])
      BY <2>1
    <3>2. Flat(s, n, f) /\ Flat(t, m, g)
      BY <1>2, <1>3
    <3> HIDE DEF Flat
    <3> QED BY <3>1, <3>2, FlatSame
  <2> QED BY <1>1, <2>2
<1>8. C!FlattenSeq(t) = C!FlattenSeq(s) \o c
  <2>1. n = 0 => s = << >> /\ << >> \o c = c
    OBVIOUS
  <2> QED BY <1>4, <1>5, <1>6, <1>7, <2>1
<1>9. C!FlattenSeq(s) \o c \in Seq(X)
  OBVIOUS
<1> QED BY <1>8, <1>9 DEF t

\* What lastIndexOf finds: the last place of all, or none.
LEMMA LastIndexIs ==
  ASSUME NEW p \in Seq(C!Units), NEW w \in Seq(C!Units)
  PROVE  \E m \in Int :
           /\ m = C!LastIndexOf(p, w)
           /\ \/ m = -1
              \/ m \in 0..(Len(w) - Len(p)) /\ SubSeq(w, m + 1, m + Len(p)) = p
           /\ \A i \in 0..(Len(w) - Len(p)) : SubSeq(w, i + 1, i + Len(p)) = p => i <= m
<1> DEFINE at == {-1} \cup {i \in 0..(Len(w) - Len(p)) : SubSeq(w, i + 1, i + Len(p)) = p}
           behind == {Len(w) - y : y \in at}
<1>1. Len(w) \in Nat /\ Len(p) \in Nat
  OBVIOUS
<1>2. -1 \in at /\ \A y \in at : y \in Int /\ y <= Len(w)
  BY <1>1
<1>3. behind \in SUBSET Nat /\ behind # {}
  <2> HIDE DEF at
  <2>1. \A y \in at : Len(w) - y \in Nat
    BY <1>1, <1>2
  <2> QED BY <1>2, <2>1
<1>4. PICK x \in behind : \A y \in behind : x <= y
  <2> HIDE DEF behind
  <2> QED BY <1>3, LeastOf
<1>5. PICK m \in at : x = Len(w) - m
  BY <1>4
<1>6. m \in Int /\ \A y \in at : m >= y
  <2>1. ASSUME NEW y \in at PROVE m >= y
    <3> HIDE DEF at
    <3>1. Len(w) - y \in behind
      OBVIOUS
    <3>2. Len(w) - m <= Len(w) - y
      BY <1>4, <1>5, <3>1
    <3> QED BY <1>1, <1>2, <3>2
  <2> QED BY <1>2, <2>1
<1>7. C!LastIndexOf(p, w) \in at /\ \A y \in at : C!LastIndexOf(p, w) >= y
  <2>1. C!LastIndexOf(p, w) = CHOOSE z \in at : \A y \in at : z >= y
    BY DEF C!LastIndexOf, C!Max
  <2> HIDE DEF at
  <2> QED BY <1>6, <2>1
<1> QED BY <1>2, <1>7

\* Of a single unit.
LEMMA LastUnitIs ==
  ASSUME NEW u \in C!Units, NEW w \in Seq(C!Units)
  PROVE  \E m \in Int :
           /\ m = C!LastIndexOf(<<u>>, w)
           /\ m = -1 \/ (m + 1 \in 1..Len(w) /\ w[m + 1] = u)
           /\ \A j \in 1..Len(w) : w[j] = u => j - 1 <= m
<1>1. <<u>> \in Seq(C!Units) /\ Len(<<u>>) = 1
  OBVIOUS
<1>2. PICK m \in Int :
        /\ m = C!LastIndexOf(<<u>>, w)
        /\ \/ m = -1
           \/ m \in 0..(Len(w) - 1) /\ SubSeq(w, m + 1, m + 1) = <<u>>
        /\ \A i \in 0..(Len(w) - 1) : SubSeq(w, i + 1, i + 1) = <<u>> => i <= m
  BY <1>1, LastIndexIs
<1>3. \A j \in 1..Len(w) : SubSeq(w, j, j) = <<u>> <=> w[j] = u
  <2> SUFFICES ASSUME NEW j \in 1..Len(w) PROVE SubSeq(w, j, j) = <<u>> <=> w[j] = u
    OBVIOUS
  <2> DEFINE t == SubSeq(w, j, j)
  <2>1. /\ t \in Seq(C!Units) /\ Len(t) = 1 /\ t[1] = w[j]
    BY SubSeqProperties
  <2>2. <<u>> \in Seq(C!Units) /\ Len(<<u>>) = 1 /\ <<u>>[1] = u
    OBVIOUS
  <2> HIDE DEF t
  <2>3. t[1] = u => t = <<u>>
    <3>1. \A i \in 1..Len(t) : i = 1
      BY <2>1
    <3> QED BY <2>1, <2>2, <3>1, SeqEqual
  <2> QED BY <2>1, <2>2, <2>3 DEF t
<1>4. m = -1 \/ (m + 1 \in 1..Len(w) /\ w[m + 1] = u)
  <2>1. m \in 0..(Len(w) - 1) => m + 1 \in 1..Len(w)
    OBVIOUS
  <2> QED BY <1>2, <1>3, <2>1
<1>5. ASSUME NEW j \in 1..Len(w), w[j] = u PROVE j - 1 <= m
  <2> DEFINE i == j - 1
  <2>1. i \in 0..(Len(w) - 1) /\ i + 1 = j
    OBVIOUS
  <2> HIDE DEF i
  <2>2. SubSeq(w, i + 1, i + 1) = <<u>>
    BY <1>3, <1>5, <2>1
  <2>3. i <= m
    BY <1>2, <2>1, <2>2
  <2> QED BY <2>3 DEF i
<1> QED BY <1>2, <1>4, <1>5

\* Of a paragraph break.
LEMMA LastParagraphIs ==
  ASSUME NEW w \in Seq(C!Units)
  PROVE  \E m \in Int :
           /\ m = C!LastIndexOf(C!ParagraphBreak, w)
           /\ m = -1 \/ (m + 2 \in 2..Len(w) /\ w[m + 2] = "lf")
<1> DEFINE p == C!ParagraphBreak
<1>1. p \in Seq(C!Units) /\ Len(p) = 2 /\ p[2] = "lf"
  BY DEF C!ParagraphBreak, C!Units
<1> HIDE DEF p
<1>2. PICK m \in Int :
        /\ m = C!LastIndexOf(p, w)
        /\ \/ m = -1
           \/ m \in 0..(Len(w) - 2) /\ SubSeq(w, m + 1, m + 2) = p
  BY <1>1, LastIndexIs
<1>3. ASSUME m # -1 PROVE m + 2 \in 2..Len(w) /\ w[m + 2] = "lf"
  <2>1. m \in 0..(Len(w) - 2) /\ SubSeq(w, m + 1, m + 2) = p
    BY <1>2, <1>3
  <2>2. m + 1 \in 1..Len(w) /\ m + 2 \in 1..Len(w) /\ m + 2 \in 2..Len(w)
    BY <2>1
  <2>3. SubSeq(w, m + 1, m + 2)[2] = w[m + 2]
    BY <2>2
  <2> QED BY <1>1, <2>1, <2>2, <2>3
<1> QED BY <1>2, <1>3 DEF p

\* A chunk that is cut where lines and words allow it.
CutWell(c) ==
  /\ (\E j \in DOMAIN c : C!Late(j - 1) /\ c[j] = "lf") => c[Len(c)] = "lf"
  /\ (\E j \in DOMAIN c : C!Late(j - 1) /\ c[j] = "sp") => c[Len(c)] \in {"lf", "sp"}

\* Where a text is split: within the window, and well.
LEMMA SplitsWell ==
  ASSUME limit \in Nat \ {0}, NEW s \in Seq(C!Units), Len(s) > limit
  PROVE  /\ C!SplitAt(s) \in 1..limit
         /\ CutWell(SubSeq(s, 1, C!SplitAt(s)))
<1> DEFINE w == SubSeq(s, 1, limit)
<1>1. /\ w \in Seq(C!Units) /\ Len(w) = limit /\ limit \in Nat
      /\ \A j \in 1..limit : w[j] = s[j]
  OBVIOUS
<1> HIDE DEF w
<1>2. PICK para \in Int :
        /\ para = C!LastIndexOf(C!ParagraphBreak, w)
        /\ para = -1 \/ (para + 2 \in 2..Len(w) /\ w[para + 2] = "lf")
  BY <1>1, LastParagraphIs
<1>3. PICK line \in Int :
        /\ line = C!LastIndexOf(C!LineBreak, w)
        /\ line = -1 \/ (line + 1 \in 1..Len(w) /\ w[line + 1] = "lf")
        /\ \A j \in 1..Len(w) : w[j] = "lf" => j - 1 <= line
  BY <1>1, LastUnitIs DEF C!LineBreak, C!Units
<1>4. PICK space \in Int :
        /\ space = C!LastIndexOf(C!Space, w)
        /\ space = -1 \/ (space + 1 \in 1..Len(w) /\ w[space + 1] = "sp")
        /\ \A j \in 1..Len(w) : w[j] = "sp" => j - 1 <= space
  BY <1>1, LastUnitIs DEF C!Space, C!Units
<1>5. C!SplitAt(s) = CASE C!Late(para) -> para + 2
                       [] ~C!Late(para) /\ C!Late(line) -> line + 1
                       [] ~C!Late(para) /\ ~C!Late(line) /\ C!Late(space) -> space + 1
                       [] OTHER -> limit
  BY <1>2, <1>3, <1>4 DEF C!SplitAt, w
<1>6. PICK k : k = C!SplitAt(s)
  OBVIOUS
<1>7. \A i \in Int : C!Late(i) <=> 10 * i > 3 * limit
  BY DEF C!Late
<1>8. ~C!Late(-1) /\ \A i, j \in Int : C!Late(i) /\ i <= j => C!Late(j)
  BY <1>7
<1>9. /\ k \in 1..limit
      /\ \/ w[k] = "lf"
         \/ w[k] = "sp" /\ ~C!Late(line)
         \/ ~C!Late(line) /\ ~C!Late(space)
  <2>1. CASE C!Late(para)
    <3>1. para # -1 /\ k = para + 2
      BY <1>5, <1>6, <1>8, <2>1
    <3>2. para + 2 \in 2..limit /\ w[para + 2] = "lf"
      BY <1>1, <1>2, <3>1
    <3> QED BY <1>1, <3>1, <3>2
  <2>2. CASE ~C!Late(para) /\ C!Late(line)
    <3>1. line # -1 /\ k = line + 1
      BY <1>5, <1>6, <1>8, <2>2
    <3> QED BY <1>1, <1>3, <3>1
  <2>3. CASE ~C!Late(para) /\ ~C!Late(line) /\ C!Late(space)
    <3>1. space # -1 /\ k = space + 1
      BY <1>5, <1>6, <1>8, <2>3
    <3> QED BY <1>1, <1>4, <2>3, <3>1
  <2>4. CASE ~C!Late(para) /\ ~C!Late(line) /\ ~C!Late(space)
    <3>1. k = limit
      BY <1>5, <1>6, <2>4
    <3> QED BY <1>1, <2>4, <3>1
  <2> QED BY <2>1, <2>2, <2>3, <2>4
<1>10. PICK c \in Seq(C!Units) :
         c = SubSeq(s, 1, k) /\ Len(c) = k /\ DOMAIN c = 1..k /\ \A j \in 1..k : c[j] = w[j]
  <2>1. /\ SubSeq(s, 1, k) \in Seq(C!Units) /\ Len(SubSeq(s, 1, k)) = k
        /\ \A j \in 1..k : SubSeq(s, 1, k)[j] = s[j] /\ j \in 1..limit
    BY <1>1, <1>9
  <2>2. DOMAIN SubSeq(s, 1, k) = 1..k
    BY <2>1
  <2> QED BY <1>1, <2>1, <2>2
<1>11. \A j \in DOMAIN c : j \in 1..Len(w) /\ j \in Int /\ j - 1 \in Int /\ c[j] = w[j]
  BY <1>1, <1>9, <1>10
<1>12. /\ (\E j \in DOMAIN c : C!Late(j - 1) /\ c[j] = "lf") => C!Late(line)
       /\ (\E j \in DOMAIN c : C!Late(j - 1) /\ c[j] = "sp") => C!Late(space)
  BY <1>3, <1>4, <1>8, <1>11
<1>13. c[Len(c)] = w[k]
  BY <1>9, <1>10
<1> QED BY <1>6, <1>9, <1>10, <1>12, <1>13 DEF CutWell

\* The chunks and what remains are the text; every chunk but the last of all
\* was cut well.
ChunkInv ==
  /\ text \in Seq(C!Units) /\ remaining \in Seq(C!Units) /\ chunks \in Seq(Seq(C!Units))
  /\ C!FlattenSeq(chunks) \in Seq(C!Units)
  /\ C!FlattenSeq(chunks) \o remaining = text
  /\ \A i \in 1..Len(chunks) : Len(chunks[i]) <= limit /\ (text # << >> => Len(chunks[i]) # 0)
  /\ \A i \in 1..Len(chunks) : i < Len(chunks) \/ cutting => CutWell(chunks[i])
  /\ ~cutting => remaining = << >>

\* Nothing is called yet.
LEMMA ChunkInit == C!Init => ChunkInv
<1> SUFFICES ASSUME C!Init PROVE ChunkInv
  OBVIOUS
<1>1. text = << >> /\ remaining = << >> /\ chunks = << >> /\ cutting = FALSE
  BY DEF C!Init
<1>2. C!FlattenSeq(<< >>) = << >>
  BY DEF C!FlattenSeq
<1>3. << >> \in Seq(C!Units) /\ << >> \in Seq(Seq(C!Units)) /\ << >> \o << >> = << >> /\ Len(<< >>) = 0
  OBVIOUS
<1>4. C!FlattenSeq(chunks) = << >> /\ ~\E i \in 1..Len(chunks) : TRUE
  BY <1>1, <1>2
<1> QED BY <1>1, <1>3, <1>4 DEF ChunkInv

\* A chunk is added.
LEMMA ChunkAdded ==
  ASSUME ChunkInv, limit \in Nat \ {0}, NEW c \in Seq(C!Units), Len(c) <= limit,
         text' # << >> => Len(c) # 0, chunks' = Append(chunks, c),
         remaining' \in Seq(C!Units), text' \in Seq(C!Units),
         chunks = << >> \/ text' = text, chunks = << >> \/ cutting,
         cutting' => CutWell(c), ~cutting' => remaining' = << >>,
         (C!FlattenSeq(chunks) \o c) \o remaining' = text'
  PROVE  ChunkInv'
<1> DEFINE n == Len(chunks)
<1>1. PICK s \in Seq(Seq(C!Units)) : s = chunks /\ C!FlattenSeq(s) \in Seq(C!Units)
  BY DEF ChunkInv
<1>2. /\ chunks' \in Seq(Seq(C!Units)) /\ Len(chunks') = n + 1 /\ n \in Nat
      /\ \A i \in 1..n : chunks'[i] = chunks[i]
      /\ chunks'[n + 1] = c
      /\ \A i \in 1..Len(chunks') : i \in 1..n \/ i = n + 1
  BY <1>1, Appending
<1>3. C!FlattenSeq(chunks') = C!FlattenSeq(chunks) \o c /\ C!FlattenSeq(chunks') \in Seq(C!Units)
  BY <1>1, FlattenAppends
<1>4. /\ \A i \in 1..n : /\ Len(chunks[i]) <= limit
                         /\ text' # << >> => Len(chunks[i]) # 0
                         /\ CutWell(chunks[i])
  BY DEF ChunkInv
<1> HIDE DEF n
<1>5. \A i \in 1..Len(chunks') :
        Len(chunks'[i]) <= limit /\ (text' # << >> => Len(chunks'[i]) # 0)
  BY <1>2, <1>4
<1>6. \A i \in 1..Len(chunks') : i < Len(chunks') \/ cutting' => CutWell(chunks'[i])
  BY <1>2, <1>4
<1> QED BY <1>2, <1>3, <1>5, <1>6 DEF ChunkInv

\* The call, and a turn of the loop.
LEMMA ChunkNext == ASSUME limit \in Nat \ {0}, ChunkInv, C!Next PROVE ChunkInv'
<1>1. ASSUME NEW t \in C!Texts, C!Call(t) PROVE ChunkInv'
  <2>1. t \in Seq(C!Units) /\ Len(t) \in Nat
    BY DEF C!Texts
  <2>2. chunks = << >> /\ ~cutting /\ text' = t
    BY <1>1 DEF C!Call
  <2>3. C!FlattenSeq(chunks) = << >>
    BY <2>2 DEF C!FlattenSeq
  <2>4. << >> \o t = t /\ t \o << >> = t /\ << >> \in Seq(C!Units)
    BY <2>1
  <2>5. CASE Len(t) <= limit
    <3>1. chunks' = Append(chunks, t) /\ remaining' = << >> /\ ~cutting'
      BY <1>1, <2>2, <2>5 DEF C!Call
    <3>2. t # << >> => Len(t) # 0
      BY <2>1
    <3> QED BY <2>1, <2>2, <2>3, <2>4, <2>5, <3>1, <3>2, ChunkAdded
  <2>6. CASE ~(Len(t) <= limit)
    <3>1. remaining' = t /\ cutting' /\ chunks' = << >>
      BY <1>1, <2>2, <2>6 DEF C!Call
    <3>2. Len(<< >>) = 0 /\ << >> \in Seq(Seq(C!Units))
      OBVIOUS
    <3> QED BY <2>1, <2>2, <2>3, <2>4, <3>1, <3>2 DEF ChunkInv
  <2> QED BY <2>5, <2>6
<1>2. CASE C!Cut
  <2>1. PICK r \in Seq(C!Units) : r = remaining
    BY DEF ChunkInv
  <2>2. cutting /\ text' = text
    BY <1>2 DEF C!Cut
  <2>3. /\ text \in Seq(C!Units) /\ C!FlattenSeq(chunks) \in Seq(C!Units)
        /\ C!FlattenSeq(chunks) \o r = text
    BY <2>1 DEF ChunkInv
  <2>4. CASE Len(r) <= limit /\ r = << >>
    <3>1. chunks' = chunks /\ remaining' = r /\ ~cutting'
      BY <1>2, <2>1, <2>4 DEF C!Cut
    <3> QED BY <2>1, <2>2, <2>4, <3>1 DEF ChunkInv
  <2>5. CASE Len(r) <= limit /\ r # << >>
    <3>1. chunks' = Append(chunks, r) /\ remaining' = << >> /\ ~cutting'
      BY <1>2, <2>1, <2>5 DEF C!Cut
    <3>2. Len(r) # 0 /\ text \o << >> = text /\ << >> \in Seq(C!Units)
      BY <2>3, <2>5
    <3> QED BY <2>1, <2>2, <2>3, <2>5, <3>1, <3>2, ChunkAdded
  <2>6. CASE ~(Len(r) <= limit)
    <3>1. PICK k \in 1..limit : k = C!SplitAt(r) /\ CutWell(SubSeq(r, 1, k))
      BY <2>6, SplitsWell
    <3>2. PICK c, d : c = SubSeq(r, 1, k) /\ d = SubSeq(r, k + 1, Len(r))
      OBVIOUS
    <3>3. chunks' = Append(chunks, c) /\ remaining' = d /\ cutting'
      BY <1>2, <2>1, <2>2, <2>6, <3>1, <3>2 DEF C!Cut
    <3>4. k \in Nat /\ k < Len(r) /\ Len(r) \in Nat /\ k # 0
      BY <2>6, <3>1
    <3>5. /\ c \in Seq(C!Units) /\ Len(c) = k /\ d \in Seq(C!Units)
      BY <3>2, <3>4
    <3>6. c \o d = r
      <4>1. 1 \in 1..(Len(r) + 1) /\ k \in (1 - 1)..Len(r) /\ Len(r) \in k..Len(r)
        BY <3>4
      <4>2. SubSeq(r, 1, k) \o SubSeq(r, k + 1, Len(r)) = SubSeq(r, 1, Len(r))
        BY <4>1, ConcatAdjacentSubSeq
      <4> QED BY <3>2, <4>2, SubSeqFull
    <3>7. (C!FlattenSeq(chunks) \o c) \o d = text
      <4>1. PICK f \in Seq(C!Units) : f = C!FlattenSeq(chunks)
        BY <2>3
      <4>2. (f \o c) \o d = f \o (c \o d)
        BY <3>5, ConcatAssociative
      <4> QED BY <2>3, <3>6, <4>1, <4>2
    <3>8. Len(c) <= limit /\ Len(c) # 0 /\ CutWell(c)
      BY <3>1, <3>2, <3>4, <3>5
    <3> QED BY <2>2, <2>3, <3>3, <3>5, <3>7, <3>8, ChunkAdded
  <2> QED BY <2>4, <2>5, <2>6
<1> QED BY <1>1, <1>2 DEF C!Next

\* Beside the other parts, too.
LEMMA ChunkSpec == ASSUME limit \in Nat \ {0} PROVE PartsSpec => []ChunkInv
<1>1. PartsInit => ChunkInv
  BY ChunkInit DEF PartsInit
<1>2. ASSUME ChunkInv, [PartsNext]_partsVars PROVE ChunkInv'
  <2>1. CASE C!Next
    BY <1>2, <2>1, ChunkNext
  <2>2. CASE UNCHANGED chunkVars
    <3>1. UNCHANGED <<text, remaining, chunks, cutting>>
      BY <2>2 DEF chunkVars
    <3> QED BY <1>2, <3>1 DEF ChunkInv
  <2> QED BY <1>2, <2>1, <2>2 DEF PartsNext, partsVars
<1> QED BY <1>1, <1>2, PTL DEF PartsSpec

\* The chunks are the text, none longer than the limit and none empty: each
\* turn of the loop takes something off (sender.ts, chunkText).
THEOREM TextIsChunked ==
  ASSUME limit \in Nat \ {0} PROVE PartsSpec => []ChunksAreText
<1>1. ChunkInv => ChunksAreText
  <2> SUFFICES ASSUME ChunkInv,
                      NEW i \in DOMAIN chunks
               PROVE  Len(chunks[i]) \in (IF text = << >> THEN 0 ELSE 1)..limit
    BY DEF ChunkInv, ChunksAreText, C!ChunksAreText
  <2>1. i \in 1..Len(chunks) /\ chunks[i] \in Seq(C!Units)
    BY DEF ChunkInv
  <2>2. Len(chunks[i]) \in Nat
    BY <2>1
  <2> QED BY <2>1, <2>2 DEF ChunkInv
<1> QED BY <1>1, ChunkSpec, PTL

\* No line and no word is cut without need (sender.ts, chunkText).
THEOREM LinesAreSpared ==
  ASSUME limit \in Nat \ {0} PROVE PartsSpec => []CutsAtBreaks
<1>1. ChunkInv => CutsAtBreaks
  <2> SUFFICES ASSUME ChunkInv, NEW i \in 1..(Len(chunks) - 1)
               PROVE  CutWell(chunks[i])
    BY DEF CutsAtBreaks, C!CutsAtBreaks, CutWell
  <2>1. Len(chunks) \in Nat
    BY DEF ChunkInv
  <2>2. i \in 1..Len(chunks) /\ i < Len(chunks)
    BY <2>1
  <2> QED BY <2>2 DEF ChunkInv
<1> QED BY <1>1, ChunkSpec, PTL
=============================================================================
