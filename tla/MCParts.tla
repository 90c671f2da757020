------------------------------ MODULE MCParts ------------------------------
(***************************************************************************)
(* The journal and the parts that keep a state of their own, for TLC:      *)
(* Pipeline, Typing and ChunkText of the Node SDK, Panel, Settings,        *)
(* Session and Watch of the pi extension.  They share no state in this     *)
(* model and are explored side by side in one run: `which` says which one  *)
(* moves, and the others stay in their initial states.                     *)
(***************************************************************************)
EXTENDS Journal

CONSTANTS
  Batches, BatchSize, Messages,
  TypingCalls, Relogins,
  limit, TextLength,
  Items, Letters, FilterLength, MAX_VISIBLE, TIMEOUT_PRESETS, CustomTimeout,
  Users, Toggles, Openings, Starts,
  Sessions, Calls, News, Faults,
  Timeouts, AgentStarts, Ticks

VARIABLES
  which,
  polled, user, of, todo, phase, dispatched, dropped, thrown, lost, seen, context, dirty,
    stored, ops, touched, valid, relogin,
  session, ticketLogin, known, ticket, overtaken, asked,
  text, remaining, chunks, cutting,
  open, tab, section, selectedIndex, scrollOffset, filterActive, filter, userSettings,
    project, fresh,
  userConfig, panel, shared, pc, starting, got, file, writes, served, saved, missed, stale,
    raced, settingsUsed,
  instance, hasBot, connected, request, late, commands, restart, pendingAck, disarm, arms,
    stuck, call, by, auto, switch, cause, news, announcing, to, acks, overlapped, faults,
  turn, timer, timers, running, partial, starts, now, active, notices

P == INSTANCE Pipeline
Y == INSTANCE Typing WITH relogin <- ticketLogin
C == INSTANCE ChunkText
N == INSTANCE Panel WITH user <- userSettings
S == INSTANCE Settings WITH used <- settingsUsed
T == INSTANCE Session WITH Instances <- Sessions, current <- instance, used <- faults,
                           starting <- announcing, raced <- overlapped
W == INSTANCE Watch

pipelineVars == <<polled, user, of, todo, phase, dispatched, dropped, thrown, lost, seen, context,
                  dirty, stored, ops, touched, valid, relogin>>
typingVars == <<session, ticketLogin, known, ticket, overtaken, asked>>
chunkVars == <<text, remaining, chunks, cutting>>
panelVars == <<open, tab, section, selectedIndex, scrollOffset, filterActive, filter,
               userSettings, project, fresh>>
settingsVars == <<userConfig, panel, shared, pc, starting, got, file, writes, served, saved,
                  missed, stale, raced, settingsUsed>>
sessionVars == <<instance, hasBot, connected, request, late, commands, restart, pendingAck,
                 disarm, arms, stuck, call, by, auto, switch, cause, news, announcing, to, acks,
                 overlapped, faults>>
watchVars == <<turn, timer, timers, running, partial, starts, now, active, notices>>
partsVars == <<which, vars, pipelineVars, typingVars, chunkVars, panelVars, settingsVars,
               sessionVars, watchVars>>

PartsInit ==
  /\ which \in {"journal", "pipeline", "typing", "chunks", "panel", "settings", "session", "watch"}
  /\ Init /\ P!Init /\ Y!Init /\ C!Init /\ N!Init /\ S!Init /\ T!Init /\ W!Init

PartsNext ==
  \/ /\ which = "journal" /\ Next
     /\ UNCHANGED <<which, pipelineVars, typingVars, chunkVars, panelVars, settingsVars,
                    sessionVars, watchVars>>
  \/ /\ which = "pipeline" /\ P!Next
     /\ UNCHANGED <<which, vars, typingVars, chunkVars, panelVars, settingsVars, sessionVars,
                    watchVars>>
  \/ /\ which = "typing" /\ Y!Next
     /\ UNCHANGED <<which, vars, pipelineVars, chunkVars, panelVars, settingsVars, sessionVars,
                    watchVars>>
  \/ /\ which = "chunks" /\ C!Next
     /\ UNCHANGED <<which, vars, pipelineVars, typingVars, panelVars, settingsVars, sessionVars,
                    watchVars>>
  \/ /\ which = "panel" /\ N!Next
     /\ UNCHANGED <<which, vars, pipelineVars, typingVars, chunkVars, settingsVars, sessionVars,
                    watchVars>>
  \/ /\ which = "settings" /\ S!Next
     /\ UNCHANGED <<which, vars, pipelineVars, typingVars, chunkVars, panelVars, sessionVars,
                    watchVars>>
  \/ /\ which = "session" /\ T!Next
     /\ UNCHANGED <<which, vars, pipelineVars, typingVars, chunkVars, panelVars, settingsVars,
                    watchVars>>
  \/ /\ which = "watch" /\ W!Next
     /\ UNCHANGED <<which, vars, pipelineVars, typingVars, chunkVars, panelVars, settingsVars,
                    sessionVars>>

PartsSpec == PartsInit /\ [][PartsNext]_partsVars

ASSUME PartsAssumption == N!PanelAssumption /\ P!PipelineAssumption

\* A list for TLC, with names and filters that tell its items apart.
Item(id, name, at, exempt) ==
  [id |-> id, name |-> name, section |-> at, exempt |-> exempt]
FourItems == <<Item("__timeout", <<"b">>, "setting", TRUE),
               Item("stop", <<"a", "b">>, "native", TRUE),
               Item("help", <<"b">>, "native", FALSE),
               Item("model", <<"b", "a">>, "native", FALSE)>>
TwoPresets == <<60, 120>>

-----------------------------------------------------------------------------
\* Each message of the user is waiting, dispatched, handled by a middleware, or
\* lost to what threw in its batch (client.ts, setupPollerEvents).
Accounted == P!Accounted

\* After a message of the session that has a token, send() has one (context.ts).
CanSend == P!CanSend

\* Context tokens not marked dirty are in storage (context.ts, flush).
CleanIsSaved == P!CleanIsSaved

\* The typing ticket is one of this session (typing.ts).
TicketServes == Y!TicketServes

\* The chunks are the text (sender.ts, chunkText).
ChunksAreText == C!ChunksAreText

\* Lines and words are not cut without need (sender.ts, chunkText).
CutsAtBreaks == C!CutsAtBreaks

\* The selected row is shown (panel.ts, render).
SelectionShown == N!SelectionShown

\* A key changes only what is under the cursor (panel.ts, handleInput).
ChangesSelected == N!ChangesSelected

\* The first sender is paired for good (index.ts, dispatchMessage and openSettings).
PairedOnce == S!PairedOnce

\* The runtime goes by the configuration file (config-store.ts, reloadConfig).
RuntimeIsFile == S!RuntimeIsFile

\* The extension forgets no exemption of the confirmation gate (index.ts,
\* releaseConfirmGate).
NoneLeaks == T!NoneLeaks

\* The dialogs of pi are exempt only while WeChat is connected (index.ts).
ArmedIsConnected == T!ArmedIsConnected

\* A session reconnects and acknowledges only for the /new it was made for
\* (index.ts, performNewSession).
ForItsNew == T!ForItsNew

\* No accepted /new is swallowed (index.ts, handleNativeCommand).
NewIsAnswered == T!NewIsAnswered

\* A notice goes out only after silence, and once per agent_start (timeout.ts).
NoticeIsDue == W!NoticeIsDue
=============================================================================
