------------------------------- MODULE Bridge -------------------------------
(***************************************************************************)
(* The turn lifecycle of the WeChat bridge extension                       *)
(* (pi-agent/src/index.ts): inbound messages become turns, one turn at a   *)
(* time is handed to pi, agent_settled sends the reply and advances the    *)
(* queue, and a journal on disk lets the text turns survive a crash.       *)
(*                                                                         *)
(* The extension is a single JavaScript thread.  A step of this module is  *)
(* what the code does between two points where it waits for I/O, a timer   *)
(* or an event of pi; everything that can happen meanwhile is a step of    *)
(* another action.                                                         *)
(*                                                                         *)
(* Abstractions:                                                           *)
(*  - messages are numbered in order of arrival, a turn is the message it  *)
(*    was made from and the login that created it (gen = 0: from the       *)
(*    message itself, gen = g: replayed from the journal by the g-th       *)
(*    login), because an old and a replayed object of one turn coexist;    *)
(*  - journal is the sequence of unsettled admitted entries: what          *)
(*    replayUnsettledFromLines extracts from the file.  Lines, compaction  *)
(*    and torn writes are the subject of module Journal;                   *)
(*  - all messages come from the one authorized sender;                    *)
(*  - pi is external: a prompt is accepted or refused, a run ends with any *)
(*    outcome (an abort is the outcome "aborted", which the TUI user can   *)
(*    cause too).                                                          *)
(***************************************************************************)
EXTENDS Naturals, Sequences, FiniteSets

CONSTANTS
  Kinds,              \* kinds of inbound messages to consider
  Outcomes,           \* outcomes a run of pi may have
  Messages,           \* bound: number of inbound messages
  MAX_SEND_ATTEMPTS,  \* 4 in the code
  SendFailures,       \* bound: refused calls of pi.sendUserMessage
  Logins,             \* bound: successful logins
  Disconnects,        \* bound: Reconnect / Disconnect in the /wechat menu
  StartFailures,      \* bound: rejections of bot.start()
  Crashes,            \* bound: crashes of the process
  Expiries,           \* bound: session:expired events
  TuiRuns,            \* bound: runs started by the user at the terminal
  DiskResults         \* {TRUE}, or {TRUE, FALSE} where disk I/O may fail

AllKinds == {"text", "media", "skill", "stop"}
AllOutcomes == {"reply", "attach", "silent", "aborted"}

ASSUME BridgeAssumption ==
  /\ Kinds \subseteq AllKinds
  /\ Outcomes \subseteq AllOutcomes
  /\ Messages \in Nat
  /\ MAX_SEND_ATTEMPTS \in Nat \ {0}
  /\ SendFailures \in Nat
  /\ Logins \in Nat
  /\ Disconnects \in Nat
  /\ StartFailures \in Nat
  /\ Crashes \in Nat
  /\ Expiries \in Nat
  /\ TuiRuns \in Nat
  /\ DiskResults \subseteq BOOLEAN

Ids == 1..Messages
Turn == [id : Ids, gen : 0..Logins]
NoTurn == [id |-> 0, gen |-> 0]
New(m) == [id |-> m, gen |-> 0]

\* What a call of dispatchMessage, and of agent_settled's handler, waits for.
DispatchPoints == {"none", "welcome", "fold", "build", "admit", "typing",
                   "done", "failed"}
ReplyPoints == {"none", "text", "files", "settle"}

VARIABLES
  \* module-instance state of wechatBridge
  conn,          \* bot and connected: see Connected and HasBot
  pendingTurns,
  activeTurn,
  preserve,      \* preserveQueuedTurnsAsHistory
  canAbort,      \* currentAbort # undefined
  lastEnd,       \* lastEndSummary; "silent" also stands for null
  welcomed,      \* welcomedUsers has the sender
  \* calls of dispatchMessage
  kind,          \* kind of message m, "none" before it arrives
  pc,            \* where the call for m waits
  hist,          \* folded turns the call still has to settle
  carry,         \* turns folded into the content of m
  \* calls of pumpTurn and of the agent_settled handler
  pump,          \* attempt the pump loop of a turn is at, 0: no loop
  post,          \* what the handler settling a turn waits for
  postKind,      \* the reply action of that handler
  \* disk
  journal,       \* ids of the unsettled entries, in order of admission
  chain,         \* journal operations waiting for their turn
  \* pi
  run,           \* "idle" | "starting" | "running" | "ended"
  inPi,          \* turns whose prompt went into the current run
  \* history of each message, and the bounds used up
  fate,
  used

bridgeVars == <<conn, pendingTurns, activeTurn, preserve, canAbort, lastEnd,
                welcomed>>
dispatchVars == <<kind, pc, hist, carry>>
pumpVars == <<pump>>
postVars == <<post, postKind>>
diskVars == <<journal, chain>>
piVars == <<run, inPi>>
vars == <<bridgeVars, dispatchVars, pumpVars, postVars, diskVars, piVars,
          fate, used>>

-----------------------------------------------------------------------------
\* bot # null && connected: the guard of dispatchMessage and agent_settled.
Connected == conn \in {"up", "stopping"}
\* bot # null; after bot.start() rejected, bot is set and connected is not.
HasBot == conn # "down"

\* Only text messages get a turnId and an entry in the journal.
Journaled(t) == kind[t.id] = "text"

\* The ends of a lifecycle the code settles; "cut": the text of the reply was
\* sent and its attachments were skipped.
Over == {"answered", "cut", "silent", "folded", "dropped"}
\* The first end of a message's lifecycle is the one that counts.
Fate(S, f) == [m \in Ids |-> IF m \in S /\ fate[m] \notin Over
                               THEN f ELSE fate[m]]

RangeOf(s) == {s[i] : i \in DOMAIN s}
IdsOf(s) == {s[i].id : i \in DOMAIN s}

\* Mutant of Settled: settle writes the file (writeFile) instead of appending.
SettledOverwrites(j, id) == << >>

\* The unsettled entries once a settled record for id is appended.
Settled(j, id) ==
  IF id \in RangeOf(j)
    THEN LET i == CHOOSE i \in DOMAIN j : j[i] = id
         IN SubSeq(j, 1, i - 1) \o SubSeq(j, i + 1, Len(j))
    ELSE j

\* One operation on the journal's promise chain; `for` is the message whose
\* dispatchMessage waits for the settling of a turn folded into it.
JournalOps == {"admit", "folded", "dropped", "settled", "replay", "compact",
               "discard"}
Op(op, t, m) == [op |-> op, turn |-> t, for |-> m]
ChainOp == [op : JournalOps, turn : Turn \cup {NoTurn}, for : 0..Messages]

Spend(b) == used' = [used EXCEPT ![b] = @ + 1]
Budgets == {"logins", "failures", "disconnects", "startFailures", "crashes",
            "expiries", "tui"}

-----------------------------------------------------------------------------
\* Mutant of PumpTurn: the queue is taken from its end (pop, not shift).
PumpTurnPops(q) ==
  IF q = << >>
    THEN pendingTurns' = q /\ UNCHANGED <<activeTurn, pump>>
    ELSE /\ pendingTurns' = SubSeq(q, 1, Len(q) - 1)
         /\ activeTurn' = q[Len(q)]
         /\ pump' = [pump EXCEPT ![q[Len(q)]] = 1]

\* pumpTurn up to its first call of pi.sendUserMessage, on queue q.
PumpTurn(q) ==
  IF q = << >>
    THEN pendingTurns' = q /\ UNCHANGED <<activeTurn, pump>>
    ELSE /\ pendingTurns' = Tail(q)
         /\ activeTurn' = Head(q)
         /\ pump' = [pump EXCEPT ![Head(q)] = 1]

\* Mutant of PumpIfIdle: no test for a turn in flight.
PumpAlways(q) == PumpTurn(q)

\* `if (activeTurn === null) await pumpTurn()`, on queue q.
PumpIfIdle(q) ==
  IF activeTurn = NoTurn
    THEN PumpTurn(q)
    ELSE pendingTurns' = q /\ UNCHANGED <<activeTurn, pump>>

\* Mutant of AdvanceQueue: agent_settled replies and stops there.
AdvanceNever == UNCHANGED <<pendingTurns, activeTurn, pump>>

\* The end of agent_settled's handler.
AdvanceQueue ==
  IF preserve
    THEN UNCHANGED <<pendingTurns, activeTurn, pump>>
    ELSE PumpIfIdle(pendingTurns)

\* dispatchMessage while h, the turns folded into m, is still to be settled:
\* settle the first (settleTurn returns at once for one without turnId), then
\* admit (text) or download (media).
SettleOrBuild(m, h, k, queue) ==
  /\ hist' = [hist EXCEPT ![m] = h]
  /\ \/ /\ h # << >>
        /\ pc' = [pc EXCEPT ![m] = "fold"]
        /\ chain' = IF Journaled(Head(h))
                      THEN Append(queue, Op("folded", Head(h), m))
                      ELSE queue
     \/ /\ h = << >> /\ k = "text"
        /\ pc' = [pc EXCEPT ![m] = "admit"]
        /\ chain' = Append(queue, Op("admit", New(m), 0))
     \/ /\ h = << >> /\ k = "media"
        /\ pc' = [pc EXCEPT ![m] = "build"]
        /\ chain' = queue

\* dispatchMessage from the classification of the command on.
Route(m, k) ==
  \/ \* stop: handleNativeCommand
     /\ k = "stop"
     /\ preserve' = (preserve \/ (canAbort /\ pendingTurns # << >>))
     /\ pc' = [pc EXCEPT ![m] = "done"]
     /\ UNCHANGED <<pendingTurns, hist, carry, chain, fate>>
  \/ \* a skill or prompt command: handlePluginCommand, no turnId
     /\ k = "skill"
     /\ pendingTurns' = Append(pendingTurns, New(m))
     /\ pc' = [pc EXCEPT ![m] = "typing"]
     /\ UNCHANGED <<preserve, hist, carry, chain, fate>>
  \/ \* a message: fold the backlog a stop has left
     /\ k \in {"text", "media"}
     /\ LET folded == IF preserve THEN pendingTurns ELSE << >>
        IN /\ carry' = [carry EXCEPT ![m] = IdsOf(folded)]
           /\ fate' = Fate(IdsOf(folded), "folded")
           /\ SettleOrBuild(m, folded, k, chain)
     /\ pendingTurns' = IF preserve THEN << >> ELSE pendingTurns
     /\ preserve' = FALSE

-----------------------------------------------------------------------------
Init ==
  /\ conn = "down"
  /\ pendingTurns = << >>
  /\ activeTurn = NoTurn
  /\ preserve = FALSE
  /\ canAbort = FALSE
  /\ lastEnd = "silent"
  /\ welcomed = FALSE
  /\ kind = [m \in Ids |-> "none"]
  /\ pc = [m \in Ids |-> "none"]
  /\ hist = [m \in Ids |-> << >>]
  /\ carry = [m \in Ids |-> {}]
  /\ pump = [t \in Turn |-> 0]
  /\ post = [t \in Turn |-> "none"]
  /\ postKind = [t \in Turn |-> "silent"]
  /\ journal = << >>
  /\ chain = << >>
  /\ run = "idle"
  /\ inPi = {}
  /\ fate = [m \in Ids |-> "live"]
  /\ used = [b \in Budgets |-> 0]

\* The poller hands over the next message.  The first one after a login waits
\* for the welcome text to be sent; the others are routed at once.
Arrive(m, k) ==
  /\ Connected
  /\ m \in Ids /\ kind[m] = "none" /\ \A n \in 1..(m - 1) : kind[n] # "none"
  /\ kind' = [kind EXCEPT ![m] = k]
  /\ welcomed' = TRUE
  /\ \/ /\ ~welcomed
        /\ pc' = [pc EXCEPT ![m] = "welcome"]
        /\ UNCHANGED <<pendingTurns, preserve, hist, carry, chain, fate>>
     \/ welcomed /\ Route(m, k)
  /\ UNCHANGED <<conn, activeTurn, canAbort, lastEnd, pumpVars, postVars,
                 journal, piVars, used>>

\* The welcome text was sent, or failed to be.
Welcomed(m) ==
  /\ pc[m] = "welcome"
  /\ Route(m, kind[m])
  /\ UNCHANGED <<conn, activeTurn, canAbort, lastEnd, welcomed, kind,
                 pumpVars, postVars, journal, piVars, used>>

\* settleTurn of a folded turn that has no turnId.
SkipFolded(m) ==
  /\ pc[m] = "fold" /\ ~Journaled(Head(hist[m]))
  /\ SettleOrBuild(m, Tail(hist[m]), kind[m], chain)
  /\ UNCHANGED <<bridgeVars, kind, carry, pumpVars, postVars, journal, piVars,
                 fate, used>>

\* buildWechatTurn of a media message: the download succeeded, or threw and
\* with it the call of dispatchMessage.
Built(m, ok) ==
  /\ pc[m] = "build"
  /\ IF ok
       THEN /\ pendingTurns' = Append(pendingTurns, New(m))
            /\ pc' = [pc EXCEPT ![m] = "typing"]
            /\ UNCHANGED fate
       ELSE /\ pc' = [pc EXCEPT ![m] = "failed"]
            /\ fate' = Fate({m}, "lost")
            /\ UNCHANGED pendingTurns
  /\ UNCHANGED <<conn, activeTurn, preserve, canAbort, lastEnd, welcomed, kind,
                 hist, carry, pumpVars, postVars, diskVars, piVars, used>>

\* sendTyping is over, in success or not.
TypingDone(m) ==
  /\ pc[m] = "typing"
  /\ pc' = [pc EXCEPT ![m] = "done"]
  /\ PumpIfIdle(pendingTurns)
  /\ UNCHANGED <<conn, preserve, canAbort, lastEnd, welcomed, kind, hist,
                 carry, postVars, diskVars, piVars, fate, used>>

-----------------------------------------------------------------------------
\* One call of pi.sendUserMessage in the loop of pumpTurn.
Accepted(t) ==
  /\ pump[t] > 0
  /\ pump' = [pump EXCEPT ![t] = 0]
  /\ inPi' = inPi \cup {t}
  /\ run' = IF run = "idle" THEN "starting" ELSE run
  /\ UNCHANGED <<bridgeVars, dispatchVars, postVars, diskVars, fate, used>>

\* Mutant of Refused: the loop tries once more than it may.
RefusedOnceMore(t) ==
  /\ pump[t] > 0 /\ pump[t] <= MAX_SEND_ATTEMPTS
  /\ used["failures"] < SendFailures
  /\ Spend("failures")
  /\ pump' = [pump EXCEPT ![t] = @ + 1]
  /\ UNCHANGED <<bridgeVars, dispatchVars, postVars, diskVars, piVars, fate>>

Refused(t) ==
  /\ pump[t] > 0 /\ pump[t] < MAX_SEND_ATTEMPTS
  /\ used["failures"] < SendFailures
  /\ Spend("failures")
  /\ pump' = [pump EXCEPT ![t] = @ + 1]
  /\ UNCHANGED <<bridgeVars, dispatchVars, postVars, diskVars, piVars, fate>>

\* The last attempt failed: the turn is dropped and settled.
GiveUp(t) ==
  /\ pump[t] > 0 /\ pump[t] >= MAX_SEND_ATTEMPTS
  /\ used["failures"] < SendFailures
  /\ Spend("failures")
  /\ pump' = [pump EXCEPT ![t] = 0]
  /\ activeTurn' = NoTurn
  /\ fate' = Fate({t.id}, "dropped")
  /\ chain' = IF Journaled(t) THEN Append(chain, Op("dropped", t, 0)) ELSE chain
  /\ UNCHANGED <<conn, pendingTurns, preserve, canAbort, lastEnd, welcomed,
                 dispatchVars, postVars, journal, piVars>>

-----------------------------------------------------------------------------
\* Events of pi.
AgentStart ==
  /\ run \in {"starting", "ended"}
  /\ run' = "running"
  /\ canAbort' = TRUE
  /\ UNCHANGED <<conn, pendingTurns, activeTurn, preserve, lastEnd, welcomed,
                 dispatchVars, pumpVars, postVars, diskVars, inPi, fate, used>>

AgentEnd(o) ==
  /\ run = "running"
  /\ run' = "ended"
  /\ canAbort' = FALSE
  /\ lastEnd' = o
  /\ UNCHANGED <<conn, pendingTurns, activeTurn, preserve, welcomed,
                 dispatchVars, pumpVars, postVars, diskVars, inPi, fate, used>>

\* The agent_settled handler up to its first await.
AgentSettled ==
  /\ run = "ended"
  /\ run' = "idle"
  /\ inPi' = {}
  /\ activeTurn' = NoTurn
  /\ lastEnd' = "silent"
  /\ \/ /\ activeTurn = NoTurn
        /\ UNCHANGED <<postVars, fate>>
     \/ /\ activeTurn # NoTurn /\ ~Connected
        /\ fate' = Fate({activeTurn.id}, "unsent")
        /\ UNCHANGED postVars
     \/ /\ activeTurn # NoTurn /\ Connected
        /\ post' = [post EXCEPT ![activeTurn] = "text"]
        /\ postKind' = [postKind EXCEPT ![activeTurn] = lastEnd]
        /\ UNCHANGED fate
  /\ UNCHANGED <<conn, pendingTurns, preserve, canAbort, welcomed,
                 dispatchVars, pumpVars, diskVars, used>>

\* A run the user starts at the terminal.
TuiRun ==
  /\ run = "idle" /\ used["tui"] < TuiRuns
  /\ Spend("tui")
  /\ run' = "starting"
  /\ UNCHANGED <<bridgeVars, dispatchVars, pumpVars, postVars, diskVars, inPi,
                 fate>>

\* The handler of t has replied, or has nothing to reply: settle t if it has
\* an entry, advance the queue otherwise.
Finish(t, f) ==
  /\ fate' = Fate({t.id}, f)
  /\ IF Journaled(t)
       THEN /\ post' = [post EXCEPT ![t] = "settle"]
            /\ chain' = Append(chain, Op("settled", t, 0))
            /\ UNCHANGED <<pendingTurns, activeTurn, pump>>
       ELSE /\ post' = [post EXCEPT ![t] = "none"]
            /\ AdvanceQueue
            /\ UNCHANGED chain

HasReplyDeliverable(o) == o \in {"reply", "attach"}

\* The text of the reply (or stopTyping) is through.  sendAttachments returns
\* at once when the bot is gone by then.
ReplySent(t) ==
  /\ post[t] = "text"
  /\ IF postKind[t] = "attach" /\ HasBot
       THEN /\ post' = [post EXCEPT ![t] = "files"]
            /\ UNCHANGED <<pendingTurns, activeTurn, pump, chain, fate>>
       ELSE Finish(t, CASE postKind[t] = "reply" -> "answered"
                        [] postKind[t] = "attach" -> "cut"
                        [] OTHER -> "silent")
  /\ UNCHANGED <<conn, preserve, canAbort, lastEnd, welcomed, dispatchVars,
                 postKind, journal, piVars, used>>

AttachmentsSent(t) ==
  /\ post[t] = "files"
  /\ Finish(t, "answered")
  /\ UNCHANGED <<conn, preserve, canAbort, lastEnd, welcomed, dispatchVars,
                 postKind, journal, piVars, used>>

\* Mutant of ReplyFailed: what could not be sent is settled all the same.
FailedIsSettled(t) ==
  /\ post[t] \in {"text", "files"}
  /\ fate' = Fate({t.id}, "unsent")
  /\ post' = [post EXCEPT ![t] = "settle"]
  /\ chain' = Append(chain, Op("settled", t, 0))
  /\ UNCHANGED <<bridgeVars, dispatchVars, pumpVars, postKind, journal, piVars,
                 used>>

\* Sending failed.  A turn with something to deliver stays unsettled.
ReplyFailed(t) ==
  /\ post[t] \in {"text", "files"}
  /\ IF HasReplyDeliverable(postKind[t])
       THEN /\ fate' = Fate({t.id}, "unsent")
            /\ post' = [post EXCEPT ![t] = "none"]
            /\ AdvanceQueue
            /\ UNCHANGED chain
       ELSE Finish(t, "silent")
  /\ UNCHANGED <<conn, preserve, canAbort, lastEnd, welcomed, dispatchVars,
                 postKind, journal, piVars, used>>

-----------------------------------------------------------------------------
\* The operation at the head of the promise chain ends, and the code that
\* awaited it goes on to its next await.
HeadIs(op) == chain # << >> /\ Head(chain).op = op

Admit(ok) ==
  /\ HeadIs("admit")
  /\ LET t == Head(chain).turn
     IN /\ journal' = IF ok THEN Append(journal, t.id) ELSE journal
        /\ pendingTurns' = Append(pendingTurns, t)
        /\ pc' = [pc EXCEPT ![t.id] = "typing"]
  /\ chain' = Tail(chain)
  /\ UNCHANGED <<conn, activeTurn, preserve, canAbort, lastEnd, welcomed, kind,
                 hist, carry, pumpVars, postVars, piVars, fate, used>>

AfterSettle(ok) ==
  journal' = IF ok THEN Settled(journal, Head(chain).turn.id) ELSE journal

SettleFolded(ok) ==
  /\ HeadIs("folded")
  /\ AfterSettle(ok)
  /\ LET m == Head(chain).for
     IN SettleOrBuild(m, Tail(hist[m]), kind[m], Tail(chain))
  /\ UNCHANGED <<bridgeVars, kind, carry, pumpVars, postVars, piVars, fate,
                 used>>

SettleDropped(ok) ==
  /\ HeadIs("dropped")
  /\ AfterSettle(ok)
  /\ chain' = Tail(chain)
  /\ UNCHANGED <<bridgeVars, dispatchVars, pumpVars, postVars, piVars, fate,
                 used>>

SettleAnswered(ok) ==
  /\ HeadIs("settled")
  /\ AfterSettle(ok)
  /\ chain' = Tail(chain)
  /\ post' = [post EXCEPT ![Head(chain).turn] = "none"]
  /\ AdvanceQueue
  /\ UNCHANGED <<conn, preserve, canAbort, lastEnd, welcomed, dispatchVars,
                 postKind, piVars, fate, used>>

\* Mutant of Replayed: the last entry of the file is missed.
ReplayedButLast(j) ==
  [i \in 1..(Len(j) - 1) |-> [id |-> j[i], gen |-> used["logins"]]]

\* replayJournalTurns: read, queue every unsettled turn, ask for compaction.
Replayed(j) == [i \in 1..Len(j) |-> [id |-> j[i], gen |-> used["logins"]]]

Replay(ok) ==
  /\ HeadIs("replay")
  /\ chain' = Append(Tail(chain), Op("compact", NoTurn, 0))
  /\ IF ok
       THEN /\ pendingTurns' = pendingTurns \o Replayed(journal)
            /\ fate' = [m \in Ids |->
                          IF m \in RangeOf(journal) /\ fate[m] = "unsent"
                            THEN "live" ELSE fate[m]]
       ELSE UNCHANGED <<pendingTurns, fate>>
  /\ UNCHANGED <<conn, activeTurn, preserve, canAbort, lastEnd, welcomed,
                 dispatchVars, pumpVars, postVars, journal, piVars, used>>

\* Mutant of Compact: the replayed turns are queued and not pumped.
CompactOnly ==
  /\ HeadIs("compact")
  /\ chain' = Tail(chain)
  /\ UNCHANGED <<bridgeVars, dispatchVars, pumpVars, postVars, journal, piVars,
                 fate, used>>

\* Compaction keeps the unsettled entries: journal does not change.
Compact ==
  /\ HeadIs("compact")
  /\ chain' = Tail(chain)
  /\ PumpIfIdle(pendingTurns)
  /\ UNCHANGED <<conn, preserve, canAbort, lastEnd, welcomed, dispatchVars,
                 postVars, journal, piVars, fate, used>>

Discard(ok) ==
  /\ HeadIs("discard")
  /\ chain' = Tail(chain)
  /\ journal' = IF ok THEN << >> ELSE journal
  /\ UNCHANGED <<bridgeVars, dispatchVars, pumpVars, postVars, piVars, fate,
                 used>>

-----------------------------------------------------------------------------
\* Mutant of Login: the journal is replayed after the first login only.
LoginReplaysOnce ==
  /\ conn \in {"down", "dead"} /\ used["logins"] < Logins
  /\ Spend("logins")
  /\ conn' = "up"
  /\ welcomed' = FALSE
  /\ chain' = IF used["logins"] = 0 THEN Append(chain, Op("replay", NoTurn, 0))
                                    ELSE chain
  /\ UNCHANGED <<pendingTurns, activeTurn, preserve, canAbort, lastEnd,
                 dispatchVars, pumpVars, postVars, journal, piVars, fate>>

\* startWechat succeeds, from bot = null or after bot.start() had rejected.
Login ==
  /\ conn \in {"down", "dead"} /\ used["logins"] < Logins
  /\ Spend("logins")
  /\ conn' = "up"
  /\ welcomed' = FALSE
  /\ chain' = Append(chain, Op("replay", NoTurn, 0))
  /\ UNCHANGED <<pendingTurns, activeTurn, preserve, canAbort, lastEnd,
                 dispatchVars, pumpVars, postVars, journal, piVars, fate>>

\* bot.login() fails: the bot that could not start before is given up.
LoginFailed ==
  /\ conn = "dead"
  /\ conn' = "down"
  /\ UNCHANGED <<pendingTurns, activeTurn, preserve, canAbort, lastEnd,
                 welcomed, dispatchVars, pumpVars, postVars, diskVars, piVars,
                 fate, used>>

\* startWechat's handler for a rejected bot.start(): the queue stays.
StartFailed ==
  /\ conn = "up" /\ used["startFailures"] < StartFailures
  /\ Spend("startFailures")
  /\ conn' = "dead"
  /\ UNCHANGED <<pendingTurns, activeTurn, preserve, canAbort, lastEnd,
                 welcomed, dispatchVars, pumpVars, postVars, diskVars, piVars,
                 fate>>

\* shutdownBot up to and after its await of gracefulStop.
Stop ==
  /\ conn = "up" /\ used["disconnects"] < Disconnects
  /\ Spend("disconnects")
  /\ conn' = "stopping"
  /\ UNCHANGED <<pendingTurns, activeTurn, preserve, canAbort, lastEnd,
                 welcomed, dispatchVars, pumpVars, postVars, diskVars, piVars,
                 fate>>

\* Mutant of Stopped: whoever disconnects gives up the unsettled turns as well.
StoppedDiscards ==
  /\ conn = "stopping"
  /\ conn' = "down"
  /\ pendingTurns' = << >>
  /\ activeTurn' = NoTurn
  /\ preserve' = FALSE
  /\ lastEnd' = "silent"
  /\ canAbort' = FALSE
  /\ chain' = Append(chain, Op("discard", NoTurn, 0))
  /\ UNCHANGED <<welcomed, dispatchVars, pumpVars, postVars, journal, piVars,
                 fate, used>>

Stopped ==
  /\ conn = "stopping"
  /\ conn' = "down"
  /\ pendingTurns' = << >>
  /\ activeTurn' = NoTurn
  /\ preserve' = FALSE
  /\ lastEnd' = "silent"
  /\ canAbort' = FALSE
  /\ UNCHANGED <<welcomed, dispatchVars, pumpVars, postVars, diskVars, piVars,
                 fate, used>>

\* session:expired: `void journal.discard()`.
SessionExpired ==
  /\ conn = "up" /\ used["expiries"] < Expiries
  /\ Spend("expiries")
  /\ chain' = Append(chain, Op("discard", NoTurn, 0))
  /\ UNCHANGED <<bridgeVars, dispatchVars, pumpVars, postVars, journal, piVars,
                 fate>>

\* The process dies, pi with it: the journal is what is left.
Crash ==
  /\ used["crashes"] < Crashes
  /\ Spend("crashes")
  /\ conn' = "down"
  /\ pendingTurns' = << >>
  /\ activeTurn' = NoTurn
  /\ preserve' = FALSE
  /\ canAbort' = FALSE
  /\ lastEnd' = "silent"
  /\ welcomed' = FALSE
  /\ pc' = [m \in Ids |-> IF kind[m] = "none" THEN "none" ELSE "done"]
  /\ hist' = [m \in Ids |-> << >>]
  /\ pump' = [t \in Turn |-> 0]
  /\ post' = [t \in Turn |-> "none"]
  /\ chain' = << >>
  /\ run' = "idle"
  /\ inPi' = {}
  /\ UNCHANGED <<kind, carry, postKind, journal, fate>>

-----------------------------------------------------------------------------
DispatchStep ==
  \E m \in Ids :
    \/ Welcomed(m)
    \/ SkipFolded(m)
    \/ \E ok \in BOOLEAN : Built(m, ok)
    \/ TypingDone(m)

PumpStep == \E t \in Turn : Accepted(t) \/ Refused(t) \/ GiveUp(t)

ReplyStep ==
  \E t \in Turn : ReplySent(t) \/ AttachmentsSent(t) \/ ReplyFailed(t)

DiskStep ==
  \/ \E ok \in DiskResults :
       \/ Admit(ok)
       \/ SettleFolded(ok)
       \/ SettleDropped(ok)
       \/ SettleAnswered(ok)
       \/ Replay(ok)
       \/ Discard(ok)
  \/ Compact

PiStep == AgentStart \/ (\E o \in Outcomes : AgentEnd(o)) \/ AgentSettled

Environment ==
  \/ \E m \in Ids, k \in Kinds : Arrive(m, k)
  \/ TuiRun
  \/ Login
  \/ LoginFailed
  \/ StartFailed
  \/ Stop
  \/ Stopped
  \/ SessionExpired
  \/ Crash

Next == DispatchStep \/ PumpStep \/ ReplyStep \/ DiskStep \/ PiStep
          \/ Environment

Spec == Init /\ [][Next]_vars

(***************************************************************************)
(* The event loop runs every continuation whose I/O or timer has ended,    *)
(* and I/O ends (requests have timeouts).  pi answers each prompt: a run   *)
(* starts, ends, and after finitely many automatic retries settles.  Who   *)
(* lost the connection logs in again.                                      *)
(***************************************************************************)
LoopFairness ==
  /\ \A m \in Ids : /\ WF_vars(Welcomed(m))
                    /\ WF_vars(SkipFolded(m))
                    /\ WF_vars(\E ok \in BOOLEAN : Built(m, ok))
                    /\ WF_vars(TypingDone(m))
  /\ \A t \in Turn : /\ WF_vars(Accepted(t) \/ Refused(t) \/ GiveUp(t))
                     /\ WF_vars(ReplySent(t) \/ AttachmentsSent(t)
                                  \/ ReplyFailed(t))
  /\ WF_vars(DiskStep)
  /\ WF_vars(PiStep)
  /\ SF_vars(AgentSettled)
  /\ WF_vars(Stopped)

Fairness == LoopFairness /\ WF_vars(Login)
FairSpec == Spec /\ Fairness

-----------------------------------------------------------------------------
(***************************************************************************)
(* Properties.                                                             *)
(***************************************************************************)
\* Every variable of wechatBridge, of the journal and of pi has its type; the
\* retry counter of pumpTurn never passes MAX_SEND_ATTEMPTS.
TypeOK ==
  /\ conn \in {"down", "up", "dead", "stopping"}
  /\ pendingTurns \in Seq(Turn)
  /\ activeTurn \in Turn \cup {NoTurn}
  /\ preserve \in BOOLEAN
  /\ canAbort \in BOOLEAN
  /\ lastEnd \in AllOutcomes
  /\ welcomed \in BOOLEAN
  /\ kind \in [Ids -> AllKinds \cup {"none"}]
  /\ pc \in [Ids -> DispatchPoints]
  /\ hist \in [Ids -> Seq(Turn)]
  /\ carry \in [Ids -> SUBSET Ids]
  /\ pump \in [Turn -> 0..MAX_SEND_ATTEMPTS]
  /\ post \in [Turn -> ReplyPoints]
  /\ postKind \in [Turn -> AllOutcomes]
  /\ journal \in Seq(Ids)
  /\ chain \in Seq(ChainOp)
  /\ run \in {"idle", "starting", "running", "ended"}
  /\ inPi \subseteq Turn
  /\ fate \in [Ids -> Over \cup {"live", "unsent", "lost"}]
  /\ used \in [Budgets -> Nat]

-----------------------------------------------------------------------------
\* Turns the extension or pi still works on.
Held(t) == \/ t \in RangeOf(pendingTurns) \cup {activeTurn} \cup inPi
           \/ pump[t] > 0
           \/ post[t] \in {"text", "files"}

\* The turn in pi's run is the active turn, so agent_settled replies to the
\* message the run was about.
InFlightIsActive == inPi \subseteq {activeTurn}

\* "Keep exactly one turn in flight": two prompts drained into one run would
\* get a single reply.
OneInFlight == Cardinality(inPi) <= 1

\* A crash can never lose a text turn that was queued: as long as the bridge
\* or pi works on it, its entry in the journal is unsettled, so the next login
\* replays it.
Durable == \A t \in Turn : Held(t) /\ Journaled(t) => t.id \in RangeOf(journal)

\* Conversely an unsettled entry is not forgotten: once the replay that
\* follows a login is done, the bridge works on the turn, unless its reply
\* could not be sent.
NotForgotten ==
  conn = "up" /\ (\A i \in DOMAIN chain : chain[i].op # "replay")
    => \A m \in RangeOf(journal) :
         fate[m] = "live" => \E t \in Turn : t.id = m /\ Held(t)

\* Text turns wait in the order of their admission, also after a crash and a
\* replay: the active turn and the queue follow the order of the journal.
Line == IF activeTurn = NoTurn THEN pendingTurns
                               ELSE <<activeTurn>> \o pendingTurns
TextFifo ==
  \A i, j \in DOMAIN Line :
    i < j /\ Journaled(Line[i]) /\ Journaled(Line[j])
      => \A k, l \in DOMAIN journal :
           journal[k] = Line[i].id /\ journal[l] = Line[j].id => k < l

\* The journal loses an entry only when the lifecycle of the turn has ended
\* (or the expiry of the session discards everything): never because a reply
\* failed, the bridge disconnected or the process crashed.
SettledOnlyWhenOver ==
  [][\A m \in RangeOf(journal) :
       m \notin RangeOf(journal') => fate[m] \in Over \/ HeadIs("discard")]_vars

\* The bridge implements TurnPromise: what it owes is what the journal would
\* replay, and only a discarding that an expiry has asked for empties it.
Discarding == \E o \in RangeOf(chain) : o.op = "discard"
Promise == INSTANCE TurnPromise WITH
  owed <- RangeOf(journal),
  over <- {m \in Ids : fate[m] \in Over},
  expiries <- used["expiries"],
  expired <- Discarding
ImplementsPromise == Promise!Spec

\* adr/0001: after a stop the queued turns are not processed one by one, they
\* are folded into the next message.
StopHoldsBacklog ==
  [][preserve /\ activeTurn' # activeTurn => activeTurn' = NoTurn]_vars

\* adr/0001: the agent sees the folded messages with the next one.
HistoryReachesPi ==
  \A m \in Ids : fate[m] = "folded" =>
    \E n \in Ids : m \in carry[n] /\ pc[n] # "failed"

\* "no message lost while pi is busy": a queued turn is taken from the queue
\* sooner or later, unless a stop keeps the backlog for the next message.
QueueAdvances ==
  \A t \in Turn : t \in RangeOf(pendingTurns)
                   ~> t \notin RangeOf(pendingTurns) \/ preserve

\* At least once: an admitted text turn is answered, dropped with a notice or
\* folded in the end, or its reply fails, across crashes too.
AdmittedEnds ==
  \A m \in Ids : m \in RangeOf(journal) ~> fate[m] # "live" \/ preserve

=============================================================================
