# A TLA+ model of wechatbot

wechatbot connects a personal WeChat account to programs: four SDKs (Node,
Python, Go, Rust) speak the same HTTP protocol (QR login, long polling, replies
that carry a context token), and `pi-agent/` is an extension of the pi coding
agent that turns WeChat messages into turns of the agent and sends its answers
back. This directory holds TLA+ modules translated from that code, TLC
configurations that check them on small instances, and proofs checked by TLAPS.

## 1. The system

### 1.1 pi-agent: the bridge (`pi-agent/src/index.ts`, `bridge-state.ts`)

- State: the bot and `connected`; `pendingTurns` and `activeTurn`;
  `preserveQueuedTurnsAsHistory` (set by *stop*); `lastEndSummary`; `currentAbort`;
  `welcomedUsers`; a slot for a pending `/new`; an inactivity timer.
- Operations: `dispatchMessage` (one call per inbound message, up to five
  awaits), `pumpTurn` (hands one turn to pi, four attempts with backoff),
  handlers for `agent_start`, `agent_end`, `agent_settled` of pi, `startWechat`
  (menu, login, replay), `shutdownBot`, the bot's `session:expired`.
- Interaction: the Node SDK calls `dispatchMessage` and does not wait for it; pi
  emits events; the journal is awaited in the middle of handlers; several calls
  of the same handler are suspended at the same time.
- Hard: everything between two awaits is atomic and nothing else is. A turn must
  be answered once it was admitted, survive a crash, never share a run of pi
  with another, keep its place in the queue, and never be settled early.

### 1.2 pi-agent: the journal (`journal.ts`)

- State: one file of JSON lines; a promise chain per instance.
- Operations: `admit`, `settle`, `replayUnsettled`, `compact`, `discard`.
- Hard: crashes and failing writes inside each operation, lines without newline,
  two chains on one file after `/new`. It is correct when a confirmed record is
  readable until it is settled, in order.

### 1.3 pi-agent: sessions, settings, panel, notices

- `/wechat` and `/new` (`index.ts`, `confirm-gate.ts`). pi makes an instance of the
  extension per session; `restartAfterReplace`, `pendingAck` and
  `disarmConfirmGate` belong to the module and outlive an instance. A WeChat `/new`
  puts a request into a slot, sends an internal command to get a context that can
  replace the session, and the next instance reconnects and acknowledges. Hard:
  logins and stops that overlap each other or a replacement, a request that is too
  old, a replacement that is cancelled. It is correct when no exemption of the
  confirmation gate is forgotten, and each `/new` is answered once, by the
  instance made for it.
- Settings (`settings.ts`, `config-store.ts`, `authorize.ts`): `userConfig` in memory,
  a copy in the panel, `wechatbot.json`; the first sender is paired and saved. Hard:
  nobody awaits the saves or learns that one failed, and the panel saves a copy that
  may be out of date.
- The panel (`panel.ts`): scope, section, cursor, scroll window, filter. Hard: they
  change independently between two renders.
- The inactivity notice (`timeout.ts`): a timer per `agent_start`. Hard: timers that
  are due race with the events that reset them.
- Without a state of their own: `commands.ts`, `help.ts`, `inbound.ts`, `metrics.ts`.

### 1.4 Node SDK (`nodejs/src`)

- Client and poll loop (`core/client.ts`, `messaging/poller.ts`, `storage/file.ts`).
  State: `runPromise`, credentials, cursor, what is stored. Operations: `start`,
  `stop`, the loop, `session:expired` and the re-login it starts. Hard: they run
  interleaved, nothing awaits the writes of the cursor, a session may expire at
  any time.
- QR login (`auth/authenticator.ts`). State: the number of QR codes used, the pairing
  code entered, the host to poll. Hard: a code expires, is moved to another host
  or blocked, and polls are lost and repeated, in any order.
- Message pipeline (`core/client.ts`, `messaging/context.ts`, `messaging/typing.ts`,
  `middleware/`). State: the batches being worked on, the context token in memory
  and in storage with its dirty flag, the cached typing ticket. Hard: the emitter does
  not wait, so batches overlap each other, replies, flushes and a re-login; a handler
  that throws ends the listener of its batch.
- Sending (`core/client.ts`, `messaging/sender.ts`, `media/uploader.ts`,
  `transport/http.ts`). State: the steps of a call and the tries of a step. Hard: a
  request that timed out may have been processed, or may be processed later.

### 1.5 Go, Python and Rust SDKs

The same protocol with other concurrency: goroutines around shared maps
(`golang/bot.go`), handlers awaited inside the poll loop (`python/wechatbot/client.py`),
async tasks around locks (`rust/src/bot.rs`).

## 2. Modules

| module | models | role |
| --- | --- | --- |
| `Bridge` | `pi-agent/src/index.ts`, with the journal as a sequence of unsettled ids | state machine, properties |
| `TurnPromise` | what adr/0011 promises about text messages | abstract specification |
| `MCBridge` | | instances of `Bridge` |
| `BridgeProofs` | | theorems about `Bridge`: types, what a settling means |
| `TurnProofs` | | theorems about `Bridge`: `TurnPromise` is implemented, order, durability |
| `Journal` | `pi-agent/src/journal.ts`, line by line | state machine, properties |
| `JournalProofs` | | theorems about `Journal` |
| `MCJournal` | | instances of `Journal` |
| `NodeClient` | `core/client.ts`, `messaging/poller.ts`, `auth/authenticator.ts`, `storage/file.ts` of the Node SDK | state machine, properties |
| `MCNodeClient` | | instances of `NodeClient` |
| `NodeClientProofs` | | theorems about `NodeClient` |
| `QrLogin` | `auth/authenticator.ts`: the login `NodeClient` takes as one step | state machine, liveness |
| `Delivery` | a call of `reply()` or `send()`, down to its HTTP requests | state machine, liveness |
| `ChunkText` | `messaging/sender.ts`, `chunkText` | algorithm |
| `Pipeline` | what the client does with polled messages; `ContextStore` | state machine, properties |
| `Typing` | `messaging/typing.ts` | state machine, properties |
| `Session` | `/wechat`, `/new`, `shutdownBot`, `session_start`, `confirm-gate.ts` | state machine, properties |
| `Settings` | `userConfig` in memory, panel and file | state machine, properties |
| `Panel` | `panel.ts` | state machine, properties |
| `Watch` | `timeout.ts` and the events of pi around it | state machine, properties |
| `SessionProofs`, `SettingsProofs` | | theorems about these two |
| `MCLive` | | `Bridge`, `Delivery` and `QrLogin` side by side |
| `LiveProofs` | | theorems about `Delivery` and `QrLogin` |
| `MCParts` | | `Journal` and the other parts side by side |
| `PartsProofs` | | theorems about `Settings` and `Session` as parts, `Watch`, `Pipeline`, `Typing`, `Panel`, `ChunkText` |

Operators whose comment begins with "Mutant of" are not part of the models: each
is the operator it names with a plausible mistake, kept to see that a property
notices it.

`MCLive` and `MCParts` explore modules that share no state side by side: the
initial state chooses one of them (`which`), only that one moves, and the others
stay in their initial states. Their state space is the sum of those of the
modules, not the product, and each property is that of its module. Where such
modules do share state in the code, one has the other as an environment:
`Bridge` has a login that succeeds or fails, `Session` has a replay that ends,
`Watch` has turns that come and go.

### 2.1 Bridge

The extension is one JavaScript thread. A step is what the code does between two
awaits; a suspended call is a program counter.

| code | state |
| --- | --- |
| `bot`, `connected` | `conn`: `down` (`bot` is null), `up`, `stopping` (in `gracefulStop`), `dead` (`bot.start()` rejected: `bot` set, `connected` false) |
| a call of `dispatchMessage` | `pc[m]`, `hist[m]`, `carry[m]`: its await, the folded turns left to settle, those in its prompt |
| a call of `pumpTurn` | `pump[t]`: the attempt it is at |
| the `agent_settled` handler | `post[t]`, `postKind[t]`: sending the text, the attachments, settling |
| the journal's promise chain | `chain`, one operation per element; what the caller does when it resolves is part of the action that takes it off |
| the file | `journal`: what `replayUnsettledFromLines` would return |
| pi | `run`, `inPi`: the run in progress and the prompts in it |

A turn is a message number and the login that made its object, because after a
Reconnect an old and a replayed object of one turn coexist. `fate` is a history
variable: how the lifecycle of a message ended.

`Bridge` treats an operation on the file as one step, and `compact` as a step
that changes nothing. `Journal` is where these assumptions are examined: there
each operation has its reads and writes, lines may be torn, and a compaction can
be cut off between truncation and write.

`TurnPromise` says what `Bridge` promises: a message is owed from its admission
(`Accept`) until its lifecycle has ended (`End`, then `Forget`). The one thing that takes
an owed message away earlier is `Cancel`, and only after an `Expire` that has not been
carried out yet (`expired`): in the code, `journal.discard()` is called at
`session:expired` without being awaited, and is carried out when the chain gets to it.
The refinement mapping counts expiries by the budget `used["expiries"]`, and takes
`expired` for "a discarding is in the chain" (`Discarding`). A stop, a login or a crash that
emptied the journal would be a step `TurnPromise` does not have.

### 2.2 Journal

`lines` is the file, a line being a record or something that does not parse;
`torn` says that the last line lacks its newline, so that the next append runs
into it. `chain[i]` is the promise chain of instance `i` of the extension:
after `/new` two of them use the file. `mem` holds the turns an instance knows
and may settle. `owed` and `done` record what `admit` and `settle` answered.

### 2.3 NodeClient

`pc[s]` is where call `s` of `start()` is: loading state (`load`), in
`notifyStart` (`notify`), waiting for `getUpdates` (`poll`), pausing after an error
(`delay`) or an expired session (`expired`), in `notifyStop` (`leave`). `login[l]` is
where call `l` of `login()` is. Sessions stand for their tokens and are numbered in
the order of login; a cursor is a session and a position. `credsOps` and
`cursorOps` are storage operations under way; nobody awaits the writes of the
cursor, so they take effect in any order. The server is external: it rejects any
token but that of the valid session.

Two things that can go wrong are excluded from the properties and named by a
history variable instead, because what follows from them depends on code outside
the repository or is visible from the first step: `foreign` (the server was
sent the cursor of another session, whose meaning is the server's), `overlap` (two
calls of `start()` were both loading: `runPromise` is set only after two awaits, so
both go on) and `raced` (two re-logins were saving at the same time).

### 2.4 QrLogin

`where` is what the login waits for. Variables of the code's inner loop
(`pendingVerifyCode`, `currentPollBaseUrl`) carry the number of the QR code they
were set for, so that a use for another one is visible. The server and the phone are
external: `qr`, `moved` and `wrong` are the state of the QR code there. A poll that
is lost may have been processed all the same. What the user enters is the right code, a
wrong one, or nothing (`Codes`): an empty code counts as pending, but is not sent
(`Submitted`), so the prompt that follows it is a retry without a rejection.

### 2.5 Delivery and ChunkText

`Plan(content)` is the sequence of requests that `sendContent` leads to: downloads,
upload requests, transfers to the CDN, and messages. `at` and `tries` say how far a
call is. A request that times out has been processed, will be processed later (it is
in `late`), or never. The server is assumed to show a `client_id` once (`Accept`):
`received` is the set of those it has accepted, `shown` what the user has seen.

`ChunkText` runs over every text of the letters, spaces, line breaks and paragraph
breaks up to a length; `remaining` and `chunks` are the variables of the code.
A text of length 7 with limit 5 has windows with a break at every position,
before and after the 30 % mark.

### 2.6 Pipeline and Typing

One user. Messages are numbered as they are polled, and stand for their
context tokens; any of them may have none. `todo[b]` and `phase[b]` are the listener
that works on batch `b`; `ops` are storage operations under way, each of which may
fail, and what their caller does next is part of the step that ends them. `valid` is the
first message of the current session. What throws out of the listener, be it the parser,
a middleware, or a handler before it returns a promise, ends it (`Abandon`): the rest of
the batch is `lost`. A handler whose promise is rejected ends nothing (`HandlersDone`).
`Blank` is the token that `reply()` to a message without one leaves. The history
variable `touched` names what `CleanIsSaved` excepts: the token was set, or an
operation began, during another one, or a deletion failed; it is reset when a token is set
with nothing under way.

`Typing` has the cached ticket and the requests for one, each with the session it
was asked for in. Of the pipeline it keeps whether a token is known, and the steps of a
re-login. `overtaken` says that the cached ticket came in an answer to a request of
a session that had ended.

### 2.7 Session

`call[l]` is where call `l` of `startWechat` is, `by[l]` its instance, `auto[l]` says that
`session_start` made it. `switch` is where the replacement of a session is. `cause[i]`
is the `/new` that instance `i` was made for, `news[m]` what has become of a `/new`.
`arms` is what the gate counts, `disarm` what the module can give back. An `arm()` or
`disarm()` of the gate may raise an error, and may have counted all the same (`MayStay`);
what it leaves behind is in `stuck`, for the code has dropped its reference by
then. `raced` is set when a call, a stop or a `/new` begins during another one.

### 2.8 Settings, Panel, Watch

`Settings`: a write is in `writes` from the call on, and truncates the file before
it is done; a load is two steps, `got` being what it has read. `shared` are the
fields that the panel's object has in common with the runtime's: the panel is
given that object, so its changes are in effect before they are saved, until a
pairing makes a new object. A save may fail at any point, before the truncation or
after (`WriteFails`), and a load fails when the user's file or the project's cannot be
read; of the project's file no more than that is modelled. Four history variables
name when memory and file part in the code: `raced` (accesses to the file
overlapped), `saved` (the last save did not fail), `missed` (a load came back
without what a save had failed to write, or a session started without one), `stale` (the
load when the panel was closed failed). `saved` and `stale` recover with the next save
and load.

`Panel`: names and filters are sequences of letters; the rows of the list are the
positions in `Items` of those that pass the filter; `fresh` says that nothing was
pressed since the last render. Each opening makes a new panel, at the first tab, section
and row. `ChangesSelected` says what is under the cursor in its own words (`OnCursor`: as
many listed items come before it as `selectedIndex` says), not by the operator that
`toggle` uses.

`Watch`: time goes by in ticks, a timer that is due may fire after further events.
Every notice is recorded with the timer that sent it, the silence before it and
the run it quotes.

## 3. What the runs show

All runs are exhaustive. Every bound is a CONSTANT with the comment "bound".

| run | question | bounds | result |
| --- | --- | --- | --- |
| `bridge_lifecycle` | reply to the right message, no queued text turn lost by a crash, order, `TurnPromise` implemented | 3 messages (text, skill command, stop), 2 attempts per prompt, 2 refusals, 2 logins, 1 crash | holds |
| `bridge_relogin` | a disconnect, a rejected `bot.start()`, a failed login, an expiry at any moment: nothing is forgotten or settled early, and only an expiry empties the journal (`TurnPromise`) | 2 text messages with attachments, 2 logins | holds |
| `bridge_faults` | failing disk and downloads, stop with a backlog, runs from the terminal | 3 messages (text, media, stop), every journal operation may fail | holds |
| `bridge_live` | what must end: queued and admitted turns; a call of `reply()` or `send()`, with what the user has seen of it; a login, with what its QR codes are polled with | `Bridge`: 2 messages, 2 refusals of 3 attempts, 1 crash, 2 logins. `Delivery`: 2 chunks, 1 HTTP retry, 3 transfers. `QrLogin`: 3 QR codes, 2 wrong pairing codes, 1 HTTP retry. Fairness | holds |
| `bridge_stranded` | the same when the attempts are used up | 2 text messages, 2 attempts, 2 refusals, fairness | violated |
| `bridge_reconnect` | one turn in flight over a Reconnect | 1 message, 2 logins, 1 disconnect | violated |
| `bridge_stop` | after stop the backlog waits for the next message | 3 messages (text, stop) | violated |
| `bridge_history` | folded messages reach pi | 4 messages (text, stop, media) | violated |
| `parts` | the parts, each through all its interleavings (section 3.1) | section 3.1 | holds |
| `journal_compact` | nothing confirmed is lost while the process lives | a compaction whose write fails | violated |
| `nodeclient_poll` | one loop, no message skipped, stored credentials current | 2 sessions, 1 message each, 2 starts, 1 stop, 3 logins, 1 error, 1 expiry, 1 crash | holds |
| `nodeclient_relogin` | the loop uses the new token after a re-login | 3 sessions, no errors, no crash | violated |

Why the bounds are enough. The bridge's defects need at most one turn in
flight, one behind it and one call of `dispatchMessage` suspended in an await: three
messages give all of that, and with two logins a replayed object meets the one it
copies. A crash interrupts every await; a second one meets the same states, as
nothing but the file survives. `MAX_SEND_ATTEMPTS` is 4 in the code and 1 to 3
here: the loop behaves alike for every attempt but the last. Journal defects
need two records that interact: a torn one and the one behind it, or two whose
order is compared. In the Node client an un-awaited write of the cursor has to
survive the end of its session, so two sessions are needed, and a third for the
loop that never finishes its re-login; overlap of re-logins needs the third
login.

`InFlightIsActive` is checked without terminal runs and without a disconnect:
a Reconnect during a run breaks it (run `bridge_reconnect`), and a run that the
user starts at the terminal may be settled for a turn sent meanwhile. `bridge_live`
keeps the refusals below the number of attempts, because `bridge_stranded` shows
that the queue stops otherwise. `maxRetries` is 2 in the code and 1 here: there is
a first try, a retry, and a last failure.

### 3.1 The run `parts`

| module | bounds | properties |
| --- | --- | --- |
| `Journal` | 2 turns, 2 instances, 1 replay, 1 crash, 1 torn line, 1 failing compaction, 1 expiry | `ConfirmedKept`, `LossBounded`, `OrderKept`: what failing reads and writes, torn lines, crashes and compaction may cost |
| `Pipeline` | 2 batches of up to 2 messages, 3 messages, 1 expiry | `Accounted`: no message falls out of the loop but by a throw in its batch, and order is kept; `CanSend`: any message with a token makes the user reachable; `CleanIsSaved`: what is not dirty is stored |
| `Typing` | 2 requests at once, 2 re-logins | `TicketServes`: no ticket of an old session |
| `ChunkText` | texts up to 7 characters, limit 5 | `ChunksAreText`: the chunks are the text, none too long; `CutsAtBreaks`: no line or word is cut without need |
| `Panel` | 4 items, 2 visible, filters of 2 letters, 2 presets | `SelectionShown`: the cursor is on a row of the list, and that row in the window; `ChangesSelected`: a key changes only the item under it |
| `Settings` | 2 senders, 1 toggle, 1 opening, 2 sessions, any save or load may fail | `PairedOnce`: one sender for good; `RuntimeIsFile`: memory and file agree |
| `Session` | 3 sessions, 2 calls of `startWechat`, 2 `/new`, 1 failure besides those of logins and of `disarm()` | `NoneLeaks`, `ArmedIsConnected`: the exemption is given back; `ForItsNew`: only the `/new` an instance was made for is acknowledged; `NewIsAnswered`: none is swallowed |
| `Watch` | 2 timeouts, 2 `agent_start`, 5 ticks | `NoticeIsDue`: a notice only after silence, once per `agent_start`, about this run |

Why these are enough. Two batches overlap; a third message is the second of a batch
whose first is being handled, and can be lost when that one throws. A ticket of the
session before last behaves like one of the last. Two writes race, a third adds nothing to what is in
the file. In `Session` the first two sessions are the replaced and the replacing one,
and the third the one that must not inherit flags. With two visible rows of
three or more items every move of the window occurs. A timer of length 2 in 5
ticks has time to be reset, to fire, and to be followed by another.

### 3.2 Where code and documentation differ

The violated properties are quotations; PROJECT.json names code and quotation.

- *bridge_stranded*: the last failed attempt settles the turn and returns without
  pumping the next one. Nothing is in flight, so no `agent_settled` will come.
- *bridge_reconnect*: Reconnect during a run clears `activeTurn`; the replay sends
  the same turn again into the run that is still on.
- *bridge_stop*: a call that waits for `sendTyping` when stop comes pumps the head
  of the backlog without looking at `preserveQueuedTurnsAsHistory`.
- *bridge_history*: the backlog is taken and settled before the download of the
  media it is folded into; if that fails the backlog is gone.
- *journal_compact*: `compact` overwrites in place, so a failing write loses the
  records the comment says are kept.
- *nodeclient_relogin*: the poll loop keeps the token it was started with; each poll
  starts another forced login.

### 3.3 Divergences that no run is spent on

The models below contain the behaviour; the properties except it, each by the
history variable named in section 2, or do not speak of it.

- `filterMiddleware` and `typeFilterMiddleware` do not set `handled`, and
  `core/client.ts:606` looks at nothing else: what they filter out reaches the
  handlers (verdict `skipped` of `Pipeline`), although `middleware/builtins.ts:18`
  says it is skipped.
- A middleware that throws drops the rest of its batch, and the flush. So does a
  handler that throws before it returns a promise: `messageHandlers.map` runs outside
  `Promise.allSettled` (`core/client.ts:644`), and handlers registered after it are not
  called.
- An empty pairing code is not submitted (`protocol/api.ts:68`) but makes the next
  prompt a retry (`auth/authenticator.ts:155`), whose comment says that a code was
  rejected.
- `reply()` to a message without a token puts an empty one over the user's
  (`core/client.ts:272`).
- `ContextStore.flush` resets `dirty` after its await: a token set meanwhile is not
  written by the next flush. `reply()` to an old message puts its token over a newer one.
- `getTicket` may cache a ticket of the old session after `clearCache`.
- A pairing is lost when a load read the file before it was saved, or when two
  saves overlap, or when its save fails, which is only logged
  (`pi-agent/src/index.ts:913`): after the next load another sender is paired, against
  adr/0010:5. `config-store.ts:31` loads both files together, so an unreadable project
  file at the start of a session leaves the default configuration of the user.
- `disarm()` is called after the reference to it is gone (`pi-agent/src/index.ts:1388`), and
  `armConfirmGate` takes an error for "not armed" (`confirm-gate.ts:86`): if the gate has
  counted, the exemption stays.
- `wechatbot.json` cut off by a save makes `reloadConfig` throw,
  and in `session_start` that leaves `restartAfterReplace` and `pendingAck` set for
  the next session.
- A `/wechat` login that ends during `shutdownBot` leaves the exemption armed and the
  bot disconnected; one that was begun in a replaced instance gives back the
  exemption of the new one.
- A `/new` accepted while a session is being replaced overwrites `pendingAck`; an
  acknowledgement is swallowed when the login of the new instance fails.
- adr/0006 says one notice per turn; every `agent_start`, of which a turn may have
  several, arms a new timer. `shutdownBot` leaves the timer of a run in place.
- In filter mode a space toggles the selected item instead of being typed.
- A hard cut of `chunkText` may split a surrogate pair; the comment at
  `messaging/sender.ts:26` says 2000 characters, the constant is 4000; captions of images are
  not cut at all.
- The bridge passes no `onVerifyCode`, so the SDK asks for a pairing code on the
  standard input of the terminal interface. A redirect without a host polls the
  old one for ever; a repeated poll may count a wrong pairing code twice.

### 3.4 Fairness

`FairSpec` of `Bridge` assumes weak fairness of every continuation: a promise whose
I/O has ended is run by the event loop, and I/O ends because requests and
downloads have timeouts. It assumes that pi starts and ends each run, and settles
it after finitely many automatic retries (strong fairness of `AgentSettled`, since
`agent_start` may come again after `agent_end`), and that someone logs in again
after a crash. Nothing is assumed of arriving messages, refusals, crashes or stop.

`Delivery` assumes that a request or transfer under way is answered, refused or timed
out: each has an `AbortSignal.timeout`. Nothing is assumed about which of the three.

`QrLogin` assumes the same of polls, and three things about what is outside the
program, without which a login may go on for ever: polls are not lost every time,
a redirect names the new host in the end, and a QR code does not stay valid for ever
(strong fairness of `Expire`, which is enabled only between scans and prompts). The
user enters a code when asked for one, though not the right one, or the prompt fails.

## 4. What is proved

TLAPS checks these for every value of the constants, under the assumptions named
in the modules (the bounds are numbers, there is at least one attempt, kinds and
outcomes are those of the code) and the hypotheses of the last column.

| theorem | statement | hypotheses |
| --- | --- | --- |
| `BridgeProofs!TypeCorrect` | `Spec => []TypeOK` | |
| `BridgeProofs!SettlesOnlyWhenOver` | `Spec => SettledOnlyWhenOver`, an action property | |
| `TurnProofs!KeepsPromise` | `Spec => ImplementsPromise`, the refinement of `TurnPromise` | |
| `TurnProofs!RunIsAboutActiveTurn` | `Spec => []InFlightIsActive` | no disconnect, no run from the terminal |
| `TurnProofs!NothingForgotten` | `Spec => []NotForgotten` | the disk works; no prompt is refused, or no disconnect and no run from the terminal |
| `TurnProofs!TextInOrder` | `Spec => []TextFifo` | no disconnect, `bot.start()` does not fail |
| `TurnProofs!QueuedIsDurable` | `Spec => []Durable` | those of the three above, no expiry |
| `JournalProofs!JournalTyped` | `Spec => []TypeOK` | |
| `JournalProofs!ReplaysInOrder` | `Spec => []OrderKept` | |
| `JournalProofs!TornLineCostsOne` | `Spec => []LossBounded` | |
| `JournalProofs!ConfirmedIsKept` | `Spec => []ConfirmedKept` | |
| `NodeClientProofs!TypeCorrect` | `Spec => []TypeOK` | |
| `NodeClientProofs!SingleLoop` | `Spec => []OneLoop` | |
| `NodeClientProofs!NeverSkips` | `Spec => []NoSkip` | |
| `NodeClientProofs!StoredCurrent` | `Spec => []StoredIsCurrent` | |
| `LiveProofs!OwnCodeAndHost` | `LiveSpec => []PollsThisQr` | |
| `LiveProofs!RetryMeansRejected` | `LiveSpec => []RetryAfterRejection` | |
| `LiveProofs!ShownIsPrefix` | `LiveSpec => []ShownInOrder` | `Chunks` is a natural |
| `LiveProofs!ReturnedIsAll` | `LiveSpec => []ReturnMeansAll` | `Chunks` is a natural |
| `SessionProofs!GateNeverLeaks` | `Spec => []NoneLeaks` | |
| `SessionProofs!ArmedWhileConnected` | `Spec => []ArmedIsConnected` | `Bounds` |
| `SessionProofs!ConnectsForItsNew` | `Spec => []ForItsNew` | `Bounds` |
| `SessionProofs!NewIsNotSwallowed` | `Spec => []NewIsAnswered` | `Bounds` |
| `SettingsProofs!FirstIsPaired` | `Spec => []PairedOnce` | `Nobody` is no user |
| `SettingsProofs!RuntimeFollowsFile` | `Spec => []RuntimeIsFile` | `Nobody` is no user |
| `PartsProofs!PairedForGood`, `ClosedPanelIsFile`, `GateIsGivenBack`, `ExemptWhileConnected`, `ConnectsForNew`, `NewIsDecided` | the six above, of `PartsSpec` | as there |
| `PartsProofs!NoticesAreDue` | `PartsSpec => []NoticeIsDue` | timeouts and the number of `agent_start` events are naturals |
| `PartsProofs!UsersAreAccounted` | `PartsSpec => []Accounted` | `PipelineAssumption`: numbers are naturals |
| `PartsProofs!CanAlwaysSend` | `PartsSpec => []CanSend` | |
| `PartsProofs!SavedUnlessTouched` | `PartsSpec => []CleanIsSaved` | |
| `PartsProofs!TicketIsOfSession` | `PartsSpec => []TicketServes` | |
| `PartsProofs!CursorIsShown` | `PartsSpec => []SelectionShown` | `PanelAssumption`: there is a preset and a row |
| `PartsProofs!KeysThrowSelected` | `PartsSpec => ChangesSelected`, an action property | `PanelAssumption` |
| `PartsProofs!TextIsChunked` | `PartsSpec => []ChunksAreText` | `limit` is positive |
| `PartsProofs!LinesAreSpared` | `PartsSpec => []CutsAtBreaks` | `limit` is positive |

`PartsSpec` and `LiveSpec` are the compositions the runs explore. A step of them is a
step of one part, or leaves its variables alone, so that what is proved of the part
holds of them.

### 4.1 The hypotheses

Those about numbers only say that a bound is one (`Bounds` of `SessionProofs`: there is an
instance, the numbers of calls and of `/new` are naturals). Those of `TurnProofs` are
about the environment. They name what the properties do not survive in the code:

- A disconnect, or a `bot.start()` that rejects, leaves the queue and the run as they
  are; the replay after the next login puts the same turns behind them a second
  time. The two objects of a turn break the order, and when one of them is settled
  the other waits without an entry. That also breaks `InFlightIsActive` (run
  `bridge_reconnect`).
- A run from the terminal ends with an `agent_settled` which the bridge takes for
  the end of the active turn, although that is still being sent to pi.
- A refused prompt is given up after its last attempt. If its turn is no longer the
  active one, which takes one of the two things above, the turn that took its place
  loses it without a reply.
- A session that expires discards the journal while turns wait.
- A disk that fails admits without an entry, or replays nothing.

`KeepsPromise` and the theorems of `BridgeProofs` need none of this: `TurnPromise` is kept
through disconnects, failing disks, expiries and crashes.

The runs that check the four properties have these hypotheses as their bounds, and
with them several logins, crashes and refusals.

### 4.2 The bridge

The invariant of `BridgeProofs` is `IInv == TypeOK /\ ChainOK /\ FoldOK /\ OverOK /\ LoginsOK`.
Type correctness is not inductive: when a settling at the head of the chain
resolves, the suspended `dispatchMessage` goes on with `Tail(hist[m])`, so it must
be known that this call is in its fold loop with a turn left and that no
second operation in the chain belongs to it (`FoldOK`, with `ChainOK`
giving operations their turns). `OverOK` says that what is in the chain as
a settling, or in `hist` to be settled, has ended its lifecycle; since `fate`
never leaves an end, the action property follows. `LoginsOK` bounds the counter
that numbers replayed turns.

`TurnProofs` first shows what any step may do: to the line of turns, it shortens it,
adds the turn of one message, or replays the journal into it (`LineStep`); to the
journal, it admits, settles or empties it. On this rest:

- `TurnInv == IInv /\ BuildOK /\ BornOK /\ OnceOK` for `KeepsPromise`. A message that has
  no turn yet is known nowhere (`BornOK`), so its admission is a new entry and the
  journal has one entry per message (`OnceOK`). Emptying the journal is a `Cancel` since the
  discarding is then at the head of the chain (`JournalEmpties`, `DiscardingStep`), and one
  gets into the chain only with an expiry, unless the process dies (`ExpiriesStep`).
- `FlightOK` for `RunIsAboutActiveTurn`: only the active turn is being sent, and only while
  pi is idle.
- `CaredOK` for `NothingForgotten`: the property, with "works on it" narrowed to the line
  and the replies under way. Being sent or being in pi's run does not count there,
  since both belong to the active turn.
- `OrderInv == TurnInv /\ DownOK /\ ReplayFirst /\ Fresh /\ FifoAll` for `TextInOrder`: nothing
  is under way while the bridge is down, a pending replay is the first operation of
  the chain, and what it will bring is not in the line.
- `PlaceInv` for `QueuedIsDurable`: all of this, and each message has one place: one turn
  in the line, or one reply, or a settling under way (`OneTurn`, `OneReply`, `OnePlace`). Then
  the settling that takes an entry out of the journal takes no entry of a turn that
  waits.

### 4.3 The journal

`JournalTypes` types the records. `One` says, while one instance has used the file, that a
turn whose admission waits in the chain is newer than anything in the file, in
memory or in what a compaction has read (`Newest`), so appends keep the file in order, and
that a compaction between its read and its write has read what is in the file
(`Ordered`). `Bounded` counts: confirmed turns that are not readable and settled ones that
are, together, are at most the torn lines. A torn last line counts as a tear that
has not cost anything yet; the next append joins it and costs one. All three theorems
follow. `One` and `Bounded` were first checked with TLC as invariants (2 turns, 2 logins, 2
torn lines, one instance: 752 376 states; 3 turns and 2 instances: 13.9 million states
without a violation).

### 4.4 The Node client, sending and login

The invariant of `NodeClientProofs` is
`TypeOK /\ TokenOK /\ OpsOK /\ LoopOK /\ CursorOK /\ CredsOK`.

- `OneLoop`: a call that has passed the test of `runPromise` but not yet set it is
  the only one on its way (`LoopOK`); when it enters the loop, `runPromise` names it.
- `NoSkip`: every cursor must be behind what was emitted, also the one inside a
  request (`CursorOK`), because the answer counts from there.
- `StoredIsCurrent`: an operation that writes a session is awaited by a login in
  its saving state (`OpsOK`), and what it writes is the session issued last
  (`CredsOK`), so that installing and storing agree.

`DeliveryInv` of `LiveProofs` says what the server has accepted: every message of the plan
before the step the call is at, none behind it, and of the step itself perhaps.
`Amount(k)` is how much of the content the first `k` steps carry, and what the user sees
is the content up to there (`ShownIs`). That each plan adds up (`Adding`) is proved for
texts, images and files one by one. A late request brings a message that was accepted,
or that of the current step. `LoginInv`: while a QR code is in use, a remembered
pairing code or host is its own.

### 4.5 The other parts

- `Session`: `NoneLeaks` is inductive as it stands: an exemption is counted or given
  back only together with the function that gives it back, or stays when a call of the
  gate fails, and is then in `stuck`. For the others,
  `SessionInv` says, as long as nothing has overlapped, that one call of the current
  instance is under way at most, and none during a replacement (`Alone`); that the flags
  are those of the instance being made or of the call it makes (`AckKept`); and where
  each `/new` is: in the slot with a command to come, or the one to be acknowledged
  (`NewsKept`), its bot still there (`BotStays`).
- `Settings`: `TypeOK /\ PanelNeedsSession /\ Kept`. As long as no accesses
  overlapped and no load missed a failed save (`InTime`), it says where the pairing is
  while a configuration is on its way: in memory once a session has started, in every
  write, in the file when there is no write and the last save did not fail
  (`PairingKept`); that a load meets no write, and one that is used has read what was
  saved (`FileIsWhole`); and that without a panel, unless the load at its closing failed,
  the runtime's configuration is the one in the file or on its way there
  (`RuntimeKept`).
- `Watch`: `WatchInv` says that only the timer of the last `agent_start` is
  armed, and throughout a run (`LastIsArmed`, `OthersAreDisarmed`); that what it has
  left and the time since the last activity are at least its length while it has sent
  nothing (`LeftIsRest`; at least, because a timer that is due may wait); and that a
  timer that has sent a notice can send no other (`Sent`).
- `Pipeline`: `PipeInv == PipeTypes /\ Places /\ Saves /\ P!CanSend`. What waits in a batch is its
  own, in order, not dealt with, and behind all of the batch that was dispatched
  (`Waits`); a batch that waits for handlers has dispatched the first of its messages, and
  the others wait (`Stands`). With `DispatchedOnce`, `UsersAre` and `LostByThrow` that
  gives `Accounted`: the message that throws is the first of `todo`, so what is lost with it
  comes after it. `Flushes` says that a batch waits for one operation at most; `Saves`,
  that while nothing has touched the token there is one operation at most, and what it
  will store is the token in memory.
- `Typing`: `TicketServes` is inductive as it stands: a ticket is cached with the mark
  `overtaken` unless its request is of this session, and a new session begins with the
  cache cleared.
- `Panel`: `PanelInv`. The cursor is on a row of the filtered list, or on its first, after
  every key; and in the window after a render. That the row `toggle` takes its item from
  is the one `OnCursor` means is a lemma about finite sets of positions. The types of the configurations are
  needed for the action property.
- `ChunkText`: `ChunkInv`. Chunks and remainder are the text, and every chunk that was cut
  off was cut well (`CutWell`), which is about `SplitAt` alone: `SplitsWell` shows
  it of the last paragraph, line and space in the window.

### 4.6 Method

Conjuncts were checked with TLC before they were proved. The library's
induction theorems cannot be used, as they take an operator. The one induction over
data that is needed, on what `FlattenSeq` returns for chunks of any number, takes the
least number of the set of counterexamples instead (`LeastOf` in `JournalProofs`, from the
well-foundedness of `<` on the naturals).

The journal's `TypeOK` is only proved: no run of it is needed beside `ConfirmedKept`,
`LossBounded` and `OrderKept`. Only model-checked are the liveness properties `QueueAdvances`, `AdmittedEnds`, `CallEnds` and
`LoginEnds`: liveness under fairness is out of the prover's reach. So are, of course, the
violations of section 3.2, which are single behaviours.

## 5. What is not modelled

- In the bridge: prompts, texts, metrics, `/status`, `/compact` and the pass-through of
  plugin commands, which change no state of the bridge. All senders but the authorized
  one are dropped at the entrance of `dispatchMessage` (`Settings`), so in `Bridge`
  one sender remains.
- Of the settings, what is in the project's file, which only the panel writes, and how
  inherited switches are resolved.
- Of `Pipeline`, `ContextStore.load` at the start. The 24 hours a ticket is valid may be over
  in `Typing` whenever one is wanted.
- HTTP errors other than an expired session are one action of `NodeClient` (`Failed`);
  the retries below it are in `Delivery`.
- Payload fields, encryption, media download: conversions without state.
- The Go, Python and Rust SDKs (the bridge uses none of them), install scripts, CI
  and examples.

## 6. Plan

1. `Bridge`, `TurnPromise`, `Journal`, `NodeClient`: done, with the first proofs.
2. `QrLogin`, `Delivery`, `ChunkText`, `Pipeline`, `Typing`, `Session`, `Settings`, `Panel`,
   `Watch`:
   done, model-checked.
3. Proofs: every invariant and action property that a passing run checks, and the
   refinement of `TurnPromise`, is stated by a theorem.
4. Weaker hypotheses for `QueuedIsDurable` and `TextInOrder`: what can be said of the turns
   of the last login after a disconnect.
5. The other SDKs: a poll loop each, as implementations of one abstract loop that
   skips no message within a session.
