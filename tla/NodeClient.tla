----------------------------- MODULE NodeClient -----------------------------
(***************************************************************************)
(* The Node SDK's client (nodejs/src/core/client.ts), its poll loop        *)
(* (messaging/poller.ts), login (auth/authenticator.ts) and what they keep *)
(* in storage (storage/file.ts): start, stop, the loop of long polls, the  *)
(* expiry of the session and the login it triggers, a crash and a restart. *)
(*                                                                         *)
(* A step is what runs between two awaits.  Storage operations that nobody *)
(* awaits are in credsOps and cursorOps until they take effect, in any     *)
(* order.                                                                  *)
(* Sessions are numbered in order of login, and stand for their token;     *)
(* the messages of a session are numbered in the order the server has them,*)
(* and a cursor is a session and a number.                                 *)
(*                                                                         *)
(* External: the server.  A request with a token other than that of the    *)
(* valid session fails as expired; an empty cursor means the first message *)
(* of the session; what a cursor of another session means is not known.    *)
(* `binded_redirect` is answered while the known token is still valid.     *)
(*                                                                         *)
(* The application calls start() and stop() when it likes; the pi          *)
(* extension calls start() once per client.                                *)
(***************************************************************************)
EXTENDS Naturals, FiniteSets

CONSTANTS
  Sessions,   \* bound: sessions the server issues
  Messages,   \* bound: messages in a session
  Starts,     \* bound: calls of start() in a process
  Stops,      \* bound: calls of stop()
  Logins,     \* bound: calls of login() in a process, re-logins included
  Errors,     \* bound: polls that fail without an answer
  Expiries,   \* bound: sessions that end at the server
  Crashes     \* bound: crashes of the process

ASSUME NodeClientAssumption ==
  {Sessions, Messages, Starts, Stops, Logins, Errors, Expiries, Crashes}
    \subseteq Nat

Tokens == 1..Sessions
Token == 0..Sessions                      \* 0: none
Empty == [of |-> 0, at |-> 0]             \* the empty string
Cursor == {Empty} \cup [of : Tokens, at : 0..Messages]
StartCalls == 1..Starts
LoginCalls == 1..Logins

\* An operation on a key of storage: a delete writes 0 or Empty; `by` is the
\* login that awaits it, 0 if nobody does.
StorageOp(values) == [value : values, by : 0..Logins]
Write(v, l) == [value |-> v, by |-> l]

VARIABLES
  creds,      \* WeChatBot.credentials
  runPromise, \* the call of start() whose loop it is, 0: null
  cursor,     \* MessagePoller.cursor
  stopped,    \* MessagePoller.stopped
  controller, \* the call whose request pollController aborts, 0: null
  pc,         \* where a call of start() is
  token,      \* the credentials that call has read
  asked,      \* the cursor in the request of its loop
  aborted,    \* its request was aborted
  login,      \* where a call of login() is
  known,      \* the stored credentials that call has read
  forced,     \* it is the re-login after session:expired
  disk,       \* what storage holds
  credsOps,   \* operations under way on the stored credentials
  cursorOps,  \* operations under way on the stored cursor
  session,    \* the valid session at the server, 0: none
  issued,     \* sessions issued so far
  emitted,    \* messages of a session that were emitted
  overlap,    \* start() was called while an earlier call was loading
  raced,      \* two logins were saving credentials at the same time
  foreign,    \* sessions that were asked with a cursor of another one
  used        \* the bounds used up

clientVars == <<creds, runPromise>>
pollerVars == <<cursor, stopped, controller>>
startVars == <<pc, token, asked, aborted>>
loginVars == <<login, known, forced>>
storageVars == <<disk, credsOps, cursorOps>>
serverVars == <<session, issued>>
historyVars == <<emitted, foreign, overlap, raced>>
vars == <<clientVars, pollerVars, startVars, loginVars, storageVars,
          serverVars, historyVars, used>>

Budgets == {"stops", "errors", "expiries", "crashes"}
Spend(b) == used[b] < [stops |-> Stops, errors |-> Errors,
                       expiries |-> Expiries, crashes |-> Crashes][b]
            /\ used' = [used EXCEPT ![b] = @ + 1]

Init ==
  /\ creds = 0
  /\ runPromise = 0
  /\ cursor = Empty
  /\ stopped = TRUE
  /\ controller = 0
  /\ pc = [s \in StartCalls |-> "none"]
  /\ token = [s \in StartCalls |-> 0]
  /\ asked = [s \in StartCalls |-> Empty]
  /\ aborted = [s \in StartCalls |-> FALSE]
  /\ login = [l \in LoginCalls |-> "none"]
  /\ known = [l \in LoginCalls |-> 0]
  /\ forced = [l \in LoginCalls |-> FALSE]
  /\ disk = [credentials |-> 0, cursor |-> Empty]
  /\ credsOps = {}
  /\ cursorOps = {}
  /\ session = 0
  /\ issued = 0
  /\ emitted = [t \in Tokens |-> {}]
  /\ foreign = {}
  /\ overlap = FALSE
  /\ raced = FALSE
  /\ used = [b \in Budgets |-> 0]

-----------------------------------------------------------------------------
\* start() and the poll loop.

First(f) == {i \in DOMAIN f : f[i] = "none" /\ \A j \in 1..(i - 1) : f[j] # "none"}

\* Mutant of Start: a start() while a loop runs loads and polls as well.
StartAnyway(s) ==
  /\ creds # 0 /\ s \in First(pc)
  /\ overlap' = (overlap \/ \E q \in StartCalls : pc[q] \in {"load", "notify"})
  /\ pc' = [pc EXCEPT ![s] = "load"]
  /\ token' = [token EXCEPT ![s] = creds]
  /\ UNCHANGED <<clientVars, pollerVars, asked, aborted, loginVars,
                 storageVars, serverVars, emitted, foreign, raced, used>>

\* `if (this.runPromise) return this.runPromise`; then the stored state loads.
Start(s) ==
  /\ creds # 0 /\ s \in First(pc)
  /\ runPromise = 0
  /\ overlap' = (overlap \/ \E q \in StartCalls : pc[q] \in {"load", "notify"})
  /\ pc' = [pc EXCEPT ![s] = "load"]
  /\ token' = [token EXCEPT ![s] = creds]
  /\ UNCHANGED <<clientVars, pollerVars, asked, aborted, loginVars,
                 storageVars, serverVars, emitted, foreign, raced, used>>

\* loadCursor keeps the cursor in memory when none is stored.
Loaded(s) ==
  /\ pc[s] = "load"
  /\ pc' = [pc EXCEPT ![s] = "notify"]
  /\ cursor' = IF disk.cursor # Empty THEN disk.cursor ELSE cursor
  /\ UNCHANGED <<clientVars, stopped, controller, token, asked, aborted,
                 loginVars, storageVars, serverVars, historyVars, used>>

\* The loop of s sends getUpdates, with the token s was started with and
\* cursor c.
Request(s, c) ==
  /\ pc' = [pc EXCEPT ![s] = "poll"]
  /\ asked' = [asked EXCEPT ![s] = c]
  /\ controller' = s
  /\ foreign' = IF c.of \notin {0, token[s]} THEN foreign \cup {token[s]}
                                             ELSE foreign
  /\ UNCHANGED <<token, aborted>>

\* The loop of s pauses.
Pause(s, where) ==
  /\ pc' = [pc EXCEPT ![s] = where]
  /\ asked' = [asked EXCEPT ![s] = Empty]
  /\ aborted' = [aborted EXCEPT ![s] = FALSE]
  /\ controller' = 0
  /\ UNCHANGED <<runPromise, token, foreign>>

\* The loop of s is over, or poller.start() has returned at once: start() goes
\* on to `finally`.
Leave(s) ==
  /\ pc' = [pc EXCEPT ![s] = "leave"]
  /\ runPromise' = 0
  /\ token' = [token EXCEPT ![s] = 0]
  /\ asked' = [asked EXCEPT ![s] = Empty]
  /\ aborted' = [aborted EXCEPT ![s] = FALSE]
  /\ controller' = IF pc[s] = "poll" THEN 0 ELSE controller
  /\ UNCHANGED foreign

\* `while (!this.stopped)`
Loop(s, c) ==
  \/ ~stopped /\ Request(s, c) /\ UNCHANGED runPromise
  \/ stopped /\ Leave(s)

\* notifyStart was answered, or failed: poller.start(), which returns at once
\* when a loop is running.
Notified(s) ==
  /\ pc[s] = "notify"
  /\ \/ /\ stopped
        /\ stopped' = FALSE
        /\ runPromise' = s
        /\ Request(s, cursor)
     \/ ~stopped /\ Leave(s) /\ UNCHANGED stopped
  /\ UNCHANGED <<creds, cursor, loginVars, storageVars, serverVars,
                 emitted, overlap, raced, used>>

\* The numbers the server counts from for the request of s.
From(s) == CASE asked[s] = Empty -> {0}
             [] asked[s].of = token[s] -> {asked[s].at}
             [] OTHER -> 0..Messages

\* Mutant of Answered: stop() is looked at before the messages are emitted.
AnsweredUnlessStopped(s) ==
  /\ pc[s] = "poll" /\ token[s] = session
  /\ \E p \in From(s) : \E n \in p..Messages :
       /\ emitted' = IF stopped THEN emitted
                     ELSE [emitted EXCEPT ![token[s]] = @ \cup (p + 1)..n]
       /\ cursor' = [of |-> token[s], at |-> n]
       /\ cursorOps' = cursorOps \cup {Write(cursor', 0)}
  /\ Loop(s, cursor')
  /\ UNCHANGED <<creds, stopped, loginVars, disk, credsOps, serverVars,
                 overlap, raced, used>>

\* Mutant of Answered: the cursor names the message to come.
AnsweredNext(s) ==
  /\ pc[s] = "poll" /\ token[s] = session
  /\ \E p \in From(s) : \E n \in p..Messages :
       /\ emitted' = [emitted EXCEPT ![token[s]] = @ \cup (p + 1)..n]
       /\ cursor' = [of |-> token[s], at |-> n + 1]
       /\ cursorOps' = cursorOps \cup {Write(cursor', 0)}
  /\ Loop(s, cursor')
  /\ UNCHANGED <<creds, stopped, loginVars, disk, credsOps, serverVars,
                 overlap, raced, used>>

\* An answer: the cursor moves, its write is started, the messages are emitted
\* and the loop goes on.
Answered(s) ==
  /\ pc[s] = "poll" /\ token[s] = session
  /\ \E p \in From(s) : \E n \in p..Messages :
       /\ emitted' = [emitted EXCEPT ![token[s]] = @ \cup (p + 1)..n]
       /\ cursor' = [of |-> token[s], at |-> n]
       /\ cursorOps' = cursorOps \cup {Write(cursor', 0)}
  /\ Loop(s, cursor')
  /\ UNCHANGED <<creds, stopped, loginVars, disk, credsOps, serverVars,
                 overlap, raced, used>>

\* The session has expired: session:expired starts a login of its own, which
\* begins with clearAll, and the loop pauses.
SessionExpired(s, l) ==
  /\ pc[s] = "poll" /\ token[s] # session
  /\ Pause(s, "expired")
  /\ l \in First(login)
  /\ login' = [login EXCEPT ![l] = "clear"]
  /\ forced' = [forced EXCEPT ![l] = TRUE]
  /\ credsOps' = credsOps \cup {Write(0, l)}
  /\ cursorOps' = cursorOps \cup {Write(Empty, l)}
  /\ UNCHANGED <<creds, cursor, stopped, known, disk, serverVars, emitted,
                 overlap, raced, used>>

\* No answer.
Failed(s) ==
  /\ pc[s] = "poll"
  /\ Spend("errors")
  /\ Pause(s, "delay")
  /\ UNCHANGED <<creds, cursor, stopped, loginVars, storageVars, serverVars,
                 emitted, overlap, raced>>

\* The request was aborted by stop(); a start() may have come since.
Aborted(s) ==
  /\ pc[s] = "poll" /\ aborted[s]
  /\ \/ stopped /\ Leave(s)
     \/ ~stopped /\ Pause(s, "delay")
  /\ UNCHANGED <<creds, cursor, stopped, loginVars, storageVars, serverVars,
                 emitted, overlap, raced, used>>

Woke(s) ==
  /\ pc[s] \in {"delay", "expired"}
  /\ Loop(s, cursor)
  /\ UNCHANGED <<creds, cursor, stopped, loginVars, storageVars, serverVars,
                 emitted, overlap, raced, used>>

\* notifyStop was answered, or failed.
Left(s) ==
  /\ pc[s] = "leave"
  /\ pc' = [pc EXCEPT ![s] = "done"]
  /\ UNCHANGED <<clientVars, pollerVars, token, asked, aborted, loginVars,
                 storageVars, serverVars, historyVars, used>>

\* stop()
Stop ==
  /\ Spend("stops")
  /\ stopped' = TRUE
  /\ aborted' = [s \in StartCalls |-> aborted[s] \/ s = controller]
  /\ controller' = 0
  /\ UNCHANGED <<clientVars, cursor, pc, token, asked, loginVars, storageVars,
                 serverVars, historyVars>>

-----------------------------------------------------------------------------
\* login().

\* setCredentials, and for a re-login resetCursor once more.
SetCredentials(l, t) ==
  /\ creds' = t
  /\ IF forced[l] \/ creds \notin {0, t}
       THEN cursor' = Empty /\ cursorOps' = cursorOps \cup {Write(Empty, 0)}
       ELSE UNCHANGED <<cursor, cursorOps>>
  /\ login' = [login EXCEPT ![l] = "done"]
  /\ known' = [known EXCEPT ![l] = 0]
  /\ forced' = [forced EXCEPT ![l] = FALSE]

\* The application logs in first: stored credentials, or the QR code.
Login(l) ==
  /\ creds = 0 /\ l \in First(login)
  /\ \A k \in LoginCalls : login[k] \in {"none", "done"}
  /\ \/ /\ disk.credentials # 0
        /\ SetCredentials(l, disk.credentials)
     \/ /\ disk.credentials = 0
        /\ login' = [login EXCEPT ![l] = "qr"]
        /\ UNCHANGED <<creds, cursor, known, forced, cursorOps>>
  /\ UNCHANGED <<runPromise, stopped, controller, startVars, disk, credsOps,
                 serverVars, historyVars, used>>

\* qrLogin begins once clearAll is done: it reads what is stored by then.
Cleared(l) ==
  /\ login[l] = "clear"
  /\ \A o \in credsOps : o.by # l
  /\ \A o \in cursorOps : o.by # l
  /\ login' = [login EXCEPT ![l] = "qr"]
  /\ known' = [known EXCEPT ![l] = disk.credentials]
  /\ UNCHANGED <<clientVars, pollerVars, startVars, forced, storageVars,
                 serverVars, historyVars, used>>

\* Mutant of Confirmed: the write of the credentials is not awaited.
ConfirmedUnsaved(l) ==
  /\ login[l] = "qr" /\ issued < Sessions
  /\ issued' = issued + 1
  /\ session' = issued + 1
  /\ SetCredentials(l, issued + 1)
  /\ credsOps' = credsOps \cup {Write(issued + 1, 0)}
  /\ UNCHANGED <<runPromise, stopped, controller, startVars, disk,
                 historyVars, used>>

\* The user confirms: a new session, whose credentials are saved first.
Confirmed(l) ==
  /\ login[l] = "qr" /\ issued < Sessions
  /\ issued' = issued + 1
  /\ session' = issued + 1
  /\ login' = [login EXCEPT ![l] = "save"]
  /\ known' = [known EXCEPT ![l] = 0]
  /\ credsOps' = credsOps \cup {Write(issued + 1, l)}
  /\ raced' = (raced \/ \E k \in LoginCalls : login[k] = "save")
  /\ UNCHANGED <<clientVars, pollerVars, startVars, forced, disk, cursorOps,
                 emitted, foreign, overlap, used>>

\* binded_redirect: the credentials read before are used.
BindedRedirect(l) ==
  /\ login[l] = "qr" /\ known[l] # 0 /\ known[l] = session
  /\ SetCredentials(l, known[l])
  /\ UNCHANGED <<runPromise, stopped, controller, startVars, disk, credsOps,
                 serverVars, historyVars, used>>

\* Three QR codes expire unscanned, or a request fails.
LoginFailed(l) ==
  /\ login[l] = "qr"
  /\ login' = [login EXCEPT ![l] = "done"]
  /\ known' = [known EXCEPT ![l] = 0]
  /\ forced' = [forced EXCEPT ![l] = FALSE]
  /\ UNCHANGED <<clientVars, pollerVars, startVars, storageVars,
                 serverVars, historyVars, used>>

-----------------------------------------------------------------------------
\* A storage operation takes effect; the login that waits for its credentials
\* to be saved goes on.
CredentialsStored(o) ==
  /\ o \in credsOps
  /\ credsOps' = credsOps \ {o}
  /\ disk' = [disk EXCEPT !.credentials = o.value]
  /\ IF o.by # 0 /\ login[o.by] = "save"
       THEN SetCredentials(o.by, o.value)
       ELSE UNCHANGED <<creds, cursor, cursorOps, loginVars>>
  /\ UNCHANGED <<runPromise, stopped, controller, startVars, serverVars,
                 historyVars, used>>

CursorStored(o) ==
  /\ o \in cursorOps
  /\ cursorOps' = cursorOps \ {o}
  /\ disk' = [disk EXCEPT !.cursor = o.value]
  /\ UNCHANGED <<clientVars, pollerVars, startVars, loginVars, credsOps,
                 serverVars, historyVars, used>>

\* The server ends the session.
Expire ==
  /\ session # 0
  /\ Spend("expiries")
  /\ session' = 0
  /\ UNCHANGED <<clientVars, pollerVars, startVars, loginVars, storageVars,
                 issued, historyVars>>

\* The process dies and is started again: storage is what is left.
Crash ==
  /\ Spend("crashes")
  /\ creds' = 0
  /\ runPromise' = 0
  /\ cursor' = Empty
  /\ stopped' = TRUE
  /\ controller' = 0
  /\ pc' = [s \in StartCalls |-> "none"]
  /\ token' = [s \in StartCalls |-> 0]
  /\ asked' = [s \in StartCalls |-> Empty]
  /\ aborted' = [s \in StartCalls |-> FALSE]
  /\ login' = [l \in LoginCalls |-> "none"]
  /\ known' = [l \in LoginCalls |-> 0]
  /\ forced' = [l \in LoginCalls |-> FALSE]
  /\ credsOps' = {}
  /\ cursorOps' = {}
  /\ UNCHANGED <<disk, serverVars, historyVars>>

PollStep(s) ==
  \/ Loaded(s)
  \/ Notified(s)
  \/ Answered(s)
  \/ \E l \in LoginCalls : SessionExpired(s, l)
  \/ Failed(s)
  \/ Aborted(s)
  \/ Woke(s)
  \/ Left(s)

LoginStep(l) ==
  \/ Login(l)
  \/ Cleared(l)
  \/ Confirmed(l)
  \/ BindedRedirect(l)
  \/ LoginFailed(l)

Next ==
  \/ \E s \in StartCalls : Start(s) \/ PollStep(s)
  \/ \E l \in LoginCalls : LoginStep(l)
  \/ \E o \in credsOps : CredentialsStored(o)
  \/ \E o \in cursorOps : CursorStored(o)
  \/ Stop
  \/ Expire
  \/ Crash

Spec == Init /\ [][Next]_vars

-----------------------------------------------------------------------------
\* Every variable has its type; runPromise and pollController name calls of
\* start() only.
TypeOK ==
  /\ creds \in Token
  /\ runPromise \in 0..Starts
  /\ cursor \in Cursor
  /\ stopped \in BOOLEAN
  /\ controller \in 0..Starts
  /\ pc \in [StartCalls -> {"none", "load", "notify", "poll", "delay",
                            "expired", "leave", "done"}]
  /\ token \in [StartCalls -> Token]
  /\ asked \in [StartCalls -> Cursor]
  /\ aborted \in [StartCalls -> BOOLEAN]
  /\ login \in [LoginCalls -> {"none", "clear", "qr", "save", "done"}]
  /\ known \in [LoginCalls -> Token]
  /\ forced \in [LoginCalls -> BOOLEAN]
  /\ disk \in [credentials : Token, cursor : Cursor]
  /\ credsOps \subseteq StorageOp(Token)
  /\ cursorOps \subseteq StorageOp(Cursor)
  /\ session \in Token
  /\ issued \in Token
  /\ emitted \in [Tokens -> SUBSET (1..Messages)]
  /\ foreign \subseteq Tokens
  /\ overlap \in BOOLEAN
  /\ raced \in BOOLEAN
  /\ used \in [Budgets -> Nat]

InLoop(s) == pc[s] \in {"poll", "delay", "expired"}

\* However starts and stops, failing polls and pauses interleave, at most one
\* poll loop runs, unless start() was called twice before it set runPromise:
\* two loops would emit every message twice.
OneLoop == overlap \/ Cardinality({s \in StartCalls : InLoop(s)}) <= 1

\* A message is never skipped: no cursor, in memory, in storage or on its way
\* there, is ahead of the messages emitted, across stops, restarts and crashes,
\* although the write of the cursor is not awaited (unless the server was sent
\* the cursor of another session).
NoSkip ==
  \A c \in {cursor, disk.cursor} \cup {o.value : o \in cursorOps} :
    c.of \notin foreign \cup {0} => 1..c.at \subseteq emitted[c.of]

\* The stored credentials are those in use or none, also when several logins
\* overlap, unless two of them were saving at the same time: a restart does not
\* go back to an earlier session.
StoredIsCurrent ==
  raced \/ creds = 0 \/ disk.credentials \in {0, creds}

\* A loop that pauses for a re-login polls with the new credentials once it
\* has them.
PicksUpCredentials ==
  [][\A s \in StartCalls :
       /\ pc[s] = "expired" /\ pc'[s] = "poll"
       /\ \A l \in LoginCalls : login[l] \in {"none", "done"}
       => token'[s] = creds]_vars

=============================================================================
