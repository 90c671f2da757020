------------------------------ MODULE Pipeline ------------------------------
(***************************************************************************)
(* What the Node SDK does with the batches of the poll loop                *)
(* (core/client.ts), for one user: the context token is remembered         *)
(* (messaging/context.ts), in memory and in storage, the middleware runs    *)
(* (middleware/engine.ts), the handlers are called.                        *)
(*                                                                         *)
(* The emitter does not wait for its listeners (core/events.ts), so the    *)
(* next batch may come while one is being worked on.  A step is what runs  *)
(* between two awaits.  Messages are numbered as they are polled, and      *)
(* stand for their context token.                                          *)
(***************************************************************************)
EXTENDS Integers, Sequences, FiniteSets, SequencesExt

CONSTANTS
  Batches,    \* bound: batches polled
  BatchSize,  \* bound: messages of a batch
  Messages    \* bound: messages polled

PipelineAssumption == {BatchSize, Messages} \subseteq Nat

Batch == 1..Batches
Message == 1..Messages
NoMessage == 0

\* The token of a message that has none: reply() remembers that, too.
Blank == -1

\* Who waits for a storage operation: a batch for its flush, the re-login for
\* auth.clearAll(), nobody for contextStore.clear().
ClearAll == 0
Clear == -1

VARIABLES
  polled,     \* messages polled so far
  user,       \* those of them that are from the user, not the bot's echo
  of,         \* the batch of a message
  todo,       \* messages of a batch not yet dealt with, the current one first
  phase,      \* what the batch waits for
  dispatched, \* messages handed to the handlers, in that order
  dropped,    \* messages a middleware handled
  thrown,     \* messages whose middleware, parser or handler threw
  lost,       \* messages no handler was called for, after one of their batch threw
  seen,       \* messages with a token that the loop has looked at
  context,    \* the user's token in ContextStore.tokens
  dirty,      \* ContextStore.dirty
  stored,     \* the token in storage
  ops,        \* storage operations under way
  touched,    \* since the token was last set with no operation under way: it was
              \* set, or an operation began, during another, or a deletion failed
  valid,      \* the first message of the session: earlier ones are of the last
  relogin     \* where the listener of session:expired is

fateVars == <<dropped, thrown, lost>>
batchVars == <<polled, user, of, todo, phase, dispatched, fateVars>>
contextVars == <<seen, context, dirty, stored, ops, touched>>
pipelineVars == <<batchVars, contextVars, valid, relogin>>

Init ==
  /\ polled = 0
  /\ user = {}
  /\ of = [m \in Message |-> 0]
  /\ todo = [b \in Batch |-> <<>>]
  /\ phase = [b \in Batch |-> "none"]
  /\ dispatched = <<>>
  /\ dropped = {} /\ thrown = {} /\ lost = {}
  /\ seen = {}
  /\ context = NoMessage
  /\ dirty = FALSE
  /\ stored = NoMessage
  /\ ops = {}
  /\ touched = FALSE
  /\ valid = 1
  /\ relogin = "no"

-----------------------------------------------------------------------------
\* The context token.

Op(by, value) == [by |-> by, value |-> value]

\* What a step that sets the token or not, and may begin an operation, does to
\* what is known of the storage.
Disturbs(set) ==
  touched' = ((touched /\ ~set) \/ (ops # {} /\ (set \/ ops' # ops)))

\* Mutant of StartFlush: the token is what it was before the batch.
StartFlushEarly(b) == ops' = ops \cup {Op(b, context)}

\* The snapshot is written; the flag is reset when that is done.
StartFlush(b) == ops' = ops \cup {Op(b, context')}

StorageDone == \E o \in ops :
  /\ ops' = ops \ {o}
  /\ stored' = o.value
  /\ dirty' = (o.by \notin Batch /\ dirty)
  /\ phase' = IF o.by \in Batch THEN [phase EXCEPT ![o.by] = "over"] ELSE phase
  /\ relogin' = IF o.by = ClearAll THEN "login" ELSE relogin
  /\ UNCHANGED <<polled, user, of, todo, dispatched, fateVars, seen, context, touched,
                 valid>>

\* An operation fails; nobody but the re-login looks at that.  What was written
\* may be cut off, what was to be deleted may be there or not.
StorageFails == \E o \in ops :
  /\ ops' = ops \ {o}
  /\ stored' \in {stored, NoMessage}
  /\ phase' = IF o.by \in Batch THEN [phase EXCEPT ![o.by] = "over"] ELSE phase
  /\ relogin' = IF o.by = ClearAll THEN "failed" ELSE relogin
  /\ touched' = (touched \/ o.by = Clear)
  /\ UNCHANGED <<polled, user, of, todo, dispatched, fateVars, seen, context, dirty,
                 valid>>

-----------------------------------------------------------------------------
\* A batch.

\* The listener until its next await: it remembers the tokens of the bot's own
\* messages, which have no handler, and of the next message of the user; after
\* the last message it flushes.
FirstOf(ms) ==
  {i \in DOMAIN ms : ms[i] \in user' /\ \A j \in 1..(i - 1) : ms[j] \notin user'}

\* The last of some tokens.
Latest(tokens) == {m \in tokens : \A t \in tokens : t <= m}

\* Mutant of Remembered: the bot's own messages are left out before their
\* token is remembered.
RememberedUsers(tokens) ==
  \/ tokens \cap user' = {} /\ UNCHANGED <<context, dirty>>
  \/ context' \in Latest(tokens \cap user') /\ dirty' = TRUE

\* ContextStore.remember(), of messages some of which have a token.
Remembered(tokens) ==
  \/ tokens = {} /\ UNCHANGED <<context, dirty>>
  \/ context' \in Latest(tokens) /\ dirty' = TRUE

GoOn(b, ms) ==
  LET first == FirstOf(ms)
      last == IF first = {} THEN Len(ms) ELSE CHOOSE i \in first : TRUE
  IN \E tokens \in SUBSET ToSet(SubSeq(ms, 1, last)) :
     /\ seen' = seen \cup tokens
     /\ Remembered(tokens)
     /\ todo' = [todo EXCEPT ![b] = IF first = {} THEN <<>>
                                                  ELSE SubSeq(ms, last, Len(ms))]
     /\ IF first # {}
          THEN phase' = [phase EXCEPT ![b] = "middleware"] /\ UNCHANGED ops
          ELSE IF dirty' THEN StartFlush(b) /\ phase' = [phase EXCEPT ![b] = "flush"]
                         ELSE phase' = [phase EXCEPT ![b] = "over"] /\ UNCHANGED ops
     /\ Disturbs(tokens # {})

\* The next batch, some of whose messages are the user's.
Poll(b, n) == \E theirs \in SUBSET {polled + i : i \in 1..n} :
  /\ phase[b] = "none" /\ \A c \in 1..(b - 1) : phase[c] # "none"
  /\ relogin = "no"
  /\ polled + n <= Messages
  /\ polled' = polled + n
  /\ user' = user \cup theirs
  /\ of' = [m \in Message |-> IF m \in (polled + 1)..(polled + n) THEN b ELSE of[m]]
  /\ GoOn(b, [i \in 1..n |-> polled + i])
  /\ UNCHANGED <<dispatched, fateVars, stored, valid, relogin>>

\* What throws out of the listener ends its batch: other messages of it are not
\* looked at, and nothing is flushed.
Abandon(b, missed) ==
  /\ todo' = [todo EXCEPT ![b] = <<>>]
  /\ phase' = [phase EXCEPT ![b] = "over"]
  /\ thrown' = thrown \cup {Head(todo[b])}
  /\ lost' = lost \cup missed
  /\ UNCHANGED <<dropped, contextVars>>

\* A middleware that does not call next() ends the chain, but only one that
\* sets `handled` keeps the message from the handlers.
GoesOn(verdict) == verdict \in {"next", "skipped"}

\* Mutant of AfterMiddleware: a message that is handled ends its batch.
HandledEndsBatch(b, verdict) ==
  /\ GoOn(b, <<>>)
  /\ dropped' = dropped \cup {Head(todo[b])}
  /\ UNCHANGED <<thrown, lost, stored>>

\* Without next(), or with an error: the middleware's, or the parser's.
AfterMiddleware(b, verdict) ==
  \/ /\ verdict = "handled"
     /\ GoOn(b, Tail(todo[b]))
     /\ dropped' = dropped \cup {Head(todo[b])}
     /\ UNCHANGED <<thrown, lost, stored>>
  \/ verdict = "thrown" /\ Abandon(b, ToSet(todo[b]))

\* All handlers are called at once.  One that throws before it returns a promise
\* keeps the others after it from being called, and is not waited for.
Dispatch(b) ==
  /\ dispatched' = Append(dispatched, Head(todo[b]))
  /\ \/ /\ phase' = [phase EXCEPT ![b] = "handlers"]
        /\ UNCHANGED <<todo, fateVars, contextVars>>
     \/ Abandon(b, ToSet(Tail(todo[b])))

MiddlewareDone(b, verdict) ==
  /\ phase[b] = "middleware"
  /\ UNCHANGED <<polled, user, of, valid, relogin>>
  /\ IF GoesOn(verdict) THEN Dispatch(b)
                        ELSE AfterMiddleware(b, verdict) /\ UNCHANGED dispatched

\* The promises of all handlers are settled, whether they failed or not.
HandlersDone(b) ==
  /\ phase[b] = "handlers"
  /\ UNCHANGED <<polled, user, of, dispatched, fateVars, stored, valid, relogin>>
  /\ GoOn(b, Tail(todo[b]))

\* reply() to a message, at any time after it was dispatched.
Reply(m) ==
  /\ m \in ToSet(dispatched)
  /\ context' = IF m \in seen THEN m ELSE Blank
  /\ dirty' = TRUE
  /\ UNCHANGED <<batchVars, seen, stored, ops, valid, relogin>>
  /\ Disturbs(TRUE)

-----------------------------------------------------------------------------
\* The session ends: clearAll() deletes what is stored, and the login sets new
\* credentials.  (One such session, and not an empty one: sessions are named by
\* their first message.)
SessionExpired ==
  /\ relogin \in {"no", "failed"} /\ valid = 1
  /\ polled > 0
  /\ relogin' = "clearing"
  /\ ops' = ops \cup {Op(ClearAll, NoMessage)}
  /\ Disturbs(FALSE)
  /\ UNCHANGED <<batchVars, seen, context, dirty, stored, valid>>

\* The session stays expired, and the poll loop finds that again.
ReloginFails ==
  /\ relogin = "login"
  /\ relogin' = "failed"
  /\ UNCHANGED <<batchVars, contextVars, valid>>

ClearContext == context' = NoMessage /\ dirty' = FALSE

\* setCredentials with another token.
SetCredentials ==
  /\ relogin = "login"
  /\ relogin' = "no"
  /\ valid' = polled + 1
  /\ ClearContext
  /\ ops' = ops \cup {Op(Clear, NoMessage)}
  /\ Disturbs(TRUE)
  /\ UNCHANGED <<batchVars, seen, stored>>

Next ==
  \/ \E b \in Batch, n \in 1..BatchSize : Poll(b, n)
  \/ \E b \in Batch, verdict \in {"next", "skipped", "handled", "thrown"} :
       MiddlewareDone(b, verdict)
  \/ \E b \in Batch : HandlersDone(b)
  \/ \E m \in Message : Reply(m)
  \/ StorageDone \/ StorageFails
  \/ SessionExpired \/ ReloginFails
  \/ SetCredentials

Spec == Init /\ [][Next]_pipelineVars

-----------------------------------------------------------------------------
Dispatched == ToSet(dispatched)

Waiting == UNION {ToSet(todo[b]) : b \in Batch}

\* However batches overlap, each message of the user is in one place: waiting
\* in its batch, handed to the handlers, handled by a middleware - or lost,
\* and then only because it or an earlier one of its batch threw.  None falls
\* out of the loop's early continues, and a batch keeps its order.
Accounted ==
  /\ IsInjective(dispatched)
  /\ Dispatched \cap (dropped \cup lost) = {} /\ dropped \cap lost = {}
  /\ user \subseteq Waiting \cup Dispatched \cup dropped \cup lost
  /\ \A m \in lost : \E t \in thrown : of[t] = of[m] /\ t <= m
  /\ \A i, j \in DOMAIN dispatched :
       i < j /\ of[dispatched[i]] = of[dispatched[j]] => dispatched[i] < dispatched[j]

\* "Always remember context tokens": once the loop has looked at a message of
\* the session that has a token, even if it is the bot's own, the user has one
\* - if only the blank one of a message reply() was called for.
CanSend == (\E m \in seen : m >= valid) => context # NoMessage

\* What is not marked as unsaved is in storage, unless the token was set, or an
\* operation began, while another was under way, or a deletion failed - and
\* again once a token is set in peace.
CleanIsSaved ==
  ~dirty /\ ops = {} /\ ~touched /\ relogin = "no" => stored = context
=============================================================================
