------------------------------- MODULE MCLive -------------------------------
(***************************************************************************)
(* What must end, for TLC: the turns of Bridge, a call of reply() or send() *)
(* (Delivery) and a login (QrLogin).  The three share no state, so they    *)
(* are explored side by side in one run: `which` says which one moves, and *)
(* the other two stay in their initial states, where none of their fair    *)
(* actions is enabled but Bridge's Login.                                  *)
(***************************************************************************)
EXTENDS Bridge

CONSTANTS Chunks, MaxRetries, UPLOAD_MAX_RETRIES, MAX_QR_REFRESH_COUNT, WrongCodes

VARIABLES
  which,
  content, at, tries, late, received, shown, outcome,
  where, refresh, local, pending, host, last, pollTries, saved, qr, moved, wrong, prompted

D == INSTANCE Delivery
Q == INSTANCE QrLogin WITH tries <- pollTries

deliveryVars == <<content, at, tries, late, received, shown, outcome>>
qrLoginVars == <<where, refresh, local, pending, host, last, pollTries, saved, qr, moved, wrong,
                 prompted>>
liveVars == <<which, vars, deliveryVars, qrLoginVars>>

LiveInit ==
  /\ which \in {"bridge", "delivery", "login"}
  /\ Init /\ D!Init /\ Q!Init

LiveNext ==
  \/ which = "bridge" /\ Next /\ UNCHANGED <<which, deliveryVars, qrLoginVars>>
  \/ which = "delivery" /\ D!Next /\ UNCHANGED <<which, vars, qrLoginVars>>
  \/ which = "login" /\ Q!Next /\ UNCHANGED <<which, vars, deliveryVars>>

LiveFairness ==
  /\ LoopFairness /\ WF_vars(which = "bridge" /\ Login)
  /\ D!Fairness /\ Q!Fairness

LiveSpec == LiveInit /\ [][LiveNext]_liveVars /\ LiveFairness

-----------------------------------------------------------------------------
\* The user sees a beginning of what reply() or send() is given (client.ts,
\* sender.ts), in order and nothing twice, whatever is retried.
ShownInOrder == D!ShownInOrder

\* reply() and send() return only when all of the content has arrived.
ReturnMeansAll == D!ReturnMeansAll

\* A call of reply() or send() ends, whatever the network does (http.ts).
CallEnds == D!CallEnds

\* A QR code is polled with no pairing code and at no host of another one
\* (authenticator.ts).
PollsThisQr == Q!PollsThisQr

\* The user is told that a pairing code was wrong only when the last one was,
\* or it was empty.
RetryAfterRejection == Q!RetryAfterRejection

\* A login that was begun ends.
LoginEnds == Q!LoginEnds
=============================================================================
