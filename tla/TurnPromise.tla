---------------------------- MODULE TurnPromise -----------------------------
(***************************************************************************)
(* What the bridge promises about conversational text messages (adr/0011): *)
(* once admitted, a message is owed until its lifecycle has ended, and only *)
(* the expiry of the session, which invalidates every reply, cancels what  *)
(* is owed: at some later time, and perhaps not at all.  A crash changes   *)
(* nothing that is owed; it may forget that there is something to cancel.  *)
(***************************************************************************)
EXTENDS Naturals

CONSTANT Messages   \* number of messages

VARIABLES
  owed,     \* admitted messages that would be replayed
  over,     \* messages whose lifecycle has ended
  expiries, \* how often the session has expired
  expired   \* of these, one is yet to cancel what is owed

promiseVars == <<owed, over, expiries, expired>>

Init == owed = {} /\ over = {} /\ expiries = 0 /\ expired = FALSE

\* A message is admitted once, before its lifecycle ends.
Accept(m) ==
  /\ m \notin owed \cup over
  /\ owed' = owed \cup {m}
  /\ UNCHANGED <<over, expiries, expired>>

\* Lifecycles end; a message folded away takes others with it.
End(S) ==
  /\ over' = over \cup S
  /\ UNCHANGED <<owed, expiries, expired>>

\* Only a message whose lifecycle has ended is forgotten.
Forget(m) ==
  /\ m \in owed \cap over
  /\ owed' = owed \ {m}
  /\ UNCHANGED <<over, expiries, expired>>

Expire ==
  /\ expiries' = expiries + 1
  /\ expired' = TRUE
  /\ UNCHANGED <<owed, over>>

\* Another expiry may be waiting behind this one.
Cancel ==
  /\ expired
  /\ owed' = {}
  /\ expired' \in BOOLEAN
  /\ UNCHANGED <<over, expiries>>

\* The disk fails, or the process dies.
NotCancelled ==
  /\ expired' = FALSE
  /\ UNCHANGED <<owed, over, expiries>>

Next ==
  \/ \E m \in 1..Messages : Accept(m) \/ Forget(m)
  \/ \E S \in SUBSET (1..Messages) : End(S)
  \/ Expire \/ Cancel \/ NotCancelled

Spec == Init /\ [][Next]_promiseVars
=============================================================================
