------------------------------- MODULE Typing -------------------------------
(***************************************************************************)
(* The typing ticket of the Node SDK (messaging/typing.ts), for one user:  *)
(* it is asked for with getconfig, cached, and belongs to the session it   *)
(* was asked for in.  What Pipeline says of context tokens and of the      *)
(* re-login is here only whether a token is known, and how far it is.      *)
(***************************************************************************)
EXTENDS Naturals

CONSTANTS
  TypingCalls, \* bound: getconfig requests under way at once
  Relogins     \* bound: sessions that end

TypingCall == 1..TypingCalls
NoTicket == 0

VARIABLES
  session,  \* the number of the session, of its credentials
  relogin,  \* where the listener of session:expired is
  known,    \* the context store has a token of the user
  ticket,   \* the session the cached ticket was asked for in
  overtaken,\* it was cached after that session had ended
  asked     \* for each call, the session of the getconfig request under way, 0: none

typingVars == <<session, relogin, known, ticket, overtaken, asked>>

Init ==
  /\ session = 1 /\ relogin = "no"
  /\ known = FALSE
  /\ ticket = NoTicket /\ overtaken = FALSE
  /\ asked = [c \in TypingCall |-> 0]

\* The context store remembers a token, or a blank one.
Remember ==
  /\ known' \in BOOLEAN
  /\ UNCHANGED <<session, relogin, ticket, overtaken, asked>>

\* startTyping() or stopTyping(): without a cached ticket, or with one whose time
\* is over, it asks for one, if there is a token.
AskTicket(c) ==
  /\ asked[c] = 0
  /\ known
  /\ asked' = [asked EXCEPT ![c] = session]
  /\ UNCHANGED <<session, relogin, known, ticket, overtaken>>

\* The ticket is cached; or there is none in the answer; or the request failed,
\* and the cached ticket is dropped.
TicketAnswered(c) ==
  /\ asked[c] # 0
  /\ \/ ticket' = asked[c] /\ overtaken' = (asked[c] # session)
     \/ UNCHANGED <<ticket, overtaken>>
     \/ ticket' = NoTicket /\ overtaken' = FALSE
  /\ asked' = [asked EXCEPT ![c] = 0]
  /\ UNCHANGED <<session, relogin, known>>

\* Mutant of ClearCache: the ticket stays.
KeepCache == UNCHANGED <<ticket, overtaken>>

ClearCache == ticket' = NoTicket /\ overtaken' = FALSE

\* The session ends; auth.clearAll() deletes what is stored.
SessionExpired ==
  /\ relogin = "no" /\ session <= Relogins
  /\ relogin' = "clearing"
  /\ UNCHANGED <<session, known, ticket, overtaken, asked>>

Cleared ==
  /\ relogin = "clearing"
  /\ relogin' = "login"
  /\ ClearCache
  /\ UNCHANGED <<session, known, asked>>

\* The deletion or the login fails: the poll loop finds the session expired again.
ReloginFails ==
  /\ relogin \in {"clearing", "login"}
  /\ relogin' = "no"
  /\ UNCHANGED <<session, known, ticket, overtaken, asked>>

\* setCredentials with another token: the context store is cleared, and the cache.
SetCredentials ==
  /\ relogin = "login"
  /\ relogin' = "no"
  /\ session' = session + 1
  /\ known' = FALSE
  /\ ClearCache
  /\ UNCHANGED asked

Next ==
  \/ Remember
  \/ \E c \in TypingCall : AskTicket(c) \/ TicketAnswered(c)
  \/ SessionExpired \/ Cleared \/ ReloginFails \/ SetCredentials

Spec == Init /\ [][Next]_typingVars

-----------------------------------------------------------------------------
\* A cached typing ticket is one of this session, unless the answer that brought
\* it came after its session had ended - and then until the next answer.
TicketServes == ticket # NoTicket /\ ~overtaken => ticket = session
=============================================================================
