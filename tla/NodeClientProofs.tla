-------------------------- MODULE NodeClientProofs --------------------------
(***************************************************************************)
(* Theorems about NodeClient, for every number of sessions, messages,      *)
(* calls and failures: type correctness, OneLoop, NoSkip, StoredIsCurrent. *)
(*                                                                         *)
(* The invariant IInv adds to TypeOK what a step relies on:                *)
(*   TokenOK    a call of start() on its way has a token;                  *)
(*   OpsOK      a storage operation with a waiting login is the clearing   *)
(*              or the saving that this login waits for;                   *)
(*   LoopOK     the loop is the one runPromise names;                      *)
(*   CursorOK   no cursor, the one in a request included, is ahead;        *)
(*   CredsOK    what is being saved is the session issued last.            *)
(***************************************************************************)
EXTENDS NodeClient, FiniteSetTheorems, TLAPS

OnItsWay(s) == pc[s] \in {"load", "notify"} \/ InLoop(s)

TokenOK == \A s \in StartCalls : OnItsWay(s) => token[s] # 0

OpsOK ==
  /\ \A o \in credsOps :
       o.by # 0 => \/ login[o.by] = "clear" /\ o.value = 0
                   \/ login[o.by] = "save" /\ o.value # 0
  /\ \A o, p \in credsOps : o.by # 0 /\ o.by = p.by => o = p
  /\ \A o \in cursorOps : o.by # 0 => login[o.by] = "clear"

LoopOK ==
  overlap \/ /\ \A s, q \in StartCalls : OnItsWay(s) /\ OnItsWay(q) => s = q
             /\ \A s \in StartCalls : InLoop(s) => runPromise = s

Behind(c) == c.of \notin foreign \cup {0} => 1..c.at \subseteq emitted[c.of]

CursorOK ==
  /\ Behind(cursor)
  /\ Behind(disk.cursor)
  /\ \A o \in cursorOps : Behind(o.value)
  /\ \A s \in StartCalls :
       /\ Behind(asked[s])
       /\ asked[s].of \notin {0, token[s]} => token[s] \in foreign
       /\ pc[s] # "poll" => asked[s] = Empty

CredsOK ==
  /\ session \in {0, issued}
  /\ disk.credentials <= issued
  /\ \A l \in LoginCalls : known[l] <= issued
  /\ \A o \in credsOps : o.value <= issued /\ (o.value # 0 => o.by # 0)
  /\ raced \/
       /\ creds = 0 \/ disk.credentials \in {0, creds}
       /\ \A o \in credsOps : o.value \in {0, issued}
       /\ \A l \in LoginCalls :
            known[l] # 0 /\ known[l] = session
              => disk.credentials \in {0, session}

IInv == TypeOK /\ TokenOK /\ OpsOK /\ LoopOK /\ CursorOK /\ CredsOK

\* The bounds are numbers.
LEMMA Bounds ==
  /\ Sessions \in Nat /\ Messages \in Nat /\ Starts \in Nat /\ Stops \in Nat
  /\ Logins \in Nat /\ Errors \in Nat /\ Expiries \in Nat /\ Crashes \in Nat
BY NodeClientAssumption

-----------------------------------------------------------------------------
\* Types.

States == {"none", "load", "notify", "poll", "delay", "expired", "leave", "done"}
LoginStates == {"none", "clear", "qr", "save", "done"}

\* The variables a pause, a request and the end of the loop assign.
LoopType ==
  /\ runPromise \in 0..Starts
  /\ controller \in 0..Starts
  /\ pc \in [StartCalls -> States]
  /\ token \in [StartCalls -> Token]
  /\ asked \in [StartCalls -> Cursor]
  /\ aborted \in [StartCalls -> BOOLEAN]
  /\ foreign \subseteq Tokens

\* The variables the end of a login assigns.
LoginType ==
  /\ creds \in Token
  /\ cursor \in Cursor
  /\ login \in [LoginCalls -> LoginStates]
  /\ known \in [LoginCalls -> Token]
  /\ forced \in [LoginCalls -> BOOLEAN]
  /\ cursorOps \subseteq StorageOp(Cursor)

RestType ==
  /\ stopped \in BOOLEAN
  /\ disk \in [credentials : Token, cursor : Cursor]
  /\ credsOps \subseteq StorageOp(Token)
  /\ session \in Token
  /\ issued \in Token
  /\ emitted \in [Tokens -> SUBSET (1..Messages)]
  /\ overlap \in BOOLEAN
  /\ raced \in BOOLEAN
  /\ used \in [Budgets -> Nat]

\* TypeOK has these three parts.
LEMMA TypeParts == TypeOK <=> LoopType /\ LoginType /\ RestType
BY DEF TypeOK, LoopType, LoginType, RestType, States, LoginStates

\* The parts of the type invariant, after a step.
LEMMA TypePartsNext == TypeOK' <=> LoopType' /\ LoginType' /\ RestType'
BY DEF TypeOK, LoopType, LoginType, RestType, States, LoginStates

\* The empty cursor is a cursor, and 0 is none.
LEMMA EmptyIsCursor ==
  Empty \in Cursor /\ Empty.of = 0 /\ Empty.at = 0 /\ 0 \in Token
BY Bounds DEF Empty, Cursor, Token

\* A cursor names a session and a number, and only the empty one no session.
LEMMA CursorParts ==
  /\ \A c \in Cursor : /\ c.of \in Token /\ c.at \in 0..Messages
                       /\ c.of = 0 <=> c = Empty
  /\ \A t \in Tokens, n \in 0..Messages : [of |-> t, at |-> n] \in Cursor
BY Bounds DEF Empty, Cursor, Token, Tokens

\* A request keeps the types, if it has a token when it has a foreign cursor.
LEMMA RequestType ==
  ASSUME LoopType, NEW s \in StartCalls, token[s] # 0, NEW c \in Cursor,
         Request(s, c), runPromise' \in 0..Starts
  PROVE  LoopType'
<1>1. token[s] \in Tokens
  BY Bounds DEF LoopType, Tokens, Token
<1>2. foreign' \subseteq Tokens
  BY <1>1 DEF LoopType, Request
<1> QED
  BY <1>2, Bounds DEF LoopType, Request, States, StartCalls

\* A pause of the loop keeps its types.
LEMMA PauseType ==
  ASSUME LoopType, NEW s \in StartCalls, NEW w \in States, Pause(s, w)
  PROVE  LoopType'
BY Bounds, EmptyIsCursor DEF LoopType, Pause, StartCalls

\* So does leaving the loop.
LEMMA LeaveType ==
  ASSUME LoopType, NEW s \in StartCalls, Leave(s)
  PROVE  LoopType'
BY Bounds, EmptyIsCursor DEF LoopType, Leave, States, StartCalls

\* A loop that goes on keeps the types.
LEMMA LoopsType ==
  ASSUME LoopType, NEW s \in StartCalls, token[s] # 0, NEW c \in Cursor,
         Loop(s, c)
  PROVE  LoopType'
BY RequestType, LeaveType DEF Loop, LoopType

\* Installing credentials keeps the types.
LEMMA SetCredentialsType ==
  ASSUME LoginType, NEW l \in LoginCalls, NEW t \in Token, SetCredentials(l, t)
  PROVE  LoginType'
<1>1. Write(Empty, 0) \in StorageOp(Cursor)
  BY EmptyIsCursor, Bounds DEF Write, StorageOp
<1> QED
  BY <1>1, EmptyIsCursor DEF SetCredentials, LoginType, LoginStates

\* Counting against a bound keeps the types.
LEMMA SpendType ==
  ASSUME RestType, NEW b \in Budgets, Spend(b)
  PROVE  used' \in [Budgets -> Nat]
BY DEF Spend, RestType

\* Every step keeps the types.
LEMMA TypeStep ==
  ASSUME TypeOK, TokenOK, [Next]_vars
  PROVE  TypeOK'
<1> USE TypeParts
<1> SUFFICES LoopType' /\ LoginType' /\ RestType'
  BY TypePartsNext
<1>1. ASSUME NEW s \in StartCalls, Start(s)
      PROVE  LoopType' /\ LoginType' /\ RestType'
  <2>1. overlap' \in BOOLEAN
    BY <1>1 DEF Start
  <2> QED
    BY <1>1, <2>1 DEF Start, LoopType, LoginType, RestType, States,
                      clientVars, pollerVars, loginVars, storageVars, serverVars
<1>2. ASSUME NEW s \in StartCalls, Loaded(s)
      PROVE  LoopType' /\ LoginType' /\ RestType'
  BY <1>2 DEF Loaded, LoopType, LoginType, RestType, States, clientVars,
              loginVars, storageVars, serverVars, historyVars
<1>3. ASSUME NEW s \in StartCalls, Notified(s)
      PROVE  LoopType' /\ LoginType' /\ RestType'
  <2>1. token[s] # 0
    BY <1>3 DEF Notified, TokenOK, OnItsWay
  <2>2. LoopType'
    <3>1. CASE stopped /\ runPromise' = s /\ Request(s, cursor)
      BY <2>1, <3>1, RequestType, Bounds DEF LoginType, StartCalls
    <3>2. CASE Leave(s)
      BY <3>2, LeaveType
    <3> QED
      BY <1>3, <3>1, <3>2 DEF Notified
  <2> QED
    BY <1>3, <2>2 DEF Notified, LoginType, RestType, loginVars, storageVars,
                      serverVars
<1>4. ASSUME NEW s \in StartCalls, Answered(s)
      PROVE  LoopType' /\ LoginType' /\ RestType'
  <2>1. token[s] # 0 /\ token[s] \in Tokens
    BY <1>4, Bounds DEF Answered, TokenOK, OnItsWay, InLoop, LoopType, Token, Tokens
  <2>2. PICK p \in From(s) : \E n \in p..Messages :
          /\ emitted' = [emitted EXCEPT ![token[s]] = @ \cup (p + 1)..n]
          /\ cursor' = [of |-> token[s], at |-> n]
          /\ cursorOps' = cursorOps \cup {Write(cursor', 0)}
    BY <1>4 DEF Answered
  <2>3. p \in 0..Messages
    BY Bounds, CursorParts DEF From, LoopType
  <2>4. PICK n \in p..Messages :
          /\ emitted' = [emitted EXCEPT ![token[s]] = @ \cup (p + 1)..n]
          /\ cursor' = [of |-> token[s], at |-> n]
          /\ cursorOps' = cursorOps \cup {Write(cursor', 0)}
    BY <2>2
  <2>5. n \in 0..Messages /\ (p + 1)..n \subseteq 1..Messages
    BY <2>3, Bounds
  <2>6. cursor' \in Cursor
    BY <2>1, <2>4, <2>5, CursorParts
  <2>7. Write(cursor', 0) \in StorageOp(Cursor)
    BY <2>6, Bounds DEF Write, StorageOp
  <2>8. LoopType'
    BY <1>4, <2>1, <2>6, LoopsType DEF Answered
  <2>9. emitted' \in [Tokens -> SUBSET (1..Messages)]
    BY <2>1, <2>4, <2>5 DEF RestType
  <2>10. LoginType'
    BY <1>4, <2>4, <2>6, <2>7 DEF Answered, LoginType, loginVars
  <2> QED
    BY <1>4, <2>8, <2>9, <2>10 DEF Answered, RestType, serverVars
<1>5. ASSUME NEW s \in StartCalls, NEW l \in LoginCalls, SessionExpired(s, l)
      PROVE  LoopType' /\ LoginType' /\ RestType'
  <2>1. LoopType'
    BY <1>5, PauseType DEF SessionExpired, States
  <2>2. Write(0, l) \in StorageOp(Token) /\ Write(Empty, l) \in StorageOp(Cursor)
    BY EmptyIsCursor, Bounds DEF Write, StorageOp, LoginCalls
  <2>3. LoginType'
    BY <1>5, <2>2 DEF SessionExpired, LoginType, LoginStates
  <2> QED
    BY <1>5, <2>1, <2>2, <2>3 DEF SessionExpired, RestType, serverVars
<1>6. ASSUME NEW s \in StartCalls, Failed(s)
      PROVE  LoopType' /\ LoginType' /\ RestType'
  <2>1. LoopType'
    BY <1>6, PauseType DEF Failed, States
  <2>2. used' \in [Budgets -> Nat]
    BY <1>6, SpendType DEF Failed, Budgets
  <2> QED
    BY <1>6, <2>1, <2>2 DEF Failed, LoginType, RestType, loginVars,
                            storageVars, serverVars
<1>7. ASSUME NEW s \in StartCalls, Aborted(s)
      PROVE  LoopType' /\ LoginType' /\ RestType'
  <2>1. LoopType'
    BY <1>7, PauseType, LeaveType DEF Aborted, States
  <2> QED
    BY <1>7, <2>1 DEF Aborted, LoginType, RestType, loginVars, storageVars,
                      serverVars
<1>8. ASSUME NEW s \in StartCalls, Woke(s)
      PROVE  LoopType' /\ LoginType' /\ RestType'
  <2>1. token[s] # 0
    BY <1>8 DEF Woke, TokenOK, OnItsWay, InLoop
  <2>2. LoopType'
    BY <1>8, <2>1, LoopsType DEF Woke, LoginType
  <2> QED
    BY <1>8, <2>2 DEF Woke, LoginType, RestType, loginVars, storageVars,
                      serverVars
<1>9. ASSUME NEW s \in StartCalls, Left(s)
      PROVE  LoopType' /\ LoginType' /\ RestType'
  BY <1>9 DEF Left, LoopType, LoginType, RestType, States, clientVars,
              pollerVars, loginVars, storageVars, serverVars, historyVars
<1>10. ASSUME NEW l \in LoginCalls, Login(l)
       PROVE  LoopType' /\ LoginType' /\ RestType'
  <2>1. LoginType'
    <3>1. CASE SetCredentials(l, disk.credentials)
      BY <3>1, SetCredentialsType DEF RestType
    <3>2. CASE /\ login' = [login EXCEPT ![l] = "qr"]
               /\ UNCHANGED <<creds, cursor, known, forced, cursorOps>>
      BY <3>2 DEF LoginType, LoginStates
    <3> QED
      BY <1>10, <3>1, <3>2 DEF Login
  <2> QED
    BY <1>10, <2>1 DEF Login, LoopType, RestType, startVars, serverVars,
                       historyVars
<1>11. ASSUME NEW l \in LoginCalls, Cleared(l)
       PROVE  LoopType' /\ LoginType' /\ RestType'
  BY <1>11 DEF Cleared, LoopType, LoginType, RestType, LoginStates, clientVars,
               pollerVars, startVars, storageVars, serverVars, historyVars
<1>12. ASSUME NEW l \in LoginCalls, Confirmed(l)
       PROVE  LoopType' /\ LoginType' /\ RestType'
  <2>1. issued + 1 \in Token
    BY <1>12, Bounds DEF Confirmed, RestType, Token
  <2>2. Write(issued + 1, l) \in StorageOp(Token)
    BY <2>1, Bounds DEF Write, StorageOp, LoginCalls
  <2>3. raced' \in BOOLEAN
    BY <1>12 DEF Confirmed
  <2>4. LoginType'
    BY <1>12, EmptyIsCursor DEF Confirmed, LoginType, LoginStates, clientVars,
                                pollerVars
  <2> QED
    BY <1>12, <2>1, <2>2, <2>3, <2>4
       DEF Confirmed, LoopType, RestType, clientVars, pollerVars, startVars
<1>13. ASSUME NEW l \in LoginCalls, BindedRedirect(l)
       PROVE  LoopType' /\ LoginType' /\ RestType'
  <2>1. LoginType'
    BY <1>13, SetCredentialsType DEF BindedRedirect, LoginType
  <2> QED
    BY <1>13, <2>1 DEF BindedRedirect, LoopType, RestType, startVars,
                       serverVars, historyVars
<1>14. ASSUME NEW l \in LoginCalls, LoginFailed(l)
       PROVE  LoopType' /\ LoginType' /\ RestType'
  BY <1>14, EmptyIsCursor
     DEF LoginFailed, LoopType, LoginType, RestType, LoginStates, clientVars,
         pollerVars, startVars, storageVars, serverVars, historyVars
<1>15. ASSUME NEW o \in credsOps, CredentialsStored(o)
       PROVE  LoopType' /\ LoginType' /\ RestType'
  <2>1. o \in StorageOp(Token) /\ o.value \in Token /\ o.by \in 0..Logins
    BY DEF RestType, StorageOp
  <2>2. LoginType'
    <3>1. CASE o.by # 0 /\ SetCredentials(o.by, o.value)
      BY <2>1, <3>1, SetCredentialsType, Bounds DEF LoginCalls
    <3>2. CASE UNCHANGED <<creds, cursor, cursorOps, loginVars>>
      BY <3>2 DEF LoginType, loginVars
    <3> QED
      BY <1>15, <3>1, <3>2 DEF CredentialsStored
  <2> QED
    BY <1>15, <2>1, <2>2 DEF CredentialsStored, LoopType, RestType, startVars,
                             serverVars, historyVars
<1>16. ASSUME NEW o \in cursorOps, CursorStored(o)
       PROVE  LoopType' /\ LoginType' /\ RestType'
  <2>1. o.value \in Cursor
    BY DEF LoginType, StorageOp
  <2> QED
    BY <1>16, <2>1 DEF CursorStored, LoopType, LoginType, RestType, clientVars,
                       pollerVars, startVars, loginVars, serverVars, historyVars
<1>17. CASE Stop
  <2>1. used' \in [Budgets -> Nat]
    BY <1>17, SpendType DEF Stop, Budgets
  <2>2. aborted' \in [StartCalls -> BOOLEAN]
    BY <1>17 DEF Stop
  <2> QED
    BY <1>17, <2>1, <2>2, Bounds
       DEF Stop, LoopType, LoginType, RestType, clientVars, loginVars,
           storageVars, serverVars, historyVars
<1>18. CASE Expire
  <2>1. used' \in [Budgets -> Nat]
    BY <1>18, SpendType DEF Expire, Budgets
  <2> QED
    BY <1>18, <2>1, EmptyIsCursor
       DEF Expire, LoopType, LoginType, RestType, clientVars, pollerVars,
           startVars, loginVars, storageVars, historyVars
<1>19. CASE Crash
  <2>1. used' \in [Budgets -> Nat]
    BY <1>19, SpendType DEF Crash, Budgets
  <2> QED
    BY <1>19, <2>1, EmptyIsCursor, Bounds
       DEF Crash, LoopType, LoginType, RestType, States, LoginStates,
           serverVars, historyVars
<1>20. CASE UNCHANGED vars
  BY <1>20 DEF vars, LoopType, LoginType, RestType, clientVars, pollerVars,
               startVars, loginVars, storageVars, serverVars, historyVars
<1> QED
  BY <1>1, <1>2, <1>3, <1>4, <1>5, <1>6, <1>7, <1>8, <1>9, <1>10, <1>11,
     <1>12, <1>13, <1>14, <1>15, <1>16, <1>17, <1>18, <1>19, <1>20
     DEF Next, PollStep, LoginStep

-----------------------------------------------------------------------------
\* Calls of start().

\* How a step of the call s of start() moves it, and what it does to
\* runPromise and the token of the call.
Moves(s) ==
  \/ /\ pc[s] = "load"
     /\ pc' = [pc EXCEPT ![s] = "notify"]
     /\ UNCHANGED <<runPromise, token>>
  \/ /\ \/ pc[s] = "notify" /\ runPromise' = s
        \/ InLoop(s) /\ runPromise' = runPromise
     /\ \E w \in {"poll", "delay", "expired"} : pc' = [pc EXCEPT ![s] = w]
     /\ UNCHANGED token
  \/ /\ pc[s] = "notify" \/ InLoop(s)
     /\ pc' = [pc EXCEPT ![s] = "leave"]
     /\ runPromise' = 0
  \/ /\ pc[s] = "leave"
     /\ pc' = [pc EXCEPT ![s] = "done"]
     /\ UNCHANGED <<runPromise, token>>

\* A poll moves only its own loop.
LEMMA PollMoves ==
  ASSUME NEW s \in StartCalls, PollStep(s)
  PROVE  Moves(s) /\ UNCHANGED overlap
<1>1. CASE Loaded(s)
  BY <1>1 DEF Loaded, Moves, clientVars, historyVars
<1>2. CASE Notified(s)
  <2>1. CASE runPromise' = s /\ Request(s, cursor)
    <3>1. pc[s] = "notify"
      BY <1>2 DEF Notified
    <3>2. /\ \E w \in {"poll", "delay", "expired"} : pc' = [pc EXCEPT ![s] = w]
          /\ UNCHANGED token
      BY <2>1 DEF Request
    <3> QED
      BY <1>2, <2>1, <3>1, <3>2 DEF Notified, Moves
  <2>2. CASE Leave(s)
    BY <1>2, <2>2 DEF Notified, Leave, Moves
  <2> QED
    BY <1>2, <2>1, <2>2 DEF Notified
<1>3. CASE Answered(s)
  BY <1>3 DEF Answered, Loop, Request, Leave, Moves, InLoop
<1>4. CASE \E l \in LoginCalls : SessionExpired(s, l)
  BY <1>4 DEF SessionExpired, Pause, Moves, InLoop
<1>5. CASE Failed(s)
  BY <1>5 DEF Failed, Pause, Moves, InLoop
<1>6. CASE Aborted(s)
  BY <1>6 DEF Aborted, Pause, Leave, Moves, InLoop
<1>7. CASE Woke(s)
  BY <1>7 DEF Woke, Loop, Request, Leave, Moves, InLoop
<1>8. CASE Left(s)
  BY <1>8 DEF Left, Moves, clientVars, historyVars
<1> QED
  BY <1>1, <1>2, <1>3, <1>4, <1>5, <1>6, <1>7, <1>8 DEF PollStep

\* A step that is none of a call of start() nor a crash leaves the calls alone.
LEMMA OtherSteps ==
  ASSUME [Next]_vars
  PROVE  \/ \E s \in StartCalls : Start(s) \/ PollStep(s)
         \/ Crash
         \/ UNCHANGED <<pc, token, runPromise, overlap>>
<1>1. ASSUME NEW l \in LoginCalls, LoginStep(l)
      PROVE  UNCHANGED <<pc, token, runPromise, overlap>>
  BY <1>1 DEF LoginStep, Login, Cleared, Confirmed, BindedRedirect,
              LoginFailed, startVars, clientVars, historyVars
<1>2. ASSUME NEW o, CredentialsStored(o)
      PROVE  UNCHANGED <<pc, token, runPromise, overlap>>
  BY <1>2 DEF CredentialsStored, startVars, historyVars
<1>3. ASSUME NEW o, CursorStored(o)
      PROVE  UNCHANGED <<pc, token, runPromise, overlap>>
  BY <1>3 DEF CursorStored, startVars, clientVars, historyVars
<1>4. CASE Stop
  BY <1>4 DEF Stop, clientVars, historyVars
<1>5. CASE Expire
  BY <1>5 DEF Expire, startVars, clientVars, historyVars
<1>6. CASE UNCHANGED vars
  BY <1>6 DEF vars, startVars, clientVars, historyVars
<1> QED
  BY <1>1, <1>2, <1>3, <1>4, <1>5, <1>6 DEF Next

\* A call that polls has a token, after any step.
LEMMA TokenStep ==
  ASSUME TypeOK, TokenOK, [Next]_vars
  PROVE  TokenOK'
<1> USE DEF TokenOK, OnItsWay, InLoop
<1>1. ASSUME NEW s \in StartCalls, Start(s)
      PROVE  TokenOK'
  BY <1>1 DEF Start, TypeOK
<1>2. ASSUME NEW s \in StartCalls, PollStep(s)
      PROVE  TokenOK'
  <2>1. Moves(s)
    BY <1>2, PollMoves
  <2>2. \A q \in StartCalls : q # s => pc'[q] = pc[q] /\ token'[q] = token[q]
    <3>1. UNCHANGED token \/ token' = [token EXCEPT ![s] = 0]
      BY <1>2 DEF PollStep, Loaded, Notified, Answered, SessionExpired, Failed,
                  Aborted, Woke, Left, Loop, Request, Pause, Leave
    <3> QED
      BY <2>1, <3>1 DEF Moves, TypeOK
  <2>3. OnItsWay(s)' => token'[s] # 0
    BY <2>1 DEF Moves, TypeOK
  <2> QED
    BY <2>2, <2>3
<1>3. CASE Crash
  BY <1>3 DEF Crash
<1>4. CASE UNCHANGED <<pc, token, runPromise, overlap>>
  BY <1>4
<1> QED
  BY <1>1, <1>2, <1>3, <1>4, OtherSteps

\* A call of start() that is on its way keeps every other one from starting:
\* while it loads by `overlap`, and once its loop runs by runPromise.
LEMMA LoopOKStep ==
  ASSUME TypeOK, LoopOK, [Next]_vars
  PROVE  LoopOK'
<1> USE DEF LoopOK, OnItsWay, InLoop
<1>1. ASSUME NEW s \in StartCalls, Start(s)
      PROVE  LoopOK'
  <2> SUFFICES ASSUME ~overlap'
               PROVE  LoopOK'
    OBVIOUS
  <2>1. /\ runPromise = 0
        /\ pc' = [pc EXCEPT ![s] = "load"]
        /\ ~overlap
        /\ \A q \in StartCalls : pc[q] \notin {"load", "notify"}
    BY <1>1 DEF Start
  <2>2. \A q \in StartCalls : ~OnItsWay(q)
    BY <2>1 DEF StartCalls
  <2> QED
    BY <2>1, <2>2 DEF TypeOK
<1>2. ASSUME NEW s \in StartCalls, PollStep(s)
      PROVE  LoopOK'
  <2>1. Moves(s) /\ UNCHANGED overlap
    BY <1>2, PollMoves
  <2> SUFFICES ASSUME ~overlap
               PROVE  LoopOK'
    BY <2>1
  <2>2. pc \in [StartCalls -> States]
    BY DEF TypeOK, States
  <2>3. \A q \in StartCalls : OnItsWay(q) /\ OnItsWay(s) => q = s
    OBVIOUS
  <2>4. /\ OnItsWay(s)' => OnItsWay(s)
        /\ \A q \in StartCalls \ {s} : pc'[q] = pc[q]
    BY <2>1, <2>2 DEF Moves
  <2>5. \A p, q \in StartCalls : OnItsWay(p)' /\ OnItsWay(q)' => p = q
    BY <2>4
  <2>6. ASSUME NEW q \in StartCalls, InLoop(q)'
        PROVE  runPromise' = q
    <3>1. CASE q = s
      BY <2>1, <2>2, <2>6, <3>1 DEF Moves
    <3>2. CASE q # s
      BY <2>1, <2>3, <2>4, <2>6, <3>2 DEF Moves
    <3> QED
      BY <3>1, <3>2
  <2> QED
    BY <2>5, <2>6
<1>3. CASE Crash
  BY <1>3 DEF Crash
<1>4. CASE UNCHANGED <<pc, token, runPromise, overlap>>
  BY <1>4
<1> QED
  BY <1>1, <1>2, <1>3, <1>4, OtherSteps

-----------------------------------------------------------------------------
\* Operations on storage.

\* The login that a call of login() ends waits for no operation.
LEMMA OpsStep ==
  ASSUME TypeOK, OpsOK, [Next]_vars
  PROVE  OpsOK'
<1> USE DEF OpsOK
<1>1. ASSUME NEW s \in StartCalls, NEW l \in LoginCalls, SessionExpired(s, l)
      PROVE  OpsOK'
  <2>1. login[l] = "none" /\ l # 0
    BY <1>1 DEF SessionExpired, First, TypeOK, LoginCalls
  <2>2. \A o \in credsOps : o.by # l
    BY <2>1
  <2>3. \A o \in cursorOps : o.by # l
    BY <2>1
  <2>4. /\ credsOps' = credsOps \cup {[value |-> 0, by |-> l]}
        /\ cursorOps' = cursorOps \cup {[value |-> Empty, by |-> l]}
        /\ login' = [login EXCEPT ![l] = "clear"]
    BY <1>1 DEF SessionExpired, Write
  <2>5. login'[l] = "clear" /\ \A k : k # l => login'[k] = login[k]
    BY <2>4 DEF TypeOK
  <2> QED
    BY <2>1, <2>2, <2>3, <2>4, <2>5
<1>2. ASSUME NEW s \in StartCalls, Answered(s)
      PROVE  OpsOK'
  <2>1. cursorOps' = cursorOps \cup {[value |-> cursor', by |-> 0]}
        /\ UNCHANGED <<login, credsOps>>
    BY <1>2 DEF Answered, Write, loginVars
  <2> QED
    BY <2>1
<1>3. ASSUME NEW s \in StartCalls,
             Start(s) \/ Loaded(s) \/ Notified(s) \/ Failed(s) \/ Aborted(s)
               \/ Woke(s) \/ Left(s)
      PROVE  OpsOK'
  <2>1. UNCHANGED <<login, credsOps, cursorOps>>
    BY <1>3 DEF Start, Loaded, Notified, Failed, Aborted, Woke, Left,
                loginVars, storageVars
  <2> QED
    BY <2>1
<1>4. ASSUME NEW l \in LoginCalls, NEW t, SetCredentials(l, t),
             \A o \in credsOps : o.by # l, \A o \in cursorOps : o.by # l,
             UNCHANGED credsOps
      PROVE  OpsOK'
  <2>1. \A k : k # l => login'[k] = login[k]
    BY <1>4 DEF SetCredentials, TypeOK
  <2>2. \A o \in cursorOps' : o \in cursorOps \/ o.by = 0
    BY <1>4 DEF SetCredentials, Write
  <2> QED
    BY <1>4, <2>1, <2>2
<1>5. ASSUME NEW l \in LoginCalls, LoginStep(l)
      PROVE  OpsOK'
  <2>1. l # 0
    BY DEF LoginCalls
  <2>2. CASE login[l] \notin {"clear", "save"}
    <3>1. (\A o \in credsOps : o.by # l) /\ (\A o \in cursorOps : o.by # l)
      BY <2>1, <2>2
    <3>2. CASE Login(l) \/ BindedRedirect(l)
      <4>1. CASE \E t : SetCredentials(l, t)
        BY <1>4, <3>1, <3>2, <4>1 DEF Login, BindedRedirect
      <4>2. CASE login' = [login EXCEPT ![l] = "qr"] /\ UNCHANGED cursorOps
        BY <3>1, <3>2, <4>2 DEF Login, BindedRedirect, TypeOK
      <4> QED
        BY <3>2, <4>1, <4>2 DEF Login, BindedRedirect
    <3>3. CASE Confirmed(l)
      <4>1. /\ credsOps' = credsOps \cup {[value |-> issued + 1, by |-> l]}
            /\ login' = [login EXCEPT ![l] = "save"]
            /\ UNCHANGED cursorOps
        BY <3>3 DEF Confirmed, Write
      <4>2. issued + 1 # 0
        BY Bounds DEF TypeOK, Token
      <4>3. login'[l] = "save" /\ \A k : k # l => login'[k] = login[k]
        BY <4>1 DEF TypeOK
      <4> QED
        BY <2>1, <3>1, <4>1, <4>2, <4>3
    <3>4. CASE LoginFailed(l)
      BY <3>1, <3>4 DEF LoginFailed, storageVars, TypeOK
    <3>5. ~Cleared(l)
      BY <2>2 DEF Cleared
    <3> QED
      BY <1>5, <3>2, <3>3, <3>4, <3>5 DEF LoginStep
  <2>3. CASE login[l] \in {"clear", "save"}
    <3>1. Cleared(l)
      BY <1>5, <2>3 DEF LoginStep, Login, First, Confirmed, BindedRedirect,
                        LoginFailed, TypeOK
    <3> QED
      BY <3>1 DEF Cleared, storageVars, TypeOK
  <2> QED
    BY <2>2, <2>3
<1>6. ASSUME NEW o \in credsOps, CredentialsStored(o)
      PROVE  OpsOK'
  <2>1. credsOps' = credsOps \ {o}
    BY <1>6 DEF CredentialsStored
  <2>2. CASE UNCHANGED <<login, cursorOps>>
    BY <2>1, <2>2
  <2>3. CASE o.by # 0 /\ login[o.by] = "save" /\ SetCredentials(o.by, o.value)
    <3>1. \A p \in credsOps' : p.by # o.by
      BY <2>1, <2>3
    <3>2. \A p \in cursorOps : p.by # o.by
      BY <2>3
    <3>3. \A k : k # o.by => login'[k] = login[k]
      BY <2>3 DEF SetCredentials, TypeOK
    <3>4. \A p \in cursorOps' : p \in cursorOps \/ p.by = 0
      BY <2>3 DEF SetCredentials, Write
    <3> QED
      BY <2>1, <3>1, <3>2, <3>3, <3>4
  <2> QED
    BY <1>6, <2>2, <2>3 DEF CredentialsStored, loginVars
<1>7. ASSUME NEW o \in cursorOps, CursorStored(o)
      PROVE  OpsOK'
  BY <1>7 DEF CursorStored, loginVars
<1>8. CASE Stop \/ Expire \/ UNCHANGED vars
  BY <1>8 DEF Stop, Expire, vars, loginVars, storageVars
<1>9. CASE Crash
  BY <1>9 DEF Crash
<1> QED
  BY <1>1, <1>2, <1>3, <1>5, <1>6, <1>7, <1>8, <1>9 DEF Next, PollStep

-----------------------------------------------------------------------------
\* Cursors.

\* What was emitted stays emitted, and sessions once asked with a foreign
\* cursor stay so.
Grows ==
  /\ foreign \subseteq foreign'
  /\ \A t \in Tokens : emitted[t] \subseteq emitted'[t]

\* A cursor that is behind stays behind.
LEMMA StaysBehind ==
  ASSUME Grows, NEW c \in Cursor, Behind(c)
  PROVE  c.of \notin foreign' \cup {0} => 1..c.at \subseteq emitted'[c.of]
BY CursorParts DEF Grows, Behind, Token, Tokens

\* A step preserves CursorOK when what holds a cursor takes over one that was
\* behind, or a new one that is.
LEMMA Handover ==
  ASSUME TypeOK, TypeOK', CursorOK, Grows, NEW new \in Cursor,
         new.of \notin foreign' \cup {0} => 1..new.at \subseteq emitted'[new.of],
         cursor' \in {cursor, disk.cursor, Empty, new},
         disk'.cursor \in {disk.cursor} \cup {o.value : o \in cursorOps},
         \A o \in cursorOps' : o \in cursorOps \/ o.value \in {Empty, new},
         \A s \in StartCalls :
           /\ asked'[s] \in {asked[s], Empty, cursor, new}
           /\ asked'[s].of \notin {0, token'[s]} => token'[s] \in foreign'
           /\ pc'[s] # "poll" => asked'[s] = Empty
  PROVE  CursorOK'
<1> DEFINE B(c) == c.of \notin foreign' \cup {0} => 1..c.at \subseteq emitted'[c.of]
<1>1. B(cursor) /\ B(disk.cursor) /\ \A o \in cursorOps : B(o.value)
  BY StaysBehind DEF CursorOK, TypeOK, StorageOp
<1>2. \A s \in StartCalls : B(asked[s])
  BY StaysBehind DEF CursorOK, TypeOK
<1>3. B(Empty)
  BY EmptyIsCursor
<1>4. B(cursor') /\ B(disk'.cursor) /\ \A o \in cursorOps' : B(o.value)
  BY <1>1, <1>3
<1>5. \A s \in StartCalls : B(asked'[s])
  BY <1>1, <1>2, <1>3
<1> QED
  BY <1>4, <1>5 DEF CursorOK, Behind


\* What the request, the pause and the end of a loop leave in `asked`.
Asks(c) ==
  /\ foreign \subseteq foreign'
  /\ \A s \in StartCalls :
       /\ asked'[s] \in {asked[s], Empty, c}
       /\ asked'[s].of \notin {0, token'[s]} => token'[s] \in foreign'
       /\ pc'[s] # "poll" => asked'[s] = Empty

\* What a loop asks from is the cursor it is given.
LEMMA LoopAsks ==
  ASSUME TypeOK, CursorOK, NEW s \in StartCalls, NEW c \in Cursor,
         \/ Request(s, c)
         \/ \E w \in {"delay", "expired"} : Pause(s, w)
         \/ Leave(s)
  PROVE  Asks(c)
<1>1. CASE Request(s, c)
  BY <1>1 DEF Request, Asks, CursorOK, TypeOK
<1>2. CASE \E w \in {"delay", "expired"} : Pause(s, w)
  BY <1>2, EmptyIsCursor DEF Pause, Asks, CursorOK, TypeOK
<1>3. CASE Leave(s)
  BY <1>3, EmptyIsCursor DEF Leave, Asks, CursorOK, TypeOK
<1> QED
  BY <1>1, <1>2, <1>3

\* The messages an answer brings follow those its request's cursor covers, so
\* the new cursor is behind.
LEMMA AnsweredBehind ==
  ASSUME TypeOK, TokenOK, CursorOK, NEW s \in StartCalls, Answered(s)
  PROVE  /\ \A t \in Tokens : emitted[t] \subseteq emitted'[t]
         /\ cursor' \in Cursor
         /\ cursor'.of \notin foreign \cup {0} =>
              1..cursor'.at \subseteq emitted'[cursor'.of]
         /\ cursorOps' = cursorOps \cup {Write(cursor', 0)}
<1>1. token[s] \in Tokens
  BY Bounds DEF Answered, TokenOK, OnItsWay, InLoop, TypeOK, Token, Tokens
<1>2. asked[s] \in Cursor
  BY DEF TypeOK
<1>3. PICK p \in From(s) : \E n \in p..Messages :
        /\ emitted' = [emitted EXCEPT ![token[s]] = @ \cup (p + 1)..n]
        /\ cursor' = [of |-> token[s], at |-> n]
        /\ cursorOps' = cursorOps \cup {Write(cursor', 0)}
  BY DEF Answered
<1>4. p \in 0..Messages
  BY <1>2, Bounds, CursorParts DEF From
<1>5. PICK n \in p..Messages :
        /\ emitted' = [emitted EXCEPT ![token[s]] = @ \cup (p + 1)..n]
        /\ cursor' = [of |-> token[s], at |-> n]
        /\ cursorOps' = cursorOps \cup {Write(cursor', 0)}
  BY <1>3
<1>6. cursor' \in Cursor
  BY <1>1, <1>4, <1>5, Bounds, CursorParts
<1>7. emitted'[token[s]] = emitted[token[s]] \cup (p + 1)..n
  BY <1>1, <1>5 DEF TypeOK
<1>8. \A t \in Tokens : emitted[t] \subseteq emitted'[t]
  BY <1>1, <1>5 DEF TypeOK
<1>9. ASSUME token[s] \notin foreign
      PROVE  1..n \subseteq emitted'[token[s]]
  <2>1. asked[s].of \in {0, token[s]}
    BY <1>9 DEF CursorOK
  <2>2. 1..p \subseteq emitted[token[s]]
    <3>1. CASE asked[s] = Empty
      <4>1. asked[s].of # token[s]
        BY <1>1, <3>1, EmptyIsCursor DEF Tokens
      <4>2. p = 0
        BY <3>1, <4>1 DEF From
      <4> QED
        BY <4>2
    <3>2. CASE asked[s] # Empty
      <4>1. asked[s].of = token[s]
        BY <1>2, <2>1, <3>2, CursorParts
      <4>2. p = asked[s].at
        BY <3>2, <4>1 DEF From
      <4>3. Behind(asked[s])
        BY DEF CursorOK
      <4> QED
        BY <1>1, <1>9, <4>1, <4>2, <4>3 DEF Behind, Tokens
    <3> QED
      BY <3>1, <3>2
  <2>3. 1..n \subseteq 1..p \cup (p + 1)..n
    BY <1>4
  <2> QED
    BY <1>7, <2>2, <2>3
<1> QED
  BY <1>5, <1>6, <1>8, <1>9

\* Every step keeps the cursors behind what was emitted.
LEMMA CursorStep ==
  ASSUME TypeOK, TypeOK', TokenOK, CursorOK, [Next]_vars
  PROVE  CursorOK'
<1> USE EmptyIsCursor
<1>1. ASSUME Asks(cursor), UNCHANGED <<cursor, disk, cursorOps, emitted>>
      PROVE  CursorOK'
  BY <1>1, Handover DEF Asks, Grows
<1>2. ASSUME NEW s \in StartCalls, Start(s)
      PROVE  CursorOK'
  <2>1. pc[s] = "none" /\ asked[s] = Empty
    BY <1>2 DEF Start, First, CursorOK, TypeOK
  <2>2. Asks(cursor)
    BY <1>2, <2>1 DEF Start, Asks, CursorOK, TypeOK
  <2> QED
    BY <1>1, <1>2, <2>2 DEF Start, pollerVars, storageVars
<1>3. ASSUME NEW s \in StartCalls, Loaded(s)
      PROVE  CursorOK'
  <2>1. cursor' \in {cursor, disk.cursor}
    BY <1>3 DEF Loaded
  <2>2. Asks(cursor)
    BY <1>3 DEF Loaded, Asks, CursorOK, TypeOK, historyVars
  <2> QED
    BY <1>3, <2>1, <2>2, Handover DEF Loaded, Asks, Grows, storageVars, historyVars
<1>4. ASSUME NEW s \in StartCalls, Answered(s)
      PROVE  CursorOK'
  <2>1. Asks(cursor')
    BY <1>4, AnsweredBehind, LoopAsks DEF Answered, Loop
  <2>2. Grows
    BY <1>4, <2>1, AnsweredBehind DEF Asks, Grows
  <2>3. cursor'.of \notin foreign' \cup {0} =>
          1..cursor'.at \subseteq emitted'[cursor'.of]
    BY <1>4, <2>2, AnsweredBehind DEF Grows
  <2>4. \A o \in cursorOps' : o \in cursorOps \/ o.value = cursor'
    BY <1>4, AnsweredBehind DEF Write
  <2>5. disk' = disk /\ cursor' \in Cursor
    BY <1>4, AnsweredBehind DEF Answered
  <2> DEFINE new == cursor'
  <2>6. \A q \in StartCalls : asked'[q] \in {asked[q], Empty, new}
    BY <2>1 DEF Asks
  <2> QED
    BY <2>1, <2>2, <2>3, <2>4, <2>5, Handover DEF Asks
<1>5. ASSUME NEW s \in StartCalls, NEW l \in LoginCalls, SessionExpired(s, l)
      PROVE  CursorOK'
  <2>1. Asks(cursor)
    BY <1>5, LoopAsks DEF SessionExpired, TypeOK
  <2>2. \A o \in cursorOps' : o \in cursorOps \/ o.value = Empty
    BY <1>5 DEF SessionExpired, Write
  <2> QED
    BY <1>5, <2>1, <2>2, Handover DEF SessionExpired, Asks, Grows
<1>6. ASSUME NEW s \in StartCalls, Notified(s) \/ Failed(s) \/ Aborted(s) \/ Woke(s)
      PROVE  CursorOK'
  <2>1. Asks(cursor)
    BY <1>6, LoopAsks DEF Notified, Failed, Aborted, Woke, Loop, TypeOK
  <2> QED
    BY <1>1, <1>6, <2>1 DEF Notified, Failed, Aborted, Woke, storageVars
<1>7. ASSUME NEW s \in StartCalls, Left(s)
      PROVE  CursorOK'
  <2>1. Asks(cursor)
    BY <1>7 DEF Left, Asks, CursorOK, TypeOK, historyVars
  <2> QED
    BY <1>1, <1>7, <2>1 DEF Left, pollerVars, storageVars, historyVars
<1>8. ASSUME NEW l, NEW t, SetCredentials(l, t),
             UNCHANGED <<startVars, disk, emitted, foreign>>
      PROVE  CursorOK'
  <2>1. Asks(cursor)
    BY <1>8 DEF Asks, CursorOK, startVars
  <2>2. /\ cursor' \in {cursor, Empty}
        /\ \A o \in cursorOps' : o \in cursorOps \/ o.value = Empty
    BY <1>8 DEF SetCredentials, Write
  <2> QED
    BY <1>8, <2>1, <2>2, Handover DEF Asks, Grows
<1>9. ASSUME UNCHANGED <<pc, token, asked, foreign, cursor, disk, cursorOps, emitted>>
      PROVE  CursorOK'
  BY <1>1, <1>9 DEF Asks, CursorOK
<1>10. ASSUME NEW l \in LoginCalls, LoginStep(l)
       PROVE  CursorOK'
  <2>1. CASE \E t : SetCredentials(l, t) /\ (Login(l) \/ BindedRedirect(l))
    BY <1>8, <2>1 DEF Login, BindedRedirect, historyVars
  <2>2. CASE ~ \E t : SetCredentials(l, t) /\ (Login(l) \/ BindedRedirect(l))
    BY <1>9, <1>10, <2>2
       DEF LoginStep, Login, Cleared, Confirmed, BindedRedirect, LoginFailed,
           pollerVars, startVars, storageVars, historyVars
  <2> QED
    BY <2>1, <2>2
<1>11. ASSUME NEW o \in credsOps, CredentialsStored(o)
       PROVE  CursorOK'
  <2>1. disk'.cursor = disk.cursor
    BY <1>11 DEF CredentialsStored, TypeOK
  <2>2. /\ cursor' \in {cursor, Empty}
        /\ \A p \in cursorOps' : p \in cursorOps \/ p.value = Empty
    BY <1>11 DEF CredentialsStored, SetCredentials, Write
  <2>3. Asks(cursor)
    BY <1>11 DEF CredentialsStored, Asks, CursorOK, startVars, historyVars
  <2> QED
    BY <1>11, <2>1, <2>2, <2>3, Handover
       DEF CredentialsStored, Asks, Grows, historyVars
<1>12. ASSUME NEW o \in cursorOps, CursorStored(o)
       PROVE  CursorOK'
  <2>1. disk'.cursor = o.value
    BY <1>12 DEF CursorStored, TypeOK
  <2>2. Asks(cursor)
    BY <1>12 DEF CursorStored, Asks, CursorOK, startVars, historyVars
  <2> QED
    BY <1>12, <2>1, <2>2, Handover
       DEF CursorStored, Asks, Grows, pollerVars, historyVars
<1>13. CASE Stop \/ Expire \/ UNCHANGED vars
  BY <1>9, <1>13 DEF Stop, Expire, vars, pollerVars, startVars, storageVars, historyVars
<1>14. CASE Crash
  <2>1. Asks(cursor)
    BY <1>14 DEF Crash, Asks, historyVars
  <2> QED
    BY <1>14, <2>1, Handover DEF Crash, Asks, Grows, historyVars
<1> QED
  BY <1>2, <1>3, <1>4, <1>5, <1>6, <1>7, <1>10, <1>11, <1>12, <1>13, <1>14
     DEF Next, PollStep

-----------------------------------------------------------------------------
\* Credentials.

\* A session is issued when its login begins to save, and only that session is
\* being saved until another login does the same: that is `raced`.
LEMMA CredsStep ==
  ASSUME TypeOK, TypeOK', OpsOK, CredsOK, [Next]_vars
  PROVE  CredsOK'
<1> issued \in Nat /\ session \in Nat /\ creds \in Nat /\ disk.credentials \in Nat
  BY Bounds DEF TypeOK, Token
<1>1. ASSUME NEW s \in StartCalls, NEW l \in LoginCalls, SessionExpired(s, l)
      PROVE  CredsOK'
  <2>1. credsOps' = credsOps \cup {[value |-> 0, by |-> l]} /\ l # 0
    BY <1>1 DEF SessionExpired, Write, LoginCalls
  <2> QED
    BY <1>1, <2>1 DEF SessionExpired, CredsOK, serverVars
<1>2. ASSUME UNCHANGED <<creds, known, disk, credsOps, serverVars, raced>>
      PROVE  CredsOK'
  BY <1>2 DEF CredsOK, serverVars
<1>3. ASSUME NEW s \in StartCalls, Start(s) \/ PollStep(s),
             ~ \E l \in LoginCalls : SessionExpired(s, l)
      PROVE  CredsOK'
  BY <1>2, <1>3 DEF PollStep, Start, Loaded, Notified, Answered, Failed,
                    Aborted, Woke, Left, clientVars, loginVars, storageVars,
                    historyVars
<1>4. ASSUME NEW l \in LoginCalls, NEW t \in Token, SetCredentials(l, t),
             raced \/ disk.credentials \in {0, t},
             UNCHANGED <<disk, credsOps, serverVars, raced>>
      PROVE  CredsOK'
  <2>1. creds' = t /\ known' = [known EXCEPT ![l] = 0]
    BY <1>4 DEF SetCredentials
  <2>2. \A k \in LoginCalls : known'[k] \in {0, known[k]}
    BY <2>1 DEF TypeOK
  <2> QED
    BY <1>4, <2>1, <2>2 DEF CredsOK, serverVars
<1>5. ASSUME NEW l \in LoginCalls, Login(l)
      PROVE  CredsOK'
  <2>1. CASE SetCredentials(l, disk.credentials)
    BY <1>4, <1>5, <2>1 DEF Login, TypeOK, historyVars
  <2>2. CASE UNCHANGED <<creds, known>>
    BY <1>2, <1>5, <2>2 DEF Login, historyVars
  <2> QED
    BY <1>5, <2>1, <2>2 DEF Login
<1>6. ASSUME NEW l \in LoginCalls, Cleared(l)
      PROVE  CredsOK'
  <2>1. \A k \in LoginCalls : known'[k] \in {known[k], disk.credentials}
    BY <1>6 DEF Cleared, TypeOK
  <2> QED
    BY <1>6, <2>1 DEF Cleared, CredsOK, clientVars, storageVars, serverVars,
                      historyVars
<1>7. ASSUME NEW l \in LoginCalls, Confirmed(l)
      PROVE  CredsOK'
  <2>1. /\ issued' = issued + 1 /\ session' = issued + 1
        /\ credsOps' = credsOps \cup {[value |-> issued + 1, by |-> l]}
        /\ l # 0
        /\ UNCHANGED <<creds, disk>>
    BY <1>7 DEF Confirmed, Write, clientVars, LoginCalls
  <2>2. \A k \in LoginCalls : known'[k] \in {0, known[k]} /\ known[k] \in Nat
    BY <1>7, Bounds DEF Confirmed, TypeOK, Token
  <2>3. \A o \in credsOps : o.value \in Nat
    BY Bounds DEF TypeOK, StorageOp, Token
  <2>4. ASSUME ~raced'
        PROVE  ~raced /\ \A o \in credsOps : o.value = 0
    <3>1. ~raced /\ \A k \in LoginCalls : login[k] # "save"
      BY <1>7, <2>4 DEF Confirmed
    <3>2. \A o \in credsOps : o.by # 0 => o.by \in LoginCalls
      BY Bounds DEF TypeOK, StorageOp, LoginCalls
    <3> QED
      BY <3>1, <3>2 DEF OpsOK, CredsOK
  <2>5. \A k \in LoginCalls : known'[k] <= issued
    BY <2>2 DEF CredsOK
  <2> QED
    BY <2>1, <2>2, <2>3, <2>4, <2>5 DEF CredsOK
<1>8. ASSUME NEW l \in LoginCalls, BindedRedirect(l)
      PROVE  CredsOK'
  <2>1. known[l] \in Token /\ (raced \/ disk.credentials \in {0, known[l]})
    BY <1>8 DEF BindedRedirect, CredsOK, TypeOK
  <2> QED
    BY <1>4, <1>8, <2>1 DEF BindedRedirect, historyVars
<1>9. ASSUME NEW l \in LoginCalls, LoginFailed(l)
      PROVE  CredsOK'
  <2>1. \A k \in LoginCalls : known'[k] \in {0, known[k]}
    BY <1>9 DEF LoginFailed, TypeOK
  <2> QED
    BY <1>9, <2>1 DEF LoginFailed, CredsOK, clientVars, storageVars,
                      serverVars, historyVars
<1>10. ASSUME NEW o \in credsOps, CredentialsStored(o)
       PROVE  CredsOK'
  <2>1. /\ credsOps' = credsOps \ {o}
        /\ disk'.credentials = o.value
        /\ UNCHANGED <<session, issued, raced>>
    BY <1>10 DEF CredentialsStored, TypeOK, serverVars, historyVars
  <2>2. o.value # 0 => creds' = o.value
    <3>1. o.value # 0 => o.by # 0 /\ login[o.by] = "save"
      BY DEF OpsOK, CredsOK
    <3> QED
      BY <1>10, <3>1 DEF CredentialsStored, SetCredentials
  <2>3. \A k \in LoginCalls : known'[k] \in {0, known[k]}
    BY <1>10 DEF CredentialsStored, SetCredentials, loginVars, TypeOK
  <2> QED
    BY <2>1, <2>2, <2>3 DEF CredsOK
<1>11. ASSUME NEW o \in cursorOps, CursorStored(o)
       PROVE  CredsOK'
  <2>1. disk'.credentials = disk.credentials
    BY <1>11 DEF CursorStored, TypeOK
  <2> QED
    BY <1>11, <2>1 DEF CursorStored, CredsOK, clientVars, loginVars, serverVars,
                       historyVars
<1>12. CASE Expire
  BY <1>12 DEF Expire, CredsOK, clientVars, loginVars, storageVars, historyVars
<1>13. CASE Stop \/ UNCHANGED vars
  BY <1>2, <1>13 DEF Stop, vars, clientVars, loginVars, storageVars, historyVars
<1>14. CASE Crash
  BY <1>14 DEF Crash, CredsOK, serverVars, historyVars
<1> QED
  BY <1>1, <1>3, <1>5, <1>6, <1>7, <1>8, <1>9, <1>10, <1>11, <1>12, <1>13, <1>14
     DEF Next, PollStep, LoginStep

-----------------------------------------------------------------------------
\* The initial state satisfies the invariant.
LEMMA InitInv == Init => IInv
<1> SUFFICES ASSUME Init PROVE IInv
  OBVIOUS
<1> USE EmptyIsCursor DEF Init
<1>1. LoopType /\ LoginType
  BY Bounds DEF LoopType, LoginType, States, LoginStates
<1>2. RestType
  BY Bounds DEF RestType
<1>3. TypeOK
  BY <1>1, <1>2, TypeParts
<1>4. TokenOK /\ OpsOK /\ LoopOK
  BY DEF TokenOK, OpsOK, LoopOK, OnItsWay, InLoop
<1>5. CursorOK
  BY DEF CursorOK, Behind
<1>6. CredsOK
  BY Bounds DEF CredsOK
<1> QED
  BY <1>3, <1>4, <1>5, <1>6 DEF IInv

\* The invariant holds throughout.
LEMMA Inductive == Spec => []IInv
<1>1. IInv /\ [Next]_vars => IInv'
  <2> SUFFICES ASSUME IInv, [Next]_vars PROVE IInv'
    OBVIOUS
  <2>1. TypeOK' /\ TokenOK' /\ OpsOK' /\ LoopOK'
    BY TypeStep, TokenStep, OpsStep, LoopOKStep DEF IInv
  <2>2. CursorOK' /\ CredsOK'
    BY <2>1, CursorStep, CredsStep DEF IInv
  <2> QED
    BY <2>1, <2>2 DEF IInv
<1> QED
  BY <1>1, InitInv, PTL DEF Spec

\* At most one call of start() is in the loop: it is the one that runPromise
\* names.
LEMMA LoopIsOne == TypeOK /\ LoopOK => OneLoop
<1> SUFFICES ASSUME TypeOK, LoopOK, ~overlap
             PROVE  OneLoop
  BY DEF OneLoop
<1> DEFINE L == {s \in StartCalls : InLoop(s)}
<1>1. CASE L = {}
  <2>1. Cardinality(L) = 0
    BY <1>1, FS_EmptySet
  <2> QED
    BY <2>1 DEF OneLoop
<1>2. CASE L # {}
  <2>1. PICK s \in L : TRUE
    BY <1>2
  <2>2. L = {s}
    BY <2>1 DEF LoopOK, OnItsWay
  <2>3. Cardinality({s}) = 1
    BY FS_Singleton
  <2> QED
    BY <2>2, <2>3 DEF OneLoop
<1> QED
  BY <1>1, <1>2

-----------------------------------------------------------------------------
\* Every variable keeps its type: in particular an operation under way writes
\* nothing but a session, a cursor or the deletion of one.
THEOREM TypeCorrect == Spec => []TypeOK
<1>1. IInv => TypeOK
  BY DEF IInv
<1> QED
  BY <1>1, Inductive, PTL

\* At most one poll loop runs, however many calls of start() and stop() there
\* are and however polls fail, unless two calls of start() were loading at once.
THEOREM SingleLoop == Spec => []OneLoop
<1>1. IInv => OneLoop
  BY LoopIsOne DEF IInv
<1> QED
  BY <1>1, Inductive, PTL

\* No cursor in memory, in storage or on its way there is ahead of the messages
\* emitted, over any number of stops, logins and crashes.
THEOREM NeverSkips == Spec => []NoSkip
<1>1. IInv => NoSkip
  BY DEF IInv, CursorOK, Behind, NoSkip
<1> QED
  BY <1>1, Inductive, PTL

\* The stored credentials are those in use or none, however many logins
\* overlap, unless two were saving at once.
THEOREM StoredCurrent == Spec => []StoredIsCurrent
<1>1. IInv => StoredIsCurrent
  BY DEF IInv, CredsOK, StoredIsCurrent
<1> QED
  BY <1>1, Inductive, PTL

=============================================================================
