------------------------------ MODULE QrLogin -------------------------------
(***************************************************************************)
(* The QR code login of the Node SDK (auth/authenticator.ts): up to        *)
(* MAX_QR_REFRESH_COUNT codes, each polled until it is confirmed, expired  *)
(* or blocked, with a redirect to another host and a pairing code on the   *)
(* way.  NodeClient knows of it only that it ends in one way or another.   *)
(*                                                                         *)
(* External: the server and the phone.  A QR code has a life of its own at *)
(* the server: the phone scans it, may be moved to another host, may be    *)
(* asked for the pairing code, confirms; or the code expires.  A poll that *)
(* times out may have been processed, and is sent again.                   *)
(***************************************************************************)
EXTENDS Naturals

CONSTANTS
  MAX_QR_REFRESH_COUNT,
  MaxRetries, \* DEFAULT_RETRY_POLICY.maxRetries
  WrongCodes  \* external: wrong pairing codes after which a QR is blocked

None == 0

VARIABLES
  where,   \* what the login waits for, and how it ended
  refresh, \* qrRefreshCount: the number of the QR code
  local,   \* stored credentials are known: their token is sent along
  pending, \* pendingVerifyCode: the QR it was entered for, and what was entered
  host,    \* currentPollBaseUrl: the QR that redirected to it, None: fixed
  last,    \* lastStatus
  tries,   \* tries of the poll under way
  saved,   \* the QR whose credentials are in storage
  qr,      \* at the server: the state of the QR code
  moved,   \* its polls are answered at another host
  wrong,   \* wrong codes it was polled with
  prompted \* the last prompt: none, the first for a QR, or a retry

loginVars == <<where, refresh, local, pending, host, last, tries, saved>>
serverVars == <<qr, moved, wrong>>
qrLoginVars == <<loginVars, serverVars, prompted>>

\* What a user enters: an empty code is a string, but no code is sent for it.
Codes == {"right", "wrong", "empty"}
NoCode == [qr |-> None, code |-> "none"]

Init ==
  /\ where = "start" /\ refresh = 0 /\ local = FALSE /\ pending = NoCode
  /\ host = None /\ last = "none" /\ tries = 0 /\ saved = None
  /\ qr = "none" /\ moved = FALSE /\ wrong = 0
  /\ prompted = "no"

\* login(): stored credentials are used as they are unless it is forced; they
\* may be unreadable.
Begin(force, stored) ==
  /\ where = "start"
  /\ where' \in {"failed", IF stored /\ ~force THEN "stored" ELSE "next"}
  /\ local' = stored
  /\ UNCHANGED <<refresh, pending, host, last, tries, saved, serverVars, prompted>>

\* Mutant of Fresh: a new QR code is polled with the code of the last one.
FreshButCode == UNCHANGED pending /\ host' = None /\ last' = "none"

\* The variables of the outer loop.
Fresh == pending' = NoCode /\ host' = None /\ last' = "none"

\* Mutant of Counted: each QR code is the first.
CountedOnce == 1

Counted == refresh + 1

\* The outer loop: the next QR code, or it is given up.  The request for it, or
\* the callback that shows it, may fail.
NextQr ==
  /\ where = "next"
  /\ IF refresh = MAX_QR_REFRESH_COUNT
       THEN where' = "failed" /\ UNCHANGED <<refresh, pending, host, last, tries, qr, moved, wrong>>
       ELSE /\ where' \in {"polling", "failed"}
            /\ refresh' = Counted
            /\ tries' = 1
            /\ Fresh
            /\ qr' \in {"wait"} \cup (IF local THEN {"bound"} ELSE {})
            /\ moved' = FALSE
            /\ wrong' = 0
  /\ UNCHANGED <<local, saved, prompted>>

-----------------------------------------------------------------------------
\* The server and the phone.
Phone(from, to) ==
  /\ qr = from /\ qr' = to
  /\ UNCHANGED <<loginVars, wrong, prompted>>

Scan == Phone("wait", "scaned") /\ moved' \in BOOLEAN
AskCode == wrong = 0 /\ Phone("scaned", "asks") /\ UNCHANGED moved
Confirm == Phone("scaned", "confirmed") /\ UNCHANGED moved
Expire == \E q \in {"wait", "scaned", "asks"} : Phone(q, "expired") /\ UNCHANGED moved

\* A poll carries the pairing code that is pending, unless it is empty.
Submitted == pending.code \notin {"none", "empty"}

\* The server looks at a poll: at the code it carries if it asked for one.
Processed ==
  IF qr # "asks" \/ ~Submitted \/ (moved /\ host = None)
    THEN UNCHANGED <<qr, wrong>>
    ELSE IF pending.code = "right" THEN qr' = "scaned" /\ UNCHANGED wrong
    ELSE /\ wrong' = wrong + 1
         /\ qr' = IF wrong' >= WrongCodes THEN "blocked" ELSE "asks"

Status == IF moved /\ host = None THEN "scaned_but_redirect"
          ELSE CASE qr' = "asks" -> "need_verifycode"
                 [] qr' = "blocked" -> "verify_code_blocked"
                 [] qr' = "bound" -> "binded_redirect"
                 [] OTHER -> qr'

-----------------------------------------------------------------------------
\* A poll and what is done about its answer.

\* Another try of the poll, or the login fails.
PollAgain == IF tries <= MaxRetries THEN tries' = tries + 1 /\ UNCHANGED where
                                    ELSE where' = "failed" /\ UNCHANGED tries

PollLost ==
  /\ where = "polling"
  /\ Processed \/ UNCHANGED <<qr, wrong>>
  /\ PollAgain
  /\ UNCHANGED <<refresh, local, pending, host, last, saved, moved, prompted>>

\* Errors that are not retried.
PollFailed ==
  /\ where = "polling"
  /\ where' = "failed"
  /\ Processed \/ UNCHANGED <<qr, wrong>>
  /\ UNCHANGED <<refresh, local, pending, host, last, tries, saved, moved, prompted>>

\* A confirmed login without credentials fails; `binded_redirect` returns what
\* was stored when the login began, or fails.
After(status) ==
  CASE status = "confirmed" -> {"saving", "failed"}
    [] status = "need_verifycode" -> {"prompt"}
    [] status \in {"verify_code_blocked", "expired"} -> {"next"}
    [] status = "binded_redirect" -> {IF local THEN "stored" ELSE "failed"}
    [] OTHER -> {"polling"}

\* `scaned` after a code was sent means it was accepted; a blocked QR code
\* forgets whatever was entered.
Accepted(status) ==
  \/ status = "scaned" /\ last # "scaned" /\ Submitted
  \/ status = "verify_code_blocked"

\* Mutant of IsRetry: every prompt after the first of the login.
IsRetryEver == prompted # "no"

IsRetry == pending # NoCode

\* The answer may lack the host to go to.
Polled ==
  /\ where = "polling"
  /\ Processed
  /\ where' \in After(Status)
  /\ last' = Status
  /\ pending' = IF Accepted(Status) THEN NoCode ELSE pending
  /\ host' \in {host} \cup (IF Status = "scaned_but_redirect" THEN {refresh} ELSE {})
  /\ tries' = 1
  /\ prompted' = IF where' # "prompt" THEN prompted
                 ELSE IF IsRetry THEN "retry" ELSE "first"
  /\ UNCHANGED <<refresh, local, saved, moved>>

\* The user enters a pairing code, or nothing.
Entered(code) ==
  /\ where = "prompt"
  /\ where' = "polling"
  /\ pending' = [qr |-> refresh, code |-> code]
  /\ UNCHANGED <<refresh, local, host, last, tries, saved, serverVars, prompted>>

\* The prompt fails: the callback throws, or stdin cannot be read.
NotEntered ==
  /\ where = "prompt"
  /\ where' = "failed"
  /\ UNCHANGED <<refresh, local, pending, host, last, tries, saved, serverVars, prompted>>

\* The credentials are returned when they are in storage.
Saved(ok) ==
  IF ok THEN where' = "returned" /\ saved' = refresh
        ELSE where' = "failed" /\ UNCHANGED saved

Save(ok) ==
  /\ where = "saving"
  /\ Saved(ok)
  /\ UNCHANGED <<refresh, local, pending, host, last, tries, serverVars, prompted>>

Next ==
  \/ \E force, stored \in BOOLEAN : Begin(force, stored)
  \/ NextQr
  \/ Scan \/ AskCode \/ Confirm \/ Expire
  \/ PollLost \/ PollFailed \/ Polled
  \/ (\E code \in Codes : Entered(code)) \/ NotEntered
  \/ \E ok \in BOOLEAN : Save(ok)

Spec == Init /\ [][Next]_qrLoginVars

\* Requests time out and are not lost for ever; the user answers a prompt; a
\* redirect names the host in the end; and a QR code does not
\* live for ever.
Fairness ==
  /\ WF_qrLoginVars(NextQr)
  /\ WF_qrLoginVars(Polled \/ PollLost \/ PollFailed)
  /\ SF_qrLoginVars(Polled)
  /\ SF_qrLoginVars(Polled /\ host' # host)
  /\ WF_qrLoginVars((\E code \in Codes : Entered(code)) \/ NotEntered)
  /\ WF_qrLoginVars(\E ok \in BOOLEAN : Save(ok))
  /\ SF_qrLoginVars(Expire)

FairSpec == Spec /\ Fairness

-----------------------------------------------------------------------------
Over == {"stored", "returned", "failed"}

\* A QR code is polled with the pairing code and at the host that belong to it,
\* never with those of an earlier one.
PollsThisQr ==
  where = "polling" => pending.qr \in {None, refresh} /\ host \in {None, refresh}

\* "isRetry is true when a previously submitted code was rejected": what was
\* entered last, for this QR code, was rejected by the server - or it was
\* empty, and nothing was submitted at all.
RetryAfterRejection ==
  where = "prompt" /\ prompted = "retry" =>
    /\ pending.qr = refresh
    /\ pending.code = "empty" \/ (pending.code = "wrong" /\ wrong > 0)

\* A login that was begun ends, however often codes expire, polls are lost or
\* pairing codes are wrong.
LoginEnds == where = "next" ~> where \in Over
=============================================================================
