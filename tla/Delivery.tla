------------------------------ MODULE Delivery ------------------------------
(***************************************************************************)
(* One call of reply() or send() of the Node SDK, from the content to what *)
(* the user gets: the routing of the content (core/client.ts), the chunks  *)
(* of a text (messaging/sender.ts), the upload of media (media/uploader.ts) *)
(* and the requests below them with their timeouts and retries             *)
(* (transport/http.ts).                                                    *)
(*                                                                         *)
(* A request that times out may have been processed, may be processed      *)
(* later, when its retry was, or never.  The backoff between two tries is  *)
(* no state of its own: only a late request can take effect in it.         *)
(***************************************************************************)
EXTENDS Naturals, Sequences, SequencesExt

CONSTANTS
  Chunks,             \* bound: chunks of a text or a caption
  MaxRetries,         \* DEFAULT_RETRY_POLICY.maxRetries
  UPLOAD_MAX_RETRIES

\* Texts; media that carry their caption, i.e. images and videos; and other
\* files.  `text` counts the chunks of the text or caption; a remote file is
\* downloaded first, and what comes back decides how it is sent.
MediaKinds == {"image", "file"}
SendContent ==
  [kind : {"text"}, text : 0..Chunks, remote : {FALSE}]
    \cup [kind : MediaKinds, text : 0..Chunks, remote : BOOLEAN]
None == [kind |-> "none", text |-> 0, remote |-> FALSE]

VARIABLES
  content,  \* what the call is to send
  at,       \* the step of its plan it is at, 0: before the first
  tries,    \* tries of that step so far, with the one under way
  late,     \* messages of requests that timed out, which may still arrive
  received, \* the client_id of each message the server has accepted
  shown,    \* what the user gets of them: the server drops a message whose
            \* client_id it has seen
  outcome   \* "none" while the call runs, "sent", or "failed": it throws

serverVars == <<received, shown>>
deliveryVars == <<content, at, tries, late, serverVars, outcome>>

-----------------------------------------------------------------------------
\* What a call does, as a sequence of steps: requests to the iLink API, of
\* which those that send have a message; transfers to the CDN; downloads.
Ask(r) == [do |-> r, items |-> <<>>]
Post(items) == [do |-> "sendmessage", items |-> items]

\* downloadFromUrl, before what is downloaded is sent as any other file.
Download(remote) == IF remote THEN <<Ask("download")>> ELSE <<>>

\* sendText: a message per chunk, one after the other.
SendText(n) == [i \in 1..n |-> Post(<<i>>)]

\* Items are the chunks' numbers, and Media.  The text item comes before the
\* media in a message.
Media == 0
MessageItems(caption) == [i \in 1..caption |-> i] \o <<Media>>

UploadSteps == <<Ask("getuploadurl"), Ask("cdn")>>
SendMedia(caption) == UploadSteps \o <<Post(MessageItems(caption))>>

\* Mutant of Plan: the caption follows the file.
PlanCaptionLast(c) ==
  Download(c.remote)
    \o CASE c.kind = "text" -> SendText(c.text)
         [] c.kind = "image" -> SendMedia(c.text)
         [] OTHER -> SendMedia(0) \o SendText(c.text)

\* The caption of an image is part of its message, in one piece; that of any
\* other file is a text of its own, sent before the file is uploaded.
Plan(c) ==
  Download(c.remote)
    \o CASE c.kind = "text" -> SendText(c.text)
         [] c.kind = "image" -> SendMedia(c.text)
         [] OTHER -> SendText(c.text) \o SendMedia(0)

Steps == Plan(content)
Step == Steps[at]
Sends(s) == s.do = "sendmessage"

\* Mutant of ClientId: an id for each try.
ClientIdPerTry == <<at, tries>>

\* The client_id is drawn when the payload is built, once for a step.
ClientId == <<at, 0>>
Message == [items |-> Step.items, client_id |-> ClientId]

\* Tries of a step: a download has one.
Tries(s) == CASE s.do = "cdn" -> UPLOAD_MAX_RETRIES
              [] s.do = "download" -> 1
              [] OTHER -> MaxRetries + 1

-----------------------------------------------------------------------------
Init ==
  /\ content = None
  /\ at = 0
  /\ tries = 0
  /\ late = {}
  /\ received = {} /\ shown = <<>>
  /\ outcome = "none"

Fail == outcome' = "failed" /\ UNCHANGED <<at, tries>>

\* An empty text is refused before anything is sent, and so is a text when
\* no context token is known.
Call(c, hasToken) ==
  /\ content = None
  /\ content' = c
  /\ IF c.kind = "text" /\ (c.text = 0 \/ ~hasToken)
       THEN Fail
       ELSE at' = 1 /\ tries' = 1 /\ UNCHANGED outcome
  /\ UNCHANGED <<late, serverVars>>

Running == content # None /\ outcome = "none"

\* The server accepts a message: it comes after what the user has, if it is new.
Accept(message) ==
  /\ received' = received \cup {message.client_id}
  /\ shown' = IF message.client_id \in received THEN shown ELSE shown \o message.items

\* The message may have been taken by the server before the answer was lost.
Taken == Accept(Message)
NotTaken == UNCHANGED serverVars

NextStep == IF at < Len(Steps)
              THEN at' = at + 1 /\ tries' = 1 /\ UNCHANGED outcome
              ELSE outcome' = "sent" /\ UNCHANGED <<at, tries>>

Answered ==
  /\ Running
  /\ IF Sends(Step) THEN Taken ELSE NotTaken
  /\ NextStep
  /\ UNCHANGED <<content, late>>

\* Errors that end the call: HTTP and iLink errors, network errors, an answer
\* that is not JSON or has no upload URL; 4xx from the CDN; any failure of a
\* download.
Refused ==
  /\ Running
  /\ Fail
  /\ NotTaken \/ (Sends(Step) /\ Taken)
  /\ UNCHANGED <<content, late>>

\* Mutant of Again: the step after a failure that may be transient is the next.
AgainSkips == IF tries < Tries(Step)
                THEN tries' = tries + 1 /\ UNCHANGED <<at, outcome>>
                ELSE NextStep

\* Mutant of Again: the tries are counted from the start again.
AgainForever == tries' = (tries % Tries(Step)) + 1 /\ UNCHANGED <<at, outcome>>

Again == IF tries < Tries(Step)
           THEN tries' = tries + 1 /\ UNCHANGED <<at, outcome>>
           ELSE Fail

\* A timeout, or for the CDN any failure but 4xx: 5xx, a network error, an
\* answer without x-encrypted-param.
TimedOut ==
  /\ Running
  /\ Again
  /\ \/ NotTaken /\ UNCHANGED late
     \/ Sends(Step) /\ Taken /\ UNCHANGED late
     \/ Sends(Step) /\ late' = late \cup {[message |-> Message, try |-> tries]}
        /\ NotTaken
  /\ UNCHANGED content

\* A request whose caller has given up on it arrives.
Arrives == \E r \in late :
  /\ late' = late \ {r}
  /\ Accept(r.message)
  /\ UNCHANGED <<content, at, tries, outcome>>

Proceed == Answered \/ Refused \/ TimedOut

Next ==
  \/ \E c \in SendContent, hasToken \in BOOLEAN : Call(c, hasToken)
  \/ Answered
  \/ Refused
  \/ TimedOut
  \/ Arrives

Spec == Init /\ [][Next]_deliveryVars

\* Every request and every transfer has a timeout (AbortSignal.timeout).
Fairness == WF_deliveryVars(Proceed)
FairSpec == Spec /\ Fairness

-----------------------------------------------------------------------------
\* The text in order, then the media.
Wanted == [i \in 1..content.text |-> i]
            \o (IF content.kind = "text" THEN <<>> ELSE <<Media>>)

\* Whatever fails, times out or arrives late, the user sees a beginning of the
\* content, in order and nothing twice.
ShownInOrder == content # None => IsPrefix(shown, Wanted)

\* reply() and send() return only when all of the content has been received.
ReturnMeansAll == outcome = "sent" => shown = Wanted

\* A call ends, whatever the network does.
CallEnds == content # None ~> outcome # "none"
=============================================================================
