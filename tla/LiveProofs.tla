----------------------------- MODULE LiveProofs ------------------------------
(***************************************************************************)
(* Proofs about the login and the sending of the Node SDK, in the          *)
(* composition that explores them beside Bridge: the other two parts do    *)
(* not touch their variables.                                              *)
(***************************************************************************)
EXTENDS MCLive, SequenceTheorems, TLAPS

-----------------------------------------------------------------------------
(***************************************************************************)
(* The QR code login.  While a QR code is in use, a pairing code and a     *)
(* host that are remembered are its own.                                   *)
(***************************************************************************)
InUse == where \in {"polling", "prompt"}
OwnCode == pending = Q!NoCode \/ pending.qr = refresh
OwnHost == host \in {Q!None, refresh}

PendingTypes ==
  \/ pending = Q!NoCode
  \/ pending.code \in Q!Codes
QrState == {"none", "wait", "bound", "scaned", "asks", "confirmed", "expired", "blocked"}

LoginInv ==
  /\ qr \in QrState
  /\ InUse => OwnCode /\ OwnHost
  /\ wrong \in Nat
  /\ PendingTypes
  /\ RetryAfterRejection

\* A login begins without a QR code, a code or a host.
LEMMA LoginInit == Q!Init => LoginInv
  BY DEF Q!Init, LoginInv, QrState, InUse, PendingTypes, RetryAfterRejection,
         Q!RetryAfterRejection

\* The server asks for the code again only when it has counted a wrong one, or
\* none was sent.
LEMMA AskedAgain ==
  ASSUME qr \in QrState, wrong \in Nat, PendingTypes, Q!Processed,
         Q!Status = "need_verifycode", pending # Q!NoCode
  PROVE  pending.code = "empty" \/ (pending.code = "wrong" /\ wrong' > 0)
<1>1. qr' \in QrState
  BY DEF Q!Processed, QrState
<1>2. ~(moved /\ host = Q!None) /\ qr' = "asks"
  BY <1>1 DEF Q!Status, QrState
<1>3. qr = "asks"
  BY <1>2 DEF Q!Processed
<1>4. CASE Q!Submitted
  <2>1. pending.code = "wrong"
    BY <1>2, <1>3, <1>4 DEF Q!Processed, PendingTypes, Q!Codes, Q!Submitted
  <2>2. wrong' = wrong + 1
    BY <1>2, <1>3, <1>4, <2>1 DEF Q!Processed
  <2> QED BY <2>1, <2>2
<1>5. CASE ~Q!Submitted
  BY <1>5 DEF PendingTypes, Q!Codes, Q!Submitted
<1> QED BY <1>4, <1>5

\* An answer to a poll.
LEMMA PolledKeeps == ASSUME LoginInv, Q!Polled PROVE LoginInv'
<1>1. /\ where = "polling" /\ OwnCode /\ OwnHost /\ wrong \in Nat /\ qr \in QrState
      /\ refresh' = refresh /\ pending' \in {pending, Q!NoCode}
      /\ host' \in {host, refresh} /\ where' \in Q!After(Q!Status)
  BY DEF Q!Polled, LoginInv, InUse
<1>2. OwnCode' /\ OwnHost'
  BY <1>1 DEF OwnCode, OwnHost, Q!NoCode
<1>3. wrong' \in Nat /\ qr' \in QrState
  BY <1>1 DEF Q!Polled, Q!Processed, QrState
<1>4. PendingTypes'
  BY <1>1 DEF LoginInv, PendingTypes
<1>5. ASSUME where' = "prompt", prompted' = "retry"
      PROVE  /\ pending'.qr = refresh'
             /\ pending'.code = "empty" \/ (pending'.code = "wrong" /\ wrong' > 0)
  <2>1. Q!Status = "need_verifycode"
    BY <1>1, <1>5 DEF Q!After
  <2>2. pending # Q!NoCode /\ pending' = pending
    BY <1>5, <2>1 DEF Q!Polled, Q!IsRetry, Q!Accepted
  <2>3. pending.code = "empty" \/ (pending.code = "wrong" /\ wrong' > 0)
    BY <1>1, <2>1, <2>2, AskedAgain DEF Q!Polled, LoginInv
  <2>4. pending.qr = refresh
    BY <1>1, <2>2 DEF OwnCode, LoginInv
  <2> QED BY <1>1, <2>2, <2>3, <2>4
<1> QED BY <1>2, <1>3, <1>4, <1>5 DEF LoginInv, RetryAfterRejection, Q!RetryAfterRejection

\* Every step of a login keeps the invariant.
LEMMA LoginKeeps == ASSUME LoginInv, Q!Next PROVE LoginInv'
<1> USE DEF LoginInv, QrState, InUse, OwnCode, OwnHost, PendingTypes,
            RetryAfterRejection, Q!RetryAfterRejection
<1>1. CASE \E force, stored \in BOOLEAN : Q!Begin(force, stored)
  BY <1>1 DEF Q!Begin, Q!serverVars
<1>2. CASE Q!NextQr
  <2>1. CASE refresh = MAX_QR_REFRESH_COUNT
    BY <1>2, <2>1 DEF Q!NextQr
  <2>2. CASE refresh # MAX_QR_REFRESH_COUNT
    BY <1>2, <2>2 DEF Q!NextQr, Q!Fresh, Q!NoCode
  <2> QED BY <2>1, <2>2
<1>3. CASE Q!Scan \/ Q!AskCode \/ Q!Confirm \/ Q!Expire
  BY <1>3 DEF Q!Scan, Q!AskCode, Q!Confirm, Q!Expire, Q!Phone, Q!loginVars
<1>4. CASE Q!PollLost \/ Q!PollFailed
  BY <1>4 DEF Q!PollLost, Q!PollFailed, Q!PollAgain, Q!Processed
<1>5. CASE Q!Polled
  BY <1>5, PolledKeeps
<1>6. CASE (\E code \in Q!Codes : Q!Entered(code)) \/ Q!NotEntered
  BY <1>6 DEF Q!Entered, Q!NotEntered, Q!serverVars
<1>7. CASE \E ok \in BOOLEAN : Q!Save(ok)
  BY <1>7 DEF Q!Save, Q!Saved, Q!serverVars
<1> QED BY <1>1, <1>2, <1>3, <1>4, <1>5, <1>6, <1>7 DEF Q!Next

\* No step, of the login or of the parts beside it, breaks the invariant.
LEMMA LoginStep == LoginInv /\ [LiveNext]_liveVars => LoginInv'
<1> SUFFICES ASSUME LoginInv, [LiveNext]_liveVars PROVE LoginInv'
  OBVIOUS
<1>1. CASE UNCHANGED qrLoginVars
  BY <1>1 DEF LoginInv, InUse, OwnCode, OwnHost, PendingTypes, RetryAfterRejection,
              Q!RetryAfterRejection, qrLoginVars
<1>2. CASE Q!Next
  BY <1>2, LoginKeeps
<1> QED BY <1>1, <1>2 DEF LiveNext, liveVars

\* The invariant of the login.
LEMMA LoginInvariant == LiveSpec => []LoginInv
<1>1. LiveInit => LoginInv
  BY LoginInit DEF LiveInit
<1> QED BY <1>1, LoginStep, PTL DEF LiveSpec

\* A QR code is polled with no pairing code but one that was entered for it, and
\* at no host but the one its own poll was redirected to, however many codes a
\* login goes through (the loops of authenticator.ts, login).
THEOREM OwnCodeAndHost == LiveSpec => []PollsThisQr
<1>1. LoginInv => PollsThisQr
  BY DEF LoginInv, InUse, OwnCode, OwnHost, PollsThisQr, Q!PollsThisQr, Q!NoCode
<1> QED BY <1>1, LoginInvariant, PTL

\* The user is asked for a pairing code "again" only when the last one entered for
\* this QR code was wrong and the server has counted it, or it was empty and was
\* never sent (isRetry in authenticator.ts, pollQrStatus in api.ts).
THEOREM RetryMeansRejected == LiveSpec => []RetryAfterRejection
<1>1. LoginInv => RetryAfterRejection
  BY DEF LoginInv
<1> QED BY <1>1, LoginInvariant, PTL

-----------------------------------------------------------------------------
(***************************************************************************)
(* A call of reply() or send(), of a content that is given.                *)
(***************************************************************************)
StepRecord == [do : {"download", "getuploadurl", "cdn", "sendmessage"}, items : Seq(Nat)]
Downloads == IF content.remote THEN 1 ELSE 0

PlanLength ==
  CASE content.kind = "text" -> content.text
    [] content.kind = "image" -> Downloads + 3
    [] OTHER -> Downloads + content.text + 3

\* How much of the content the user has when the messages of the first k steps
\* have arrived.
Amount(k) ==
  CASE content.kind = "text" -> k
    [] content.kind = "image" -> IF k < PlanLength THEN 0 ELSE content.text + 1
    [] OTHER -> IF k <= Downloads THEN 0
                ELSE IF k <= Downloads + content.text THEN k - Downloads
                ELSE IF k < PlanLength THEN content.text ELSE content.text + 1

\* A message adds the next part of the content, and nothing else does.
Adds(k) ==
  IF D!Sends(D!Steps[k])
    THEN SubSeq(D!Wanted, 1, Amount(k - 1)) \o D!Steps[k].items = SubSeq(D!Wanted, 1, Amount(k))
    ELSE Amount(k) = Amount(k - 1)

-----------------------------------------------------------------------------
\* The parts of a plan.
LEMMA RequestType == ASSUME NEW r \in {"download", "getuploadurl", "cdn"}
                     PROVE  D!Ask(r) \in StepRecord /\ ~D!Sends(D!Ask(r))
  BY DEF D!Ask, D!Sends, StepRecord

\* A message is a step of the plan.
LEMMA PostType == ASSUME NEW items \in Seq(Nat)
                  PROVE  /\ D!Post(items) \in StepRecord /\ D!Sends(D!Post(items))
                         /\ D!Post(items).items = items
  BY DEF D!Post, D!Sends, StepRecord

\* The plan of a remote file begins with its download.
LEMMA DownloadShape ==
  ASSUME content.remote \in BOOLEAN
  PROVE  /\ D!Download(content.remote) \in Seq(StepRecord)
         /\ Len(D!Download(content.remote)) = Downloads /\ Downloads \in 0..1
         /\ \A i \in 1..Downloads : ~D!Sends(D!Download(content.remote)[i])
<1>1. D!Ask("download") \in StepRecord /\ ~D!Sends(D!Ask("download"))
  BY RequestType
<1>2. CASE content.remote
  BY <1>1, <1>2 DEF D!Download, Downloads
<1>3. CASE ~content.remote
  BY <1>3 DEF D!Download, Downloads
<1> QED BY <1>2, <1>3

\* The plan of a text: a message per chunk.
LEMMA TextShape ==
  ASSUME NEW n \in Nat
  PROVE  /\ D!SendText(n) \in Seq(StepRecord) /\ Len(D!SendText(n)) = n
         /\ \A i \in 1..n : D!Sends(D!SendText(n)[i]) /\ D!SendText(n)[i].items = <<i>>
<1>1. \A i \in 1..n : <<i>> \in Seq(Nat)
  OBVIOUS
<1>2. \A i \in 1..n : /\ D!Post(<<i>>) \in StepRecord /\ D!Sends(D!Post(<<i>>))
                      /\ D!Post(<<i>>).items = <<i>>
  BY <1>1, PostType
<1>3. D!SendText(n) \in [1..n -> StepRecord]
  BY <1>2 DEF D!SendText
<1> QED BY <1>2, <1>3 DEF D!SendText

\* The chunks' numbers, as a sequence.
LEMMA NumbersShape ==
  ASSUME NEW n \in Nat
  PROVE  /\ [i \in 1..n |-> i] \in Seq(Nat) /\ Len([i \in 1..n |-> i]) = n
  OBVIOUS

\* The items of a message with media.
LEMMA ItemsShape ==
  ASSUME NEW n \in Nat
  PROVE  /\ D!MessageItems(n) \in Seq(Nat) /\ Len(D!MessageItems(n)) = n + 1
         /\ \A i \in 1..n : D!MessageItems(n)[i] = i
         /\ D!MessageItems(n)[n + 1] = D!Media
<1> DEFINE a == [i \in 1..n |-> i]
           b == <<D!Media>>
<1>1. a \in Seq(Nat) /\ Len(a) = n /\ \A i \in 1..n : a[i] = i
  BY NumbersShape
<1>2. b \in Seq(Nat) /\ Len(b) = 1 /\ b[1] = D!Media
  BY DEF D!Media
<1>3. D!MessageItems(n) = a \o b
  BY DEF D!MessageItems
<1> HIDE DEF a, b
<1>4. /\ a \o b \in Seq(Nat) /\ Len(a \o b) = Len(a) + Len(b)
      /\ \A i \in 1..(Len(a) + Len(b)) : (a \o b)[i] = IF i <= Len(a) THEN a[i] ELSE b[i - Len(a)]
  BY <1>1, <1>2, ConcatProperties
<1> QED BY <1>1, <1>2, <1>3, <1>4

\* The plan of a medium: two transfers and a message.
LEMMA MediaShape ==
  ASSUME NEW n \in Nat
  PROVE  /\ D!SendMedia(n) \in Seq(StepRecord) /\ Len(D!SendMedia(n)) = 3
         /\ \A i \in 1..2 : ~D!Sends(D!SendMedia(n)[i])
         /\ D!Sends(D!SendMedia(n)[3]) /\ D!SendMedia(n)[3].items = D!MessageItems(n)
<1> DEFINE a == D!UploadSteps
           b == <<D!Post(D!MessageItems(n))>>
<1>1. a \in Seq(StepRecord) /\ Len(a) = 2 /\ \A i \in 1..2 : ~D!Sends(a[i])
  <2>1. /\ D!Ask("getuploadurl") \in StepRecord /\ ~D!Sends(D!Ask("getuploadurl"))
        /\ D!Ask("cdn") \in StepRecord /\ ~D!Sends(D!Ask("cdn"))
    BY RequestType
  <2> QED BY <2>1 DEF D!UploadSteps
<1>2. b \in Seq(StepRecord) /\ Len(b) = 1 /\ D!Sends(b[1]) /\ b[1].items = D!MessageItems(n)
  BY PostType, ItemsShape
<1>3. D!SendMedia(n) = a \o b
  BY DEF D!SendMedia
<1> HIDE DEF a, b
<1>4. /\ a \o b \in Seq(StepRecord) /\ Len(a \o b) = Len(a) + Len(b)
      /\ \A i \in 1..(Len(a) + Len(b)) : (a \o b)[i] = IF i <= Len(a) THEN a[i] ELSE b[i - Len(a)]
  BY <1>1, <1>2, ConcatProperties
<1> QED BY <1>1, <1>2, <1>3, <1>4

-----------------------------------------------------------------------------
\* What a plan is, and what its messages add up to, for each kind of content.
Adding ==
  /\ Len(D!Steps) = PlanLength /\ PlanLength \in Nat
  /\ D!Wanted \in Seq(Nat)
  /\ Amount(0) = 0 /\ Amount(PlanLength) = Len(D!Wanted)
  /\ \A k \in 1..PlanLength : Adds(k) /\ Amount(k) \in 0..Len(D!Wanted)

TypedContent ==
  /\ content.kind \in {"text", "image", "file"} /\ content.text \in Nat
  /\ content.remote \in BOOLEAN /\ (content.kind = "text" => content.remote = FALSE)

\* What a call may be asked to send.
LEMMA ContentType ==
  ASSUME Chunks \in Nat, content \in D!SendContent
  PROVE  TypedContent
<1> USE DEF TypedContent
<1>1. CASE content \in [kind : {"text"}, text : 0..Chunks, remote : {FALSE}]
  <2>1. content.kind = "text" /\ content.text \in 0..Chunks
    BY <1>1
  <2>2. content.remote = FALSE
    BY <1>1
  <2>3. content.kind \in {"text", "image", "file"} /\ content.text \in Nat
    BY <2>1
  <2> QED BY <2>2, <2>3, Zenon
<1>2. CASE content \in [kind : {"image", "file"}, text : 0..Chunks, remote : BOOLEAN]
  <2>1. content.kind \in {"image", "file"} /\ content.text \in 0..Chunks
    BY <1>2
  <2>2. content.remote \in BOOLEAN
    BY <1>2
  <2> QED BY <2>1, <2>2
<1> QED BY <1>1, <1>2 DEF D!SendContent, D!MediaKinds

\* What the user is to see.
LEMMA WantedShape ==
  ASSUME content.text \in Nat
  PROVE  /\ D!Wanted \in Seq(Nat)
         /\ Len(D!Wanted) = content.text + (IF content.kind = "text" THEN 0 ELSE 1)
         /\ \A i \in 1..content.text : D!Wanted[i] = i
         /\ content.kind # "text" => D!Wanted = D!MessageItems(content.text)
<1>1. CASE content.kind = "text"
  <2> DEFINE a == [i \in 1..content.text |-> i]
  <2>1. a \in Seq(Nat) /\ Len(a) = content.text /\ \A i \in 1..content.text : a[i] = i
    BY NumbersShape
  <2>2. D!Wanted = a \o << >>
    BY <1>1 DEF D!Wanted
  <2> HIDE DEF a
  <2>3. a \o << >> = a
    BY <2>1, ConcatEmptySeq
  <2> QED BY <1>1, <2>1, <2>2, <2>3
<1>2. CASE content.kind # "text"
  <2>1. D!Wanted = D!MessageItems(content.text)
    BY <1>2 DEF D!Wanted, D!MessageItems
  <2> QED BY <1>2, <2>1, ItemsShape
<1> QED BY <1>1, <1>2

\* A beginning of the content, and one item more.
LEMMA OneMore ==
  ASSUME NEW w \in Seq(Nat), NEW k \in 1..Len(w)
  PROVE  SubSeq(w, 1, k - 1) \o <<w[k]>> = SubSeq(w, 1, k)
<1>1. 1 \in 1..Len(w) /\ k \in 1..Len(w)
  OBVIOUS
<1> QED BY <1>1, SubSeqRecursiveSecond

\* What each step adds to what the user sees: of the plan of a text,
LEMMA TextAdds ==
  ASSUME Chunks \in Nat, content \in D!SendContent, content.kind = "text" PROVE Adding
<1>1. content.text \in Nat /\ content.remote = FALSE
  BY ContentType DEF TypedContent
<1>2. D!Steps = << >> \o D!SendText(content.text)
  BY <1>1 DEF D!Steps, D!Plan, D!Download
<1>3. D!Steps = D!SendText(content.text)
  BY <1>1, <1>2, TextShape, ConcatEmptySeq
<1>4. /\ Len(D!Steps) = PlanLength /\ PlanLength = content.text
      /\ \A k \in 1..PlanLength : D!Sends(D!Steps[k]) /\ D!Steps[k].items = <<k>>
  BY <1>1, <1>3, TextShape DEF PlanLength
<1>5. /\ D!Wanted \in Seq(Nat) /\ Len(D!Wanted) = content.text
      /\ \A k \in 1..PlanLength : D!Wanted[k] = k
  BY <1>1, <1>4, WantedShape
<1>6. \A k : Amount(k) = k
  BY DEF Amount
<1>7. ASSUME NEW k \in 1..PlanLength PROVE Adds(k)
  BY <1>4, <1>5, <1>6, OneMore DEF Adds
<1> QED BY <1>1, <1>4, <1>5, <1>6, <1>7 DEF Adding

\* of an image or a video,
LEMMA ImageAdds ==
  ASSUME Chunks \in Nat, content \in D!SendContent, content.kind = "image" PROVE Adding
<1> DEFINE a == D!Download(content.remote)
           b == D!SendMedia(content.text)
<1>1. content.text \in Nat /\ content.remote \in BOOLEAN
  BY ContentType DEF TypedContent
<1>2. /\ a \in Seq(StepRecord) /\ Len(a) = Downloads /\ Downloads \in 0..1
      /\ \A i \in 1..Downloads : ~D!Sends(a[i])
  BY <1>1, DownloadShape
<1>3. /\ b \in Seq(StepRecord) /\ Len(b) = 3 /\ \A i \in 1..2 : ~D!Sends(b[i])
      /\ D!Sends(b[3]) /\ b[3].items = D!MessageItems(content.text)
  BY <1>1, MediaShape
<1>4. D!Steps = a \o b
  BY DEF D!Steps, D!Plan
<1> HIDE DEF a, b
<1>5. /\ Len(a \o b) = Len(a) + Len(b)
      /\ \A i \in 1..(Len(a) + Len(b)) : (a \o b)[i] = IF i <= Len(a) THEN a[i] ELSE b[i - Len(a)]
  BY <1>2, <1>3, ConcatProperties
<1>6. PlanLength = Downloads + 3 /\ Len(D!Steps) = PlanLength
  BY <1>2, <1>3, <1>4, <1>5 DEF PlanLength
<1>7. /\ \A k \in 1..(PlanLength - 1) : ~D!Sends(D!Steps[k])
      /\ D!Sends(D!Steps[PlanLength]) /\ D!Steps[PlanLength].items = D!MessageItems(content.text)
  BY <1>2, <1>3, <1>4, <1>5, <1>6
<1>8. /\ D!Wanted \in Seq(Nat) /\ Len(D!Wanted) = content.text + 1
      /\ D!Wanted = D!MessageItems(content.text)
  BY <1>1, WantedShape
<1>9. \A k : Amount(k) = IF k < PlanLength THEN 0 ELSE content.text + 1
  BY DEF Amount
<1>10. ASSUME NEW k \in 1..PlanLength PROVE Adds(k)
  <2>1. CASE k < PlanLength
    BY <1>2, <1>6, <1>7, <1>9, <2>1 DEF Adds
  <2>2. CASE k = PlanLength
    <3>1. SubSeq(D!Wanted, 1, 0) \o D!Wanted = D!Wanted
      BY <1>8, SubSeqEmpty, ConcatEmptySeq
    <3>2. SubSeq(D!Wanted, 1, Len(D!Wanted)) = D!Wanted
      BY <1>8, SubSeqFull
    <3>3. Amount(k - 1) = 0 /\ Amount(k) = Len(D!Wanted)
      BY <1>2, <1>6, <1>8, <1>9, <2>2
    <3>4. D!Sends(D!Steps[k]) /\ D!Steps[k].items = D!Wanted
      BY <1>7, <1>8, <2>2
    <3> QED BY <3>1, <3>2, <3>3, <3>4 DEF Adds
  <2> QED BY <1>2, <1>6, <2>1, <2>2
<1>11. /\ Amount(0) = 0 /\ Amount(PlanLength) = Len(D!Wanted) /\ PlanLength \in Nat
       /\ \A k \in 1..PlanLength : Amount(k) \in 0..Len(D!Wanted)
  BY <1>1, <1>2, <1>6, <1>8, <1>9
<1> QED BY <1>6, <1>8, <1>10, <1>11 DEF Adding

\* and of another file.
LEMMA FileAdds ==
  ASSUME Chunks \in Nat, content \in D!SendContent, content.kind = "file" PROVE Adding
<1> DEFINE n == content.text
           a == D!Download(content.remote)
           b == D!SendText(content.text)
           c == D!SendMedia(0)
<1>1. n \in Nat /\ content.remote \in BOOLEAN
  BY ContentType DEF TypedContent
<1>2. /\ a \in Seq(StepRecord) /\ Len(a) = Downloads /\ Downloads \in 0..1
      /\ \A i \in 1..Downloads : ~D!Sends(a[i])
  BY <1>1, DownloadShape
<1>3. /\ b \in Seq(StepRecord) /\ Len(b) = n
      /\ \A i \in 1..n : D!Sends(b[i]) /\ b[i].items = <<i>>
  BY <1>1, TextShape
<1>4. /\ c \in Seq(StepRecord) /\ Len(c) = 3 /\ \A i \in 1..2 : ~D!Sends(c[i])
      /\ D!Sends(c[3]) /\ c[3].items = D!MessageItems(0)
  BY MediaShape
<1>5. D!Steps = a \o (b \o c)
  BY DEF D!Steps, D!Plan
<1>6. /\ \A k : Amount(k) = IF k <= Downloads THEN 0
                              ELSE IF k <= Downloads + n THEN k - Downloads
                              ELSE IF k < PlanLength THEN n ELSE n + 1
      /\ PlanLength = Downloads + n + 3
  BY DEF Amount, PlanLength
<1>7. /\ D!Wanted \in Seq(Nat) /\ Len(D!Wanted) = n + 1
      /\ \A i \in 1..n : D!Wanted[i] = i
      /\ D!Wanted[n + 1] = D!Media
  BY <1>1, WantedShape, ItemsShape
<1> HIDE DEF a, b, c, n
<1>8. b \in Seq(StepRecord) /\ c \in Seq(StepRecord) /\ Len(b) = n /\ Len(c) = 3
  BY <1>3, <1>4
<1>9. /\ b \o c \in Seq(StepRecord) /\ Len(b \o c) = Len(b) + Len(c)
      /\ \A i \in 1..(Len(b) + Len(c)) : (b \o c)[i] = IF i <= Len(b) THEN b[i] ELSE c[i - Len(b)]
  BY <1>8, ConcatProperties
<1> DEFINE d == b \o c
<1> HIDE DEF d
<1>10. /\ d \in Seq(StepRecord) /\ Len(d) = n + 3
       /\ \A i \in 1..n : D!Sends(d[i]) /\ d[i].items = <<i>>
       /\ ~D!Sends(d[n + 1]) /\ ~D!Sends(d[n + 2])
       /\ D!Sends(d[n + 3]) /\ d[n + 3].items = D!MessageItems(0)
  <2>1. /\ d \in Seq(StepRecord) /\ Len(d) = n + 3
        /\ \A i \in 1..(n + 3) : d[i] = IF i <= n THEN b[i] ELSE c[i - n]
    BY <1>8, <1>9 DEF d
  <2>2. \A i \in 1..n : d[i] = b[i]
    BY <1>1, <2>1
  <2>3. d[n + 1] = c[1] /\ d[n + 2] = c[2] /\ d[n + 3] = c[3]
    BY <1>1, <2>1
  <2>4. ~D!Sends(c[1]) /\ ~D!Sends(c[2])
    BY <1>4
  <2> QED BY <1>3, <1>4, <2>1, <2>2, <2>3, <2>4
<1>11. /\ Len(a \o d) = Len(a) + Len(d)
       /\ \A i \in 1..(Len(a) + Len(d)) : (a \o d)[i] = IF i <= Len(a) THEN a[i] ELSE d[i - Len(a)]
  BY <1>2, <1>10, ConcatProperties
<1>12. PlanLength = Downloads + n + 3 /\ Len(D!Steps) = PlanLength
  BY <1>1, <1>2, <1>5, <1>6, <1>10, <1>11 DEF d
<1>13. \A k \in 1..PlanLength : D!Steps[k] = IF k <= Downloads THEN a[k] ELSE d[k - Downloads]
  BY <1>1, <1>2, <1>5, <1>10, <1>11, <1>12 DEF d
<1>14. D!MessageItems(0) = <<D!Media>>
  <2>1. /\ D!MessageItems(0) \in Seq(Nat) /\ Len(D!MessageItems(0)) = 0 + 1
        /\ D!MessageItems(0)[0 + 1] = D!Media
    <3>1. 0 \in Nat
      OBVIOUS
    <3> QED BY <3>1, ItemsShape
  <2> QED BY <2>1
<1> DEFINE s == Downloads
<1>15. n \in Nat /\ s \in 0..1 /\ PlanLength = s + n + 3
  BY <1>1, <1>2, <1>12
<1>16. \A k : Amount(k) = IF k <= s THEN 0
                           ELSE IF k <= s + n THEN k - s
                           ELSE IF k < PlanLength THEN n ELSE n + 1
  BY <1>6
<1> HIDE DEF s
<1>17. \A k \in 1..s : ~D!Sends(D!Steps[k])
  BY <1>2, <1>13, <1>15 DEF s
<1>18. \A k \in (s + 1)..PlanLength : D!Steps[k] = d[k - s]
  BY <1>13, <1>15 DEF s
<1>19. ASSUME NEW k \in 1..PlanLength PROVE Adds(k)
  <2>1. CASE k <= s
    BY <1>15, <1>16, <1>17, <2>1 DEF Adds
  <2>2. CASE k \in (s + 1)..(s + n)
    <3> DEFINE i == k - s
    <3>1. i \in 1..n /\ k \in (s + 1)..PlanLength
      BY <1>15, <2>2
    <3>2. i \in 1..Len(D!Wanted) /\ D!Wanted[i] = i
      BY <1>7, <1>15, <3>1
    <3>3. D!Sends(D!Steps[k]) /\ D!Steps[k].items = <<i>>
      BY <1>10, <1>18, <3>1
    <3>4. Amount(k) = i /\ Amount(k - 1) = i - 1
      BY <1>15, <1>16, <2>2
    <3>5. SubSeq(D!Wanted, 1, i - 1) \o <<D!Wanted[i]>> = SubSeq(D!Wanted, 1, i)
      BY <1>7, <3>2, OneMore
    <3> HIDE DEF i
    <3> QED BY <3>2, <3>3, <3>4, <3>5 DEF Adds
  <2>3. CASE k \in {s + n + 1, s + n + 2}
    <3>1. k \in (s + 1)..PlanLength /\ k - s \in {n + 1, n + 2}
      BY <1>15, <2>3
    <3>2. ~D!Sends(D!Steps[k])
      BY <1>10, <1>18, <3>1
    <3>3. Amount(k) = n /\ Amount(k - 1) = n
      BY <1>15, <1>16, <2>3
    <3> QED BY <3>2, <3>3 DEF Adds
  <2>4. CASE k = PlanLength
    <3>1. k \in (s + 1)..PlanLength /\ k - s = n + 3
      BY <1>15, <2>4
    <3>2. D!Sends(D!Steps[k]) /\ D!Steps[k].items = <<D!Media>>
      BY <1>10, <1>14, <1>18, <3>1
    <3>3. Amount(k) = n + 1 /\ Amount(k - 1) = n
      BY <1>15, <1>16, <2>4
    <3>4. n + 1 \in 1..Len(D!Wanted) /\ (n + 1) - 1 = n
      BY <1>7, <1>15
    <3>5. SubSeq(D!Wanted, 1, n) \o <<D!Wanted[n + 1]>> = SubSeq(D!Wanted, 1, n + 1)
      BY <1>7, <3>4, OneMore
    <3> QED BY <1>7, <3>2, <3>3, <3>5 DEF Adds
  <2>5. k <= s \/ k \in (s + 1)..(s + n)
          \/ k \in {s + n + 1, s + n + 2} \/ k = PlanLength
    BY <1>15
  <2> QED BY <2>1, <2>2, <2>3, <2>4, <2>5
<1>20. /\ Amount(0) = 0 /\ Amount(PlanLength) = Len(D!Wanted) /\ PlanLength \in Nat
       /\ \A k \in 1..PlanLength : Amount(k) \in 0..Len(D!Wanted)
  BY <1>7, <1>15, <1>16
<1> QED BY <1>7, <1>12, <1>19, <1>20 DEF Adding

\* The messages of a plan add up to the content.
LEMMA PlanAdds == ASSUME Chunks \in Nat, content \in D!SendContent PROVE Adding
  BY ContentType, TextAdds, ImageAdds, FileAdds DEF TypedContent

-----------------------------------------------------------------------------
\* The call has sent what comes before its step, and nothing of what comes after
\* it; the user has what has arrived.
Arrived(k) == <<k, 0>> \in received
OfStep(message, k) ==
  D!Sends(D!Steps[k]) /\ message = [items |-> D!Steps[k].items, client_id |-> <<k, 0>>]
ShownIs == shown = SubSeq(D!Wanted, 1, IF Arrived(at) THEN Amount(at) ELSE Amount(at - 1))

NotBegun ==
  /\ received = {} /\ shown = << >> /\ late = {} /\ outcome # "sent"
  /\ content # D!None => content \in D!SendContent /\ outcome # "none"

UnderWay ==
  /\ content \in D!SendContent /\ at \in 1..PlanLength
  /\ \A k \in 1..(at - 1) : D!Sends(D!Steps[k]) => Arrived(k)
  /\ \A k \in Nat : Arrived(k) => k <= at
  /\ \A r \in late : \E k \in 1..at : OfStep(r.message, k)
  /\ ShownIs
  /\ outcome = "sent" => at = PlanLength /\ (D!Sends(D!Steps[at]) => Arrived(at))

DeliveryInv ==
  /\ content = D!None => at = 0
  /\ at = 0 => NotBegun
  /\ at # 0 => UnderWay

\* Nothing is sent before the call.
LEMMA DeliveryInit == D!Init => DeliveryInv
  BY DEF D!Init, DeliveryInv, NotBegun

\* The call begins its plan.
LEMMA CallKeeps ==
  ASSUME Chunks \in Nat, DeliveryInv, NEW c \in D!SendContent, NEW t \in BOOLEAN, D!Call(c, t)
  PROVE  DeliveryInv'
<1>1. content = D!None /\ at = 0 /\ NotBegun
  BY DEF D!Call, DeliveryInv
<1>2. content' \in D!SendContent /\ UNCHANGED <<late, received, shown>>
  BY DEF D!Call, D!serverVars
<1>3. Adding' /\ TypedContent'
  <2>1. (Chunks \in Nat /\ content \in D!SendContent => Adding)'
    BY PlanAdds, PTL
  <2>2. (Chunks \in Nat /\ content \in D!SendContent => TypedContent)'
    BY ContentType, PTL
  <2> QED BY <1>2, <2>1, <2>2
<1>4. CASE c.kind = "text" /\ (c.text = 0 \/ ~t)
  <2>1. outcome' = "failed" /\ at' = at
    BY <1>4 DEF D!Call, D!Fail
  <2> QED BY <1>1, <1>2, <1>3, <2>1 DEF DeliveryInv, NotBegun, TypedContent, D!None
<1>5. CASE ~(c.kind = "text" /\ (c.text = 0 \/ ~t))
  <2>1. at' = 1 /\ outcome' = outcome /\ content' = c
    BY <1>5 DEF D!Call
  <2>2. (PlanLength >= 1 /\ Adding)'
    <3>1. (content.text \in Nat /\ Downloads \in 0..1)'
      BY <1>3 DEF TypedContent, Downloads
    <3>2. (content.kind = "text" => content.text # 0)'
      BY <1>5, <2>1
    <3> QED BY <1>3, <3>1, <3>2 DEF PlanLength
  <2>3. ShownIs'
    <3>1. (Arrived(at) = FALSE)'
      BY <1>1, <1>2 DEF Arrived, NotBegun
    <3>2. (Amount(at - 1) = 0)'
      BY <2>1, <2>2 DEF Adding
    <3>3. (SubSeq(D!Wanted, 1, 0) = << >>)'
      BY SubSeqEmpty
    <3> QED BY <1>1, <1>2, <3>1, <3>2, <3>3 DEF ShownIs, NotBegun
  <2>4. UnderWay'
    BY <1>1, <1>2, <2>1, <2>2, <2>3 DEF UnderWay, NotBegun, Arrived, Adding
  <2> QED BY <1>3, <2>1, <2>4 DEF DeliveryInv, TypedContent, D!None
<1> QED BY <1>4, <1>5

\* A plan depends on the content only.
LEMMA SamePlan ==
  ASSUME content' = content
  PROVE  /\ D!Wanted' = D!Wanted /\ D!Steps' = D!Steps /\ PlanLength' = PlanLength
         /\ \A k : Amount(k)' = Amount(k)
         /\ \A m, k : OfStep(m, k)' <=> OfStep(m, k)
<1>1. D!Wanted' = D!Wanted /\ D!Steps' = D!Steps /\ PlanLength' = PlanLength
      /\ Downloads' = Downloads
  BY DEF D!Wanted, D!Steps, PlanLength, Downloads
<1>2. ASSUME NEW k PROVE Amount(k)' = Amount(k)
  BY <1>1 DEF Amount
<1>3. ASSUME NEW m, NEW k PROVE OfStep(m, k)' <=> OfStep(m, k)
  BY <1>1 DEF OfStep
<1> QED BY <1>1, <1>2, <1>3

\* What is shown after a step of the same call is the beginning up to its step.
LEMMA SameShown ==
  ASSUME content' = content, at' = at,
         shown' = SubSeq(D!Wanted, 1, IF <<at, 0>> \in received' THEN Amount(at)
                                                                ELSE Amount(at - 1))
  PROVE  ShownIs'
<1>1. D!Wanted' = D!Wanted
  BY DEF D!Wanted
<1>2. Amount(at)' = Amount(at) /\ Amount(at - 1)' = Amount(at - 1)
  BY DEF Amount, PlanLength, Downloads
<1>3. Arrived(at)' <=> <<at, 0>> \in received'
  BY DEF Arrived
<1> QED BY <1>1, <1>2, <1>3 DEF ShownIs

\* The server accepts a message of this step or of an earlier one: the user has
\* got it already, or it is the next part of the content.
LEMMA AcceptShows ==
  ASSUME Adding, UnderWay, NEW k \in 1..at, NEW m, OfStep(m, k), D!Accept(m)
  PROVE  /\ received' = received \cup {<<k, 0>>}
         /\ shown' = SubSeq(D!Wanted, 1, IF <<at, 0>> \in received' THEN Amount(at)
                                                                   ELSE Amount(at - 1))
<1>1. /\ m.client_id = <<k, 0>> /\ m.items = D!Steps[k].items /\ D!Sends(D!Steps[k])
  BY DEF OfStep
<1>2. received' = received \cup {<<k, 0>>}
  BY <1>1 DEF D!Accept
<1>3. at \in 1..PlanLength /\ PlanLength \in Nat
  BY DEF UnderWay, Adding
<1>4. CASE k < at \/ Arrived(at)
  <2>1. Arrived(k)
    <3>1. CASE k < at
      <4>1. k \in 1..(at - 1)
        BY <1>3, <3>1
      <4> QED BY <1>1, <4>1 DEF UnderWay
    <3>2. CASE Arrived(at) /\ ~(k < at)
      <4>1. k = at
        BY <1>3, <3>2
      <4> QED BY <3>2, <4>1
    <3> QED BY <1>4, <3>1, <3>2
  <2>2. shown' = shown /\ received' = received
    BY <1>1, <1>2, <2>1 DEF D!Accept, Arrived
  <2> QED BY <1>2, <2>2 DEF UnderWay, ShownIs, Arrived
<1>5. CASE k = at /\ ~Arrived(at)
  <2>1. shown' = SubSeq(D!Wanted, 1, Amount(at - 1)) \o D!Steps[at].items
    BY <1>1, <1>5 DEF D!Accept, UnderWay, ShownIs, Arrived
  <2>2. shown' = SubSeq(D!Wanted, 1, Amount(at))
    BY <1>1, <1>3, <1>5, <2>1 DEF Adding, Adds
  <2> QED BY <1>2, <1>5, <2>2
<1>6. k < at \/ k = at
  BY <1>3
<1> QED BY <1>2, <1>4, <1>5, <1>6

\* What the server has got of the step, whatever the caller learns.
Sofar ==
  /\ received \subseteq received'
  /\ \A k \in Nat : <<k, 0>> \in received' => k <= at
  /\ shown' = SubSeq(D!Wanted, 1, IF <<at, 0>> \in received' THEN Amount(at)
                                                            ELSE Amount(at - 1))

\* A request that is accepted, dropped as known, or not taken keeps what is shown
\* a beginning.
LEMMA ServerKeeps ==
  ASSUME Adding, UnderWay, (D!Sends(D!Step) /\ D!Taken) \/ D!NotTaken
  PROVE  Sofar /\ (D!Taken /\ D!Sends(D!Step) => <<at, 0>> \in received')
<1>1. at \in 1..PlanLength /\ PlanLength \in Nat
  BY DEF UnderWay, Adding
<1>2. ASSUME D!Sends(D!Step), D!Taken PROVE Sofar /\ <<at, 0>> \in received'
  <2>1. at \in 1..at
    BY <1>1
  <2>2. OfStep(D!Message, at) /\ D!Accept(D!Message)
    BY <1>2 DEF OfStep, D!Message, D!ClientId, D!Step, D!Taken
  <2>3. /\ received' = received \cup {<<at, 0>>}
        /\ shown' = SubSeq(D!Wanted, 1, IF <<at, 0>> \in received' THEN Amount(at)
                                                                  ELSE Amount(at - 1))
    BY <2>1, <2>2, AcceptShows
  <2>4. ASSUME NEW k \in Nat, <<k, 0>> \in received' PROVE k <= at
    <3>1. CASE Arrived(k)
      BY <3>1 DEF UnderWay
    <3>2. CASE k = at
      BY <1>1, <3>2
    <3> QED BY <2>3, <2>4, <3>1, <3>2 DEF Arrived
  <2> QED BY <2>3, <2>4 DEF Sofar
<1>3. ASSUME D!NotTaken PROVE Sofar
  BY <1>3 DEF D!NotTaken, D!serverVars, Sofar, UnderWay, ShownIs, Arrived
<1> QED BY <1>2, <1>3

\* A step that is tried again, or given up.
LEMMA StaysKeeps ==
  ASSUME Adding, UnderWay, Sofar, content' = content, at' = at, outcome' # "sent",
         \A r \in late' : \E k \in 1..at : OfStep(r.message, k)
  PROVE  UnderWay'
<1>1. ShownIs'
  BY SameShown DEF Sofar
<1>2. \A k \in 1..(at - 1) : D!Sends(D!Steps[k]) => <<k, 0>> \in received'
  BY DEF UnderWay, Sofar, Arrived
<1>3. \A r \in late' : \E k \in 1..at : OfStep(r.message, k)'
  BY SamePlan
<1> QED BY <1>1, <1>2, <1>3, SamePlan DEF UnderWay, Sofar, Arrived

\* A step that is over: its message has arrived.
LEMMA AdvanceKeeps ==
  ASSUME Adding, UnderWay, Sofar, content' = content, late' = late, D!NextStep, outcome # "sent",
         D!Sends(D!Steps[at]) => <<at, 0>> \in received'
  PROVE  UnderWay'
<1>1. at \in 1..PlanLength /\ PlanLength \in Nat /\ Len(D!Steps) = PlanLength
  BY DEF UnderWay, Adding
<1>2. \A k \in 1..at : D!Sends(D!Steps[k]) => <<k, 0>> \in received'
  BY <1>1 DEF UnderWay, Sofar, Arrived
<1>3. shown' = SubSeq(D!Wanted, 1, Amount(at))
  <2>1. CASE <<at, 0>> \in received'
    BY <2>1 DEF Sofar
  <2>2. CASE <<at, 0>> \notin received'
    BY <1>1, <2>2 DEF Sofar, Adding, Adds
  <2> QED BY <2>1, <2>2
<1>4. CASE at < PlanLength
  <2>1. at' = at + 1 /\ outcome' = outcome
    BY <1>1, <1>4 DEF D!NextStep
  <2>2. at + 1 \in 1..PlanLength /\ (at + 1) - 1 = at /\ at + 1 \in Nat /\ ~(at + 1 <= at)
    BY <1>1, <1>4
  <2>3. <<at + 1, 0>> \notin received'
    BY <2>2 DEF Sofar
  <2>4. ShownIs'
    BY <1>3, <2>1, <2>2, <2>3, SamePlan DEF ShownIs, Arrived
  <2>5. \A k \in Nat : <<k, 0>> \in received' => k <= at + 1
    BY <1>1 DEF Sofar
  <2>6. \A r \in late' : \E k \in 1..(at + 1) : OfStep(r.message, k)'
    <3>1. \A k \in 1..at : k \in 1..(at + 1)
      BY <1>1
    <3> QED BY <3>1, SamePlan DEF UnderWay
  <2> QED BY <1>2, <2>1, <2>2, <2>4, <2>5, <2>6, SamePlan DEF UnderWay, Arrived
<1>5. CASE at = PlanLength
  <2>1. at' = at /\ outcome' = "sent"
    BY <1>1, <1>5 DEF D!NextStep
  <2>2. ShownIs'
    BY <2>1, SamePlan DEF Sofar, ShownIs, Arrived
  <2>3. \A k \in 1..(at - 1) : D!Sends(D!Steps[k]) => <<k, 0>> \in received'
    BY <1>1, <1>2
  <2>4. \A r \in late' : \E k \in 1..at : OfStep(r.message, k)'
    BY SamePlan DEF UnderWay
  <2> QED BY <1>2, <1>5, <2>1, <2>2, <2>3, <2>4, SamePlan DEF UnderWay, Sofar, Arrived
<1> QED BY <1>1, <1>4, <1>5

\* A late request arrives.
LEMMA ArrivesKeeps == ASSUME Adding, UnderWay, D!Arrives PROVE UnderWay'
<1>1. PICK r \in late : late' = late \ {r} /\ D!Accept(r.message)
                        /\ UNCHANGED <<content, at, tries, outcome>>
  BY DEF D!Arrives
<1>2. PICK k \in 1..at : OfStep(r.message, k)
  BY DEF UnderWay
<1>3. /\ received' = received \cup {<<k, 0>>}
      /\ shown' = SubSeq(D!Wanted, 1, IF <<at, 0>> \in received' THEN Amount(at)
                                                                ELSE Amount(at - 1))
  BY <1>1, <1>2, AcceptShows
<1>4. at \in 1..PlanLength /\ PlanLength \in Nat /\ k <= at
  BY DEF UnderWay, Adding
<1>5. ASSUME NEW j \in Nat, <<j, 0>> \in received' PROVE j <= at
  <2>1. CASE Arrived(j)
    BY <2>1 DEF UnderWay
  <2>2. CASE j = k
    BY <1>4, <2>2
  <2> QED BY <1>3, <1>5, <2>1, <2>2 DEF Arrived
<1>6. ShownIs'
  BY <1>1, <1>3, SameShown
<1>7. \A j \in 1..(at - 1) : D!Sends(D!Steps[j]) => <<j, 0>> \in received'
  BY <1>3 DEF UnderWay, Arrived
<1>8. \A l \in late' : \E j \in 1..at : OfStep(l.message, j)'
  BY <1>1, SamePlan DEF UnderWay
<1>9. outcome' = "sent" => at = PlanLength /\ (D!Sends(D!Steps[at]) => <<at, 0>> \in received')
  BY <1>1, <1>3 DEF UnderWay, Arrived
<1> QED BY <1>1, <1>5, <1>6, <1>7, <1>8, <1>9, SamePlan DEF UnderWay, Arrived

\* The steps of a call that is under way.
LEMMA ProceedKeeps ==
  ASSUME Adding, UnderWay, D!Answered \/ D!Refused \/ D!TimedOut PROVE UnderWay'
<1>1. D!Running /\ outcome = "none" /\ content' = content /\ at \in 1..at
  BY DEF D!Answered, D!Refused, D!TimedOut, D!Running, UnderWay, Adding
<1>2. CASE D!Answered
  <2>1. late' = late /\ D!NextStep /\ (IF D!Sends(D!Step) THEN D!Taken ELSE D!NotTaken)
    BY <1>2 DEF D!Answered
  <2>2. Sofar /\ (D!Sends(D!Steps[at]) => <<at, 0>> \in received')
    BY <2>1, ServerKeeps DEF D!Step
  <2> QED BY <1>1, <2>1, <2>2, AdvanceKeeps
<1>3. CASE D!Refused
  <2>1. late' = late /\ at' = at /\ outcome' = "failed"
    BY <1>3 DEF D!Refused, D!Fail
  <2>2. Sofar
    BY <1>3, ServerKeeps DEF D!Refused
  <2> QED BY <1>1, <2>1, <2>2, StaysKeeps DEF UnderWay
<1>4. CASE D!TimedOut
  <2>1. at' = at /\ outcome' # "sent"
    BY <1>1, <1>4 DEF D!TimedOut, D!Again, D!Fail
  <2>2. Sofar
    BY <1>4, ServerKeeps DEF D!TimedOut
  <2>3. \A r \in late' : \E k \in 1..at : OfStep(r.message, k)
    <3>1. CASE late' = late
      BY <3>1 DEF UnderWay
    <3>2. CASE D!Sends(D!Step) /\ late' = late \cup {[message |-> D!Message, try |-> tries]}
      <4>1. OfStep(D!Message, at)
        BY <3>2 DEF OfStep, D!Message, D!ClientId, D!Step
      <4> QED BY <1>1, <3>2, <4>1 DEF UnderWay
    <3> QED BY <1>4, <3>1, <3>2 DEF D!TimedOut
  <2> QED BY <1>1, <2>1, <2>2, <2>3, StaysKeeps
<1> QED BY <1>2, <1>3, <1>4

\* No step of the call or the network breaks the invariant.
LEMMA DeliveryKeeps == ASSUME Chunks \in Nat, DeliveryInv, D!Next PROVE DeliveryInv'
<1>1. CASE \E c \in D!SendContent, t \in BOOLEAN : D!Call(c, t)
  BY <1>1, CallKeeps
<1>2. CASE D!Answered \/ D!Refused \/ D!TimedOut \/ D!Arrives
  <2>1. at # 0
    BY <1>2 DEF D!Answered, D!Refused, D!TimedOut, D!Arrives, D!Running, DeliveryInv, NotBegun
  <2>2. UnderWay /\ Adding
    BY <2>1, PlanAdds DEF DeliveryInv, UnderWay
  <2>3. UnderWay'
    BY <1>2, <2>2, ProceedKeeps, ArrivesKeeps
  <2>4. content' = content
    BY <1>2 DEF D!Answered, D!Refused, D!TimedOut, D!Arrives
  <2>5. at' # 0
    BY <2>3, <2>4, SamePlan, <2>2 DEF UnderWay, Adding
  <2> QED BY <2>1, <2>3, <2>4, <2>5 DEF DeliveryInv
<1> QED BY <1>1, <1>2 DEF D!Next

\* The invariant of a call.
LEMMA DeliveryInvariant == ASSUME Chunks \in Nat PROVE LiveSpec => []DeliveryInv
<1>1. LiveInit => DeliveryInv
  BY DeliveryInit DEF LiveInit
<1>2. DeliveryInv /\ [LiveNext]_liveVars => DeliveryInv'
  <2> SUFFICES ASSUME DeliveryInv, [LiveNext]_liveVars PROVE DeliveryInv'
    OBVIOUS
  <2>1. CASE UNCHANGED deliveryVars
    <3>1. content' = content /\ UNCHANGED <<at, tries, late, received, shown, outcome>>
      BY <2>1 DEF deliveryVars
    <3> QED BY <3>1, SamePlan DEF DeliveryInv, NotBegun, UnderWay, ShownIs, Arrived
  <2>2. CASE D!Next
    BY <2>2, DeliveryKeeps
  <2> QED BY <2>1, <2>2 DEF LiveNext, liveVars
<1> QED BY <1>1, <1>2, PTL DEF LiveSpec

\* What the invariant says about the user.
LEMMA PrefixOf ==
  ASSUME NEW w \in Seq(Nat), NEW m \in 0..Len(w)
  PROVE  D!IsPrefix(SubSeq(w, 1, m), w)
<1> DEFINE s == SubSeq(w, 1, m)
<1>1. s \in Seq(Nat) /\ Len(s) = m
  BY SubSeqProperties
<1>2. SubSeq(s, 1, Len(s)) = s
  BY <1>1, SubSeqFull
<1> HIDE DEF s
<1>3. D!IsPrefix(s, w)
  <2>1. SubSeq(w, 1, m) = s
    BY DEF s
  <2> QED BY <1>1, <1>2, <2>1 DEF D!IsPrefix
<1> QED BY <1>3 DEF s

\* What the invariant says of the user.
LEMMA InvShows == ASSUME Chunks \in Nat, DeliveryInv PROVE ShownInOrder /\ ReturnMeansAll
<1> USE DEF ShownInOrder, ReturnMeansAll, D!ShownInOrder, D!ReturnMeansAll
<1>1. CASE at = 0
  <2>1. shown = << >> /\ outcome # "sent" /\ (content # D!None => content \in D!SendContent)
    BY <1>1 DEF DeliveryInv, NotBegun
  <2>2. ASSUME content \in D!SendContent PROVE D!IsPrefix(<< >>, D!Wanted)
    <3>1. D!Wanted \in Seq(Nat) /\ 0 \in 0..Len(D!Wanted)
      BY <2>2, PlanAdds DEF Adding
    <3>2. SubSeq(D!Wanted, 1, 0) = << >>
      BY SubSeqEmpty
    <3>3. D!IsPrefix(SubSeq(D!Wanted, 1, 0), D!Wanted)
      BY <3>1, PrefixOf
    <3> QED BY <3>2, <3>3
  <2> QED BY <2>1, <2>2
<1>2. CASE at # 0
  <2>1. UnderWay /\ Adding
    BY <1>2, PlanAdds DEF DeliveryInv, UnderWay
  <2>2. /\ at \in 1..PlanLength /\ D!Wanted \in Seq(Nat)
        /\ Amount(at) \in 0..Len(D!Wanted) /\ Amount(at - 1) \in 0..Len(D!Wanted)
    <3>1. at \in 1..PlanLength /\ PlanLength \in Nat /\ D!Wanted \in Seq(Nat)
      BY <2>1 DEF UnderWay, Adding
    <3>2. CASE at = 1
      BY <2>1, <3>1, <3>2 DEF Adding
    <3>3. CASE at # 1
      <4>1. at - 1 \in 1..PlanLength
        BY <3>1, <3>3
      <4> QED BY <2>1, <3>1, <4>1 DEF Adding
    <3> QED BY <3>2, <3>3
  <2>3. ShownInOrder
    BY <2>1, <2>2, PrefixOf DEF UnderWay, ShownIs
  <2>4. ASSUME outcome = "sent" PROVE shown = D!Wanted
    <3>1. at = PlanLength /\ (D!Sends(D!Steps[at]) => Arrived(at)) /\ Adds(at)
      BY <2>1, <2>2, <2>4 DEF UnderWay, Adding
    <3>2. shown = SubSeq(D!Wanted, 1, Amount(at))
      BY <2>1, <3>1 DEF UnderWay, ShownIs, Adds
    <3>3. Amount(at) = Len(D!Wanted)
      BY <2>1, <3>1 DEF Adding
    <3> QED BY <2>2, <3>2, <3>3, SubSeqFull
  <2> QED BY <2>3, <2>4
<1> QED BY <1>1, <1>2

\* Whatever the network loses, repeats or delays, the user sees a beginning of
\* what reply() or send() was given, in order and nothing twice: the client_id is
\* drawn once for a message and its retries (client.ts, sender.ts, http.ts).
THEOREM ShownIsPrefix == ASSUME Chunks \in Nat PROVE LiveSpec => []ShownInOrder
<1>1. DeliveryInv => ShownInOrder
  BY InvShows
<1> QED BY <1>1, DeliveryInvariant, PTL

\* When reply() or send() returns, the user has all of the content: no chunk and no
\* medium was given up on the way (sendContent of client.ts, request of http.ts).
THEOREM ReturnedIsAll == ASSUME Chunks \in Nat PROVE LiveSpec => []ReturnMeansAll
<1>1. DeliveryInv => ReturnMeansAll
  BY InvShows
<1> QED BY <1>1, DeliveryInvariant, PTL
=============================================================================
