------------------------- MODULE YouTubeUploadProofs -------------------------
(***************************************************************************)
(* What holds of QuotaGuard's bucket for any requests and clock, and of    *)
(* upload() for any calls, chunks, retries and bucket.                     *)
(***************************************************************************)
EXTENDS YouTubeUpload, TLAPS

\* Capacity and refill never take the bucket out of 0 .. Full.
LEMMA RefilledRange ==
    ASSUME GTypeOK
    PROVE  /\ Refilled \in 0 .. Full
           /\ Refilled <= tokens + (clock - last_refill) * MaxPerDay
<1> DEFINE gain == (clock - last_refill) * MaxPerDay
<1>1. MaxPerDay \in Nat /\ Full \in Nat
  BY BucketAssumption DEF Full
<1>2. clock - last_refill \in Nat
  BY DEF GTypeOK, Times
<1>3. gain \in Nat
  BY <1>1, <1>2
<1>4. tokens \in 0 .. Full
  BY DEF GTypeOK
<1> HIDE DEF gain
<1>5. Refilled = IF tokens + gain > Full THEN Full ELSE tokens + gain
  BY DEF Refilled, gain
<1>6. Refilled \in 0 .. Full /\ Refilled <= tokens + gain
  BY <1>1, <1>3, <1>4, <1>5
<1>7. QED
  BY <1>6 DEF gain

LEMMA GTypeStep == GTypeOK /\ [GNext]_gvars => GTypeOK'
<1> SUFFICES ASSUME GTypeOK, [GNext]_gvars PROVE GTypeOK'
  OBVIOUS
<1>1. Refilled \in 0 .. Full /\ Full \in Nat /\ Day \in Nat /\ MaxTime \in Nat
  BY RefilledRange, BucketAssumption DEF Full
<1> USE <1>1 DEF GTypeOK, Times
<1>2. CASE Grant
  BY <1>2 DEF Grant
<1>3. CASE Deny
  BY <1>3 DEF Deny, bucket
<1>4. CASE Remaining
  BY <1>4 DEF Remaining
<1>5. CASE Renew
  BY <1>5 DEF Renew
<1>6. CASE Pass
  BY <1>6 DEF Pass, bucket
<1>7. CASE UNCHANGED gvars
  BY <1>7 DEF gvars, bucket
<1>8. QED
  BY <1>2, <1>3, <1>4, <1>5, <1>6, <1>7 DEF GNext

\* The bucket never holds less than nothing or more than max_per_day, and is
\* never refilled from a future time.
THEOREM GuardTypes == GSpec => []GTypeOK
<1>1. GInit => GTypeOK
  BY BucketAssumption DEF GInit, GTypeOK, Times, Full
<1>2. QED
  BY <1>1, GTypeStep, PTL DEF GSpec
------------------------------------------------------------------------------
\* What makes WindowBound inductive: a token taken since time a and a token
\* still there were both in the bucket at a or refilled since.  Of the windows
\* only those that ended before the last refill need remembering.
Paid(a) == granted[a] * Day + tokens <= Full + (last_refill - a) * MaxPerDay

Bounded(a, b) == Allowed(a, b) * Day <= Full + (b - a) * MaxPerDay

BudgetInv ==
    /\ \A a \in Times : a > last_refill => granted[a] = 0
    /\ \A a \in Times : a <= last_refill => Paid(a)
    /\ \A a, b \in Times : a <= b /\ b < last_refill => Bounded(a, b)

LEMMA Refill ==
    ASSUME NEW i \in Int, NEW j \in Int, i <= j PROVE (j - i) * MaxPerDay \in Nat
<1>1. MaxPerDay \in Nat /\ j - i \in Nat
  BY BucketAssumption
<1>2. \A x, y \in Nat : x * y \in Nat
  OBVIOUS
<1>3. QED
  BY <1>1, <1>2

\* Time passing adds to a budget; the one fact about products used below.
LEMMA Elapsed ==
    ASSUME NEW i \in Int, NEW j \in Int, NEW k \in Int, i <= j, j <= k
    PROVE  /\ (k - i) * MaxPerDay = (j - i) * MaxPerDay + (k - j) * MaxPerDay
           /\ (j - i) * MaxPerDay \in Nat /\ (k - j) * MaxPerDay \in Nat
  BY BucketAssumption, Refill

\* A window that ends at the last refill or later is bounded by what was paid.
LEMMA OpenWindow ==
    ASSUME GTypeOK, BudgetInv, NEW a \in Times, NEW b \in Times, a <= b, last_refill <= b
    PROVE  Bounded(a, b)
<1> DEFINE g == granted[a] * Day
<1>1. a \in Int /\ b \in Int /\ last_refill \in Int /\ MaxTime \in Int /\ b <= MaxTime
  BY BucketAssumption DEF Times, GTypeOK
<1>2. Full \in Nat /\ Day \in Nat /\ granted[a] \in Nat /\ tokens \in Nat
  BY BucketAssumption DEF Full, GTypeOK
<1>3. Allowed(a, b) = granted[a]
  <2>1. b < MaxTime => b + 1 \in Times /\ b + 1 > last_refill
    BY <1>1, BucketAssumption DEF Times
  <2>2. QED
    BY <1>1, <1>2, <2>1 DEF Allowed, BudgetInv
<1>4. CASE a > last_refill
  <2>1. granted[a] = 0
    BY <1>4 DEF BudgetInv
  <2>2. (b - a) * MaxPerDay \in Nat
    BY <1>1, Refill
  <2>3. QED
    BY <1>2, <1>3, <2>1, <2>2 DEF Bounded
<1>5. CASE a <= last_refill
  <2>1. g + tokens <= Full + (last_refill - a) * MaxPerDay
    BY <1>5 DEF BudgetInv, Paid
  <2>2. g \in Nat
    BY <1>2
  <2> HIDE DEF g
  <2>3. (last_refill - a) * MaxPerDay \in Nat /\ (b - a) * MaxPerDay \in Nat
        /\ (last_refill - a) * MaxPerDay <= (b - a) * MaxPerDay
    <3>1. (b - a) * MaxPerDay
              = (last_refill - a) * MaxPerDay + (b - last_refill) * MaxPerDay
      BY <1>1, <1>5, Elapsed
    <3>2. (last_refill - a) * MaxPerDay \in Nat /\ (b - last_refill) * MaxPerDay \in Nat
      BY <1>1, <1>5, Refill
    <3>3. QED
      BY <3>1, <3>2
  <2>4. g <= Full + (b - a) * MaxPerDay
    BY <1>2, <2>1, <2>2, <2>3
  <2>5. QED
    BY <1>3, <2>4 DEF Bounded, g
<1>6. QED
  BY <1>1, <1>4, <1>5

LEMMA BudgetBounds == GTypeOK /\ BudgetInv => WindowBound
<1> SUFFICES ASSUME GTypeOK, BudgetInv, NEW a \in Times, NEW b \in Times, a <= b
             PROVE  Bounded(a, b)
  BY DEF WindowBound, Bounded
<1>1. last_refill \in Int /\ b \in Int
  BY DEF GTypeOK, Times
<1>2. QED
  BY <1>1, OpenWindow DEF BudgetInv

\* Refilling keeps what was paid true, with the refilled tokens.
LEMMA PaidRefill ==
    ASSUME GTypeOK, BudgetInv, NEW a \in Times, a <= clock
    PROVE  granted[a] * Day + Refilled <= Full + (clock - a) * MaxPerDay
<1> DEFINE g == granted[a] * Day
<1>1. a \in Int /\ clock \in Int /\ last_refill \in Int /\ last_refill <= clock
  BY DEF Times, GTypeOK
<1>2. Full \in Nat /\ Day \in Nat /\ granted[a] \in Nat /\ tokens \in Nat /\ Refilled \in 0 .. Full
      /\ Refilled <= tokens + (clock - last_refill) * MaxPerDay
  BY BucketAssumption, RefilledRange DEF Full, GTypeOK
<1>3. CASE a > last_refill
  <2>1. granted[a] = 0
    BY <1>3 DEF BudgetInv
  <2>2. (clock - a) * MaxPerDay \in Nat
    BY <1>1, Refill
  <2>3. QED
    BY <1>2, <2>1, <2>2
<1>4. CASE a <= last_refill
  <2>1. g + tokens <= Full + (last_refill - a) * MaxPerDay
    BY <1>4 DEF BudgetInv, Paid
  <2>2. g \in Nat
    BY <1>2
  <2> HIDE DEF g
  <2>3. /\ (clock - a) * MaxPerDay
              = (last_refill - a) * MaxPerDay + (clock - last_refill) * MaxPerDay
        /\ (last_refill - a) * MaxPerDay \in Nat
        /\ (clock - last_refill) * MaxPerDay \in Nat
    BY <1>1, <1>4, Elapsed
  <2>4. g + Refilled <= Full + (clock - a) * MaxPerDay
    BY <1>2, <2>1, <2>2, <2>3
  <2>5. QED
    BY <2>4 DEF g
<1>5. QED
  BY <1>1, <1>3, <1>4

LEMMA BudgetStep == GTypeOK /\ GTypeOK' /\ BudgetInv /\ [GNext]_gvars => BudgetInv'
<1> SUFFICES ASSUME GTypeOK, GTypeOK', BudgetInv, [GNext]_gvars PROVE BudgetInv'
  OBVIOUS
<1>1. CASE Grant
  <2>1. clock' = clock /\ last_refill' = clock /\ tokens' = Refilled - Day
    BY <1>1 DEF Grant
  <2>2. \A a \in Times : granted'[a] = IF a <= clock THEN granted[a] + 1 ELSE granted[a]
    BY <1>1 DEF Grant
  <2>3. last_refill <= clock /\ last_refill \in Int /\ clock \in Int
    BY DEF GTypeOK, Times
  <2>4. \A a \in Times : a > last_refill' => granted'[a] = 0
    BY <2>1, <2>2, <2>3 DEF BudgetInv, Times
  <2>5. ASSUME NEW a \in Times, a <= clock PROVE Paid(a)'
    <3> DEFINE g == granted[a] * Day
    <3>1. g + Refilled <= Full + (clock - a) * MaxPerDay
      BY <2>5, PaidRefill
    <3>2. granted[a] \in Nat /\ Day \in Nat /\ Refilled \in Int /\ a \in Int
          /\ Full \in Nat
      BY BucketAssumption, RefilledRange DEF GTypeOK, Full, Times
    <3>3. granted'[a] * Day = g + Day /\ g \in Nat
      BY <2>2, <2>5, <3>2
    <3>4. (clock - a) * MaxPerDay \in Nat
      BY <2>3, <2>5, <3>2, Refill
    <3> HIDE DEF g
    <3>5. granted'[a] * Day + tokens' <= Full + (clock - a) * MaxPerDay
      BY <2>1, <3>1, <3>2, <3>3, <3>4
    <3>6. QED
      BY <2>1, <3>5 DEF Paid, Full
  <2>6. ASSUME NEW a \in Times, NEW b \in Times, a <= b, b < clock PROVE Bounded(a, b)'
    <3>1. a \in Int /\ b \in Int /\ b < MaxTime /\ b + 1 \in Times
      BY <2>6, BucketAssumption DEF Times, GTypeOK
    <3>2. Allowed(a, b)' = Allowed(a, b)
      BY <2>2, <2>3, <2>6, <3>1 DEF Allowed, GTypeOK
    <3>3. QED
      BY <2>6, <3>2, BudgetBounds DEF WindowBound, Bounded, Full
  <2>7. QED
    BY <2>1, <2>4, <2>5, <2>6 DEF BudgetInv
<1>2. CASE tokens' = Refilled /\ last_refill' = clock /\ UNCHANGED <<clock, granted>>
  <2>1. last_refill <= clock /\ last_refill \in Int /\ clock \in Int
    BY DEF GTypeOK, Times
  <2>2. \A a \in Times : a > clock => granted'[a] = 0
    BY <1>2, <2>1 DEF BudgetInv, Times
  <2>3. \A a \in Times : a <= clock => Paid(a)'
    BY <1>2, PaidRefill DEF Paid, Full
  <2>4. \A a, b \in Times : a <= b /\ b < clock => Bounded(a, b)'
    BY <1>2, BudgetBounds DEF WindowBound, Bounded, Allowed, Full
  <2>5. QED
    BY <1>2, <2>2, <2>3, <2>4 DEF BudgetInv
<1>3. CASE Renew
  <2>1. clock' = clock /\ last_refill' = clock /\ tokens' = Full
        /\ \A a \in Times : granted'[a] = 0
    BY <1>3 DEF Renew
  <2>2. clock \in Int /\ Full \in Nat /\ Day \in Nat /\ MaxTime \in Nat
    BY BucketAssumption DEF GTypeOK, Times, Full
  <2>3. ASSUME NEW a \in Times, NEW b \in Times, a <= b
        PROVE  a \in Int /\ (b - a) * MaxPerDay \in Nat
    BY <2>2, <2>3, Refill DEF Times
  <2>4. \A a \in Times : a <= clock => Paid(a)'
    <3>1. clock \in Times
      BY DEF GTypeOK
    <3>2. \A a \in Times : a <= clock => (clock - a) * MaxPerDay \in Nat
      BY <2>3, <3>1
    <3>3. QED
      BY <2>1, <2>2, <3>2 DEF Paid, Full
  <2>5. \A a, b \in Times : a <= b => Bounded(a, b)'
    <3>1. ASSUME NEW a \in Times, NEW b \in Times PROVE Allowed(a, b)' = 0
      BY <2>1, <2>2 DEF Allowed, Times
    <3>2. QED
      BY <2>2, <2>3, <3>1 DEF Bounded, Full
  <2>6. QED
    BY <2>1, <2>4, <2>5 DEF BudgetInv
<1>4. CASE UNCHANGED <<tokens, last_refill, granted>>
  BY <1>4 DEF BudgetInv, Paid, Bounded, Allowed, Full
<1>5. QED
  BY <1>1, <1>2, <1>3, <1>4 DEF GNext, Deny, Remaining, Pass, gvars, bucket

\* However requests, denials, queries and process starts fall, and however
\* long the clock runs, a window of length L sees at most max_per_day plus
\* L * max_per_day / Day uploads of one process.
THEOREM WindowBoundHolds == GSpec => []WindowBound
<1>1. GInit => BudgetInv
  <2>1. SUFFICES ASSUME GInit PROVE BudgetInv
    OBVIOUS
  <2>2. Full \in Nat /\ MaxPerDay \in Nat /\ Day \in Nat
    BY BucketAssumption DEF Full
  <2>3. \A a \in Times : a > last_refill => granted[a] = 0
    BY <2>1 DEF GInit
  <2>4. ASSUME NEW a \in Times, a <= last_refill PROVE Paid(a)
    <3>1. a = 0
      BY <2>1, <2>4, BucketAssumption DEF GInit, Times
    <3>2. QED
      BY <2>1, <2>2, <3>1 DEF Paid, GInit
  <2>5. \A b \in Times : ~(b < last_refill)
    BY <2>1, BucketAssumption DEF GInit, Times
  <2>6. QED
    BY <2>3, <2>4, <2>5 DEF BudgetInv
<1>2. QED
  BY <1>1, BudgetStep, BudgetBounds, GuardTypes, PTL DEF GSpec
------------------------------------------------------------------------------

\* Every step is a step of the guard or leaves it alone.
LEMMA GuardStep == [UNext]_uvars => [GNext]_gvars
  BY DEF UNext, uvars, Begin, UploadStep, SignIn, NextChunk, SetThumbnail, SchedulePublic,
     Restart, Elapse, GNext

\* The adapter uses the bucket through require() alone, and a new process
\* builds a new one (youtube_upload.py:94, 219).
THEOREM UploadKeepsGuard == USpec => KeepsGuard
<1>1. UInit => GInit
  BY DEF UInit
<1>2. QED
  BY <1>1, GuardStep, PTL DEF USpec, GSpec, KeepsGuard

\* Hence the bucket's bound holds for the uploads that upload() lets through.
THEOREM UploadWindowBound == USpec => []WindowBound
  BY UploadKeepsGuard, WindowBoundHolds, PTL DEF KeepsGuard
------------------------------------------------------------------------------
\* What is true in the middle of a call: it has a token, nothing is at YouTube
\* before the chunk loop, thumbnail and errors are accounted for as it goes on.
Accounted ==
    /\ \A c \in Calls : result[c] = "none" => c \notin spent /\ c \notin videos /\ errors[c] = 0
    /\ stage # "idle" => call \in spent
    /\ stage = "service" => call \notin videos /\ retry = 0
    /\ stage # "idle" => errors[call] = retry
    /\ stage = "schedule" /\ "thumbnail" \in request[call] => call \in dressed

UInv == UTypeOK /\ Accounted /\ TokensAreForUploads /\ RetryBudget /\ ResultIsTrue

LEMMA UInvInit == UInit /\ GTypeOK => UInv
<1> SUFFICES ASSUME UInit, GTypeOK PROVE UInv
  OBVIOUS
<1>1. UTypeOK
  BY UploadAssumption DEF UInit, UTypeOK, Stages, Results, Wishes
<1>2. QED
  BY <1>1, UploadAssumption
     DEF UInit, UInv, Accounted, TokensAreForUploads, RetryBudget, ResultIsTrue, Refused

\* A call that ends in any of the ways open to it keeps the invariant.
LEMMA CallEnds ==
    ASSUME UInv, GTypeOK',
           NEW r \in {"ok", "service", "http", "stopped"},
           stage # "idle", Finish(r),
           UNCHANGED <<call, request, retry, spent>>,
           dry' \in BOOLEAN, sent' \in 0 .. Chunks,
           videos \subseteq videos', videos' \subseteq videos \cup {call},
           dressed \subseteq dressed', dressed' \subseteq dressed \cup {call},
           planned \subseteq planned', planned' \subseteq planned \cup {call},
           dressed' \subseteq videos', planned' \subseteq videos',
           errors' \in [Calls -> 0 .. MaxRetries + 1],
           \A c \in Calls : c # call => errors'[c] = errors[c],
           r = "ok" => /\ call \in videos' /\ errors'[call] <= MaxRetries
                       /\ "thumbnail" \in request[call] => call \in dressed'
                       /\ "delay" \in request[call] => call \in planned',
           r = "service" => call \notin videos'
    PROVE  UInv'
<1> USE UploadAssumption DEF UInv, UTypeOK, Stages, Results, Refused
<1>1. \A c \in Calls : result'[c] = IF c = call THEN r ELSE result[c]
  BY DEF Finish
<1>2. stage' = "idle" /\ \A c \in Calls : result[c] = "open" => c = call
  BY DEF Finish, Enter
<1>3. UTypeOK'
  BY <1>1, <1>2 DEF Finish
<1>4. Accounted'
  BY <1>1, <1>2 DEF Accounted
<1>5. TokensAreForUploads'
  BY <1>1, <1>2 DEF Accounted, TokensAreForUploads
<1>6. RetryBudget'
  BY <1>1, <1>2 DEF RetryBudget
<1>7. ResultIsTrue'
  BY <1>1, <1>2 DEF ResultIsTrue
<1>8. QED
  BY <1>3, <1>4, <1>5, <1>6, <1>7

LEMMA UInvStep == UInv /\ GTypeOK' /\ [UNext]_uvars => UInv'
<1> SUFFICES ASSUME UInv, GTypeOK', [UNext]_uvars PROVE UInv'
  OBVIOUS
<1> USE UploadAssumption DEF UInv, Accounted, TokensAreForUploads, RetryBudget, ResultIsTrue,
        UTypeOK, Stages, Results, Refused
<1>1. ASSUME NEW c \in Calls, NEW w \in SUBSET Wishes, Begin(c, w) PROVE UInv'
  <2>1. call' = c /\ request' = [request EXCEPT ![c] = w] /\ sent' = 0 /\ retry' = 0
        /\ UNCHANGED <<dry, videos, dressed, planned, errors>>
        /\ stage = "idle" /\ result[c] = "none"
    BY <1>1 DEF Begin
  <2>2. CASE /\ UNCHANGED <<stage, spent>>
             /\ \E r \in Refused : result' = [result EXCEPT ![c] = r]
    BY <2>1, <2>2
  <2>3. CASE /\ result' = [result EXCEPT ![c] = "open"]
             /\ spent' = spent \cup {c} /\ stage' = "service"
    BY <2>1, <2>3
  <2>4. Refusal(w) # "none" => Refusal(w) \in Refused
    BY DEF Refusal
  <2>5. QED
    BY <1>1, <2>2, <2>3, <2>4 DEF Begin, Enter
<1>2. CASE SignIn
  <2>1. CASE Finish("service")
    BY <1>2, <2>1, CallEnds DEF SignIn
  <2>2. CASE Continue("chunk")
    BY <1>2, <2>2 DEF SignIn, Continue, Enter
  <2>3. QED
    BY <1>2, <2>1, <2>2 DEF SignIn
<1>3. CASE NextChunk
  <2>1. stage = "chunk"
        /\ UNCHANGED <<gvars, dry, call, request, dressed, planned, spent>>
    BY <1>3 DEF NextChunk
  <2>2. CASE ChunkDone
    BY <2>1, <2>2 DEF ChunkDone, Stored, After, Continue, Enter
  <2>3. CASE ChunkError
    <3>1. videos \subseteq videos' /\ videos' \subseteq videos \cup {call}
          /\ sent' \in 0 .. Chunks
      BY <2>3 DEF ChunkError, Stored, After
    <3>2. errors' = [errors EXCEPT ![call] = retry + 1]
      <4>1. errors[call] = retry /\ ~(retry > MaxRetries)
        BY <2>1
      <4>2. errors' = [errors EXCEPT ![call] =
                         IF errors[call] > MaxRetries THEN errors[call] ELSE errors[call] + 1]
        BY <2>3 DEF ChunkError, Erred
      <4>3. QED
        BY <4>1, <4>2
    <3>3. CASE retry < MaxRetries /\ retry' = retry + 1 /\ Continue("chunk")
      BY <2>1, <3>1, <3>2, <3>3 DEF Continue, Enter
    <3>4. CASE Finish("http") /\ UNCHANGED retry
      <4>1. errors' \in [Calls -> 0 .. MaxRetries + 1]
            /\ \A c \in Calls : c # call => errors'[c] = errors[c]
        BY <3>2
      <4>2. stage # "idle" /\ dressed' \subseteq videos' /\ planned' \subseteq videos'
            /\ UNCHANGED <<call, request, retry, spent, dressed, planned, dry>>
        BY <2>1, <3>1, <3>4
      <4>3. dry' \in BOOLEAN
        BY <4>2
      <4>4. QED
        BY <3>1, <3>4, <4>1, <4>2, <4>3, CallEnds
    <3>5. QED
      BY <2>3, <3>3, <3>4 DEF ChunkError
  <2>4. QED
    BY <1>3, <2>2, <2>3 DEF NextChunk
<1>4. CASE SetThumbnail
  <2>1. CASE Finish("http")
    <3>1. UNCHANGED <<call, request, retry, spent, sent, dry, videos, dressed, planned, errors>>
          /\ stage = "thumbnail"
      BY <1>4, <2>1 DEF SetThumbnail, Finish, Continue, Enter
    <3>2. QED
      BY <2>1, <3>1, CallEnds
  <2>2. CASE Continue("schedule")
    <3>1. stage = "thumbnail" /\ stage' = "schedule"
          /\ UNCHANGED <<dry, call, request, sent, retry, videos, planned, spent, errors, result>>
      BY <1>4, <2>2 DEF SetThumbnail, Continue, Enter
    <3>2. /\ dressed \subseteq dressed' /\ dressed' \subseteq dressed \cup {call}
          /\ "thumbnail" \in request[call] => call \in dressed'
      BY <1>4, <2>2 DEF SetThumbnail, Finish, Continue, Enter
    <3>3. UTypeOK'
      BY <3>1, <3>2
    <3>4. Accounted'
      BY <3>1, <3>2
    <3>5. TokensAreForUploads' /\ RetryBudget' /\ ResultIsTrue'
      BY <3>1, <3>2
    <3>6. QED
      BY <3>3, <3>4, <3>5
  <2>3. QED
    BY <1>4, <2>1, <2>2 DEF SetThumbnail
<1>5. CASE SchedulePublic
  <2>1. errors[call] <= MaxRetries /\ call \in videos
    BY <1>5 DEF SchedulePublic
  <2>2. CASE Finish("http")
    BY <1>5, <2>2, CallEnds DEF SchedulePublic
  <2>3. CASE Finish("ok")
    BY <1>5, <2>1, <2>3, CallEnds DEF SchedulePublic
  <2>4. QED
    BY <1>5, <2>2, <2>3 DEF SchedulePublic
<1>6. CASE Restart
  <2>1. CASE stage = "idle"
    BY <1>6, <2>1 DEF Restart
  <2>2. CASE stage # "idle"
    BY <1>6, <2>2, CallEnds DEF Restart
  <2>3. QED
    BY <2>1, <2>2
<1>7. CASE UNCHANGED <<adapter, recorded>>
  BY <1>7 DEF adapter, recorded
<1>8. QED
  BY <1>1, <1>2, <1>3, <1>4, <1>5, <1>6, <1>7 DEF UNext, UploadStep, Elapse, uvars

LEMMA UInvHolds == USpec => []UInv
<1>1. USpec => []GTypeOK
  BY UploadKeepsGuard, GuardTypes, PTL DEF KeepsGuard
<1>2. QED
  BY <1>1, UInvInit, UInvStep, PTL DEF USpec

\* upload() keeps its own books: exactly the call in progress is open, and past
\* the chunk loop its video exists.
THEOREM UploadTypes == USpec => []UTypeOK
<1>1. UInv => UTypeOK
  BY DEF UInv
<1>2. QED
  BY <1>1, UInvHolds, PTL

\* For any number of calls, chunks and errors and any restarts: no video
\* without a token, and a refused call has none.
THEOREM TokensHold == USpec => []TokensAreForUploads
<1>1. UInv => TokensAreForUploads
  BY DEF UInv
<1>2. QED
  BY <1>1, UInvHolds, PTL

\* The retries of an upload are bounded over all its chunks together, for any
\* number of chunks.
THEOREM RetriesHold == USpec => []RetryBudget
<1>1. UInv => RetryBudget
  BY DEF UInv
<1>2. QED
  BY <1>1, UInvHolds, PTL

\* What a call returns agrees with what YouTube has.
THEOREM ResultsHold == USpec => []ResultIsTrue
<1>1. UInv => ResultIsTrue
  BY DEF UInv
<1>2. QED
  BY <1>1, UInvHolds, PTL
==============================================================================
