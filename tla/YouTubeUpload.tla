---------------------------- MODULE YouTubeUpload ----------------------------
(***************************************************************************)
(* YouTubeUploadAdapter.upload() of                                        *)
(* modules/adapters/publisher/youtube_upload.py over its QuotaGuard: the   *)
(* refusals, the sign-in, the resumable upload with its retries, thumbnail *)
(* and publishing date.  One process makes one call after another; it may  *)
(* end and be replaced at any point.                                       *)
(***************************************************************************)
EXTENDS QuotaGuard, FiniteSets

CONSTANTS
    Calls,      \* calls of upload()
    Chunks,     \* chunks of a video file
    MaxRetries  \* _MAX_RETRIES

ASSUME UploadAssumption == Chunks \in Nat \ {0} /\ MaxRetries \in Nat

VARIABLES
    dry,        \* dry_run of the adapter; the guard has its own
    stage,      \* where upload() is
    call,       \* the call in progress, while stage is not "idle"
    request,    \* what each call was given
    sent,       \* chunks the upload session of the call has at YouTube
    retry,      \* retries used by the chunk loop
    \* outside the program, or history
    videos,     \* calls whose video exists at YouTube
    dressed,    \* calls whose thumbnail was set
    planned,    \* calls whose video has a publishing date
    result,     \* how each call ended: "none" before it, "open" while it runs
    spent,      \* calls that took a token
    errors      \* errors of the chunk loop in each call, up to one too many

adapter == <<dry, stage, call, request, sent, retry>>
recorded == <<videos, dressed, planned, result, spent, errors>>
uvars   == <<gvars, adapter, recorded>>

\* A file that exists, a report that passes, a thumbnail, a delay.
Wishes  == {"file", "pass", "thumbnail", "delay"}
Refused == {"dry", "blocked", "missing", "quota"}
Results == {"none", "open", "ok", "service", "http", "stopped"} \cup Refused
Stages  == {"idle", "service", "chunk", "thumbnail", "schedule"}

UTypeOK ==
    /\ GTypeOK
    /\ dry \in BOOLEAN
    /\ stage \in Stages /\ call \in Calls
    /\ request \in [Calls -> SUBSET Wishes]
    /\ sent \in 0 .. Chunks /\ retry \in 0 .. MaxRetries
    /\ result \in [Calls -> Results]
    /\ errors \in [Calls -> 0 .. MaxRetries + 1]
    /\ dressed \subseteq videos /\ planned \subseteq videos /\ videos \subseteq Calls
    /\ spent \subseteq Calls
    /\ \A c \in Calls : result[c] = "open" <=> stage # "idle" /\ c = call
    /\ stage \in {"thumbnail", "schedule"} => call \in videos

UInit ==
    /\ GInit
    /\ dry \in BOOLEAN
    /\ stage = "idle" /\ call \in Calls
    /\ request = [c \in Calls |-> {}]
    /\ sent = 0 /\ retry = 0
    /\ videos = {} /\ dressed = {} /\ planned = {} /\ spent = {}
    /\ result = [c \in Calls |-> "none"]
    /\ errors = [c \in Calls |-> 0]
------------------------------------------------------------------------------
Enter(f) == stage' = f
Finish(r) == Enter("idle") /\ result' = [result EXCEPT ![call] = r]
Continue(f) == Enter(f) /\ UNCHANGED result

\* What upload() refuses before it asks the guard.
Refusal(w) ==
    IF dry THEN "dry"
    ELSE IF "pass" \notin w THEN "blocked"
    ELSE IF "file" \notin w THEN "missing" ELSE "none"

\* Mutant of Begin: the file is looked for after the token was taken.
BeginTokenFirst(c, w) ==
    /\ stage = "idle" /\ result[c] = "none"
    /\ call' = c
    /\ request' = [request EXCEPT ![c] = w]
    /\ ~dry /\ "pass" \in w
    /\ Grant
    /\ spent' = spent \cup {c}
    /\ result' = [result EXCEPT ![c] = IF "file" \in w THEN "open" ELSE "missing"]
    /\ Enter(IF "file" \in w THEN "service" ELSE "idle")
    /\ sent' = 0 /\ retry' = 0
    /\ UNCHANGED <<dry, videos, dressed, planned, errors>>

\* upload(c) up to the guard: dry-run, report, file, then a token.
Begin(c, w) ==
    /\ stage = "idle" /\ result[c] = "none"
    /\ call' = c
    /\ request' = [request EXCEPT ![c] = w]
    /\ \/ /\ Refusal(w) # "none"
          /\ result' = [result EXCEPT ![c] = Refusal(w)]
          /\ UNCHANGED <<gvars, stage, spent>>
       \/ /\ Refusal(w) = "none"
          /\ Deny
          /\ result' = [result EXCEPT ![c] = "quota"]
          /\ UNCHANGED <<stage, spent>>
       \/ /\ Refusal(w) = "none"
          /\ Grant
          /\ result' = [result EXCEPT ![c] = "open"]
          /\ spent' = spent \cup {c}
          /\ Enter("service")
    /\ sent' = 0 /\ retry' = 0
    /\ UNCHANGED <<dry, videos, dressed, planned, errors>>

\* Mutant of SignIn: a failing sign-in gives the token back.
SignInGivesBack ==
    /\ stage = "service"
    /\ \/ Continue("chunk") /\ UNCHANGED tokens
       \/ Finish("service") /\ tokens' = tokens + Day
    /\ UNCHANGED <<clock, last_refill, guard_dry, granted, dry, call, request, sent, retry,
                   videos, dressed, planned, spent, errors>>

\* _build_service(): missing packages or secrets, a refused sign-in and a
\* failing refresh of token.json all raise.
SignIn ==
    /\ stage = "service"
    /\ Continue("chunk") \/ Finish("service")
    /\ UNCHANGED <<gvars, dry, call, request, sent, retry, videos, dressed, planned,
                   spent, errors>>

\* Chunks the session may have after one more request.
After(n) == IF n < Chunks THEN n + 1 ELSE n
Stored(n) ==
    /\ sent' = n
    /\ videos' = IF n = Chunks THEN videos \cup {call} ELSE videos

Erred == errors' = [errors EXCEPT ![call] = IF @ > MaxRetries THEN @ ELSE @ + 1]

\* Mutant of ChunkDone: the retry counter starts again with every chunk.
ChunkDoneFresh ==
    /\ Stored(After(sent))
    /\ Continue(IF After(sent) = Chunks THEN "thumbnail" ELSE "chunk")
    /\ retry' = 0
    /\ UNCHANGED errors

\* next_chunk() returned; with the last chunk it brings the video id.
ChunkDone ==
    /\ Stored(After(sent))
    /\ Continue(IF After(sent) = Chunks THEN "thumbnail" ELSE "chunk")
    /\ UNCHANGED <<retry, errors>>

\* Mutant of ChunkError: when the retries are used up, they start again.
ChunkErrorForEver ==
    /\ \E n \in {sent, After(sent)} : Stored(n)
    /\ Erred
    /\ retry' = IF retry < MaxRetries THEN retry + 1 ELSE 0
    /\ Continue("chunk")

\* Mutant of ChunkError: one retry too many.
ChunkErrorOffByOne ==
    /\ \E n \in {sent, After(sent)} : Stored(n)
    /\ Erred
    /\ \/ retry <= MaxRetries /\ retry' = retry + 1 /\ Continue("chunk")
       \/ Finish("http") /\ UNCHANGED retry

\* next_chunk() raised, before or after YouTube stored the chunk: a 5xx is
\* retried while retries are left, anything else ends the call.
ChunkError ==
    /\ \E n \in {sent, After(sent)} : Stored(n)
    /\ Erred
    /\ \/ /\ retry < MaxRetries
          /\ retry' = retry + 1
          /\ Continue("chunk")
       \/ /\ Finish("http")
          /\ UNCHANGED retry

NextChunk ==
    /\ stage = "chunk"
    /\ ChunkDone \/ ChunkError
    /\ UNCHANGED <<gvars, dry, call, request, dressed, planned, spent>>

\* Mutant of SetThumbnail: a failing thumbnail is only logged.
SetThumbnailOrNot ==
    /\ stage = "thumbnail"
    /\ dressed' \in {dressed, dressed \cup {call}}
    /\ Continue("schedule")
    /\ UNCHANGED <<gvars, dry, call, request, sent, retry, videos, planned,
                   spent, errors>>

\* _set_thumbnail(), if there is a thumbnail file.
SetThumbnail ==
    /\ stage = "thumbnail"
    /\ \/ "thumbnail" \notin request[call] /\ Continue("schedule") /\ UNCHANGED dressed
       \/ /\ "thumbnail" \in request[call]
          /\ \/ Continue("schedule") /\ dressed' = dressed \cup {call}
             \/ Finish("http") /\ UNCHANGED dressed
    /\ UNCHANGED <<gvars, dry, call, request, sent, retry, videos, planned,
                   spent, errors>>

\* _schedule_public(), if a delay is asked for, and the return of the result.
SchedulePublic ==
    /\ stage = "schedule"
    /\ \/ "delay" \notin request[call] /\ Finish("ok") /\ UNCHANGED planned
       \/ /\ "delay" \in request[call]
          /\ \/ Finish("ok") /\ planned' = planned \cup {call}
             \/ Finish("http") /\ UNCHANGED planned
    /\ UNCHANGED <<gvars, dry, call, request, sent, retry, videos, dressed,
                   spent, errors>>

\* A new process: a full bucket, nothing resumes the upload session.
Restart ==
    /\ Renew
    /\ dry' \in BOOLEAN
    /\ IF stage = "idle" THEN UNCHANGED <<stage, result>> ELSE Finish("stopped")
    /\ UNCHANGED <<call, request, sent, retry, videos, dressed, planned, spent, errors>>

\* Time passes between and during calls.
Elapse == Pass /\ UNCHANGED <<adapter, recorded>>

UploadStep == SignIn \/ NextChunk \/ SetThumbnail \/ SchedulePublic

UNext ==
    \/ \E c \in Calls, w \in SUBSET Wishes : Begin(c, w)
    \/ UploadStep \/ Restart \/ Elapse

USpec == UInit /\ [][UNext]_uvars

\* upload() is straight-line code: once it has a token it goes on.
UFairSpec == USpec /\ WF_uvars(UploadStep)
------------------------------------------------------------------------------
\* A token is taken after every cheap refusal and before anything is sent
\* (youtube_upload.py:203-219): no video exists without one, and a call that
\* is refused costs none, over any order of calls, errors and restarts.
TokensAreForUploads ==
    /\ videos \subseteq spent
    /\ \A c \in spent : result[c] \notin Refused \cup {"none"}

\* The retries belong to the upload, not to a chunk (youtube_upload.py:388-402):
\* an upload that succeeds has met at most MaxRetries errors, whichever chunks
\* they hit and whether or not the chunk had arrived.
RetryBudget == \A c \in videos : result[c] = "ok" => errors[c] <= MaxRetries

\* "ok" means video, thumbnail and date are all there (youtube_upload.py:221-250);
\* a call that did not reach the chunk loop left nothing at YouTube.
ResultIsTrue ==
    \A c \in Calls :
        /\ result[c] = "ok" =>
             /\ c \in videos
             /\ "thumbnail" \in request[c] => c \in dressed
             /\ "delay" \in request[c] => c \in planned
        /\ result[c] \in Refused \cup {"service"} => c \notin videos

\* Everything the guard promises holds under the adapter: the bucket is used
\* through its own operations only.
KeepsGuard == GSpec

\* Every call comes to an end: lost responses and 5xx answers cannot keep the
\* chunk loop going.
UploadEnds == \A c \in Calls : result[c] = "open" ~> result[c] # "open"
==============================================================================
