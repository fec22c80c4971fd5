------------------------------ MODULE Pipeline ------------------------------
(***************************************************************************)
(* YTAIMBotOrchestrator.run_pipeline of modules/orchestrator.py, composed  *)
(* with the UploadScheduler it owns.  A process boots (the Pipeline object *)
(* is built), executes runs one after another and may stop at any point.   *)
(* Every access to the database or to YouTube is a step of its own; calls  *)
(* of the scheduler are the scheduler's own actions, joined with the step  *)
(* of the run that makes them.                                             *)
(***************************************************************************)
EXTENDS UploadScheduler

CONSTANTS
    Runs,           \* run ids; Makers is instantiated with the same set
    NoRun, NoReport,
    Scripts,        \* script texts, equal when the gate would call them similar
    Envs,           \* values of YTAIMBOT_DRY_RUN processes are started with
    Publishers,     \* "built" by Pipeline, or injected: has upload/review/publish
    Checker,        \* "similarity" (what Pipeline builds) or "injected"
    HasLoadMetrics, \* whether the storage has load_metrics (SQLite has not)
    DriftMin,       \* 20 in the code
    Threshold,      \* upload_threshold of ManualReviewCLI
    Batch,          \* PPO_BATCH_SIZE
    Errors          \* what may go wrong here, see ErrorKinds

ErrorKinds == {"storage", "tts", "disk", "train", "upload", "orphan"}
ASSUME RunAssumption == NoRun \notin Runs /\ Makers = Runs
ASSUME PublisherAssumption ==
    /\ Publishers \subseteq {"built", "upload", "review", "publish"}
    /\ Checker \in {"similarity", "injected"}
    /\ HasLoadMetrics \in BOOLEAN
    /\ Envs \subseteq {"0", "1", "true", "false"}
    /\ Errors \subseteq ErrorKinds
ASSUME NumberAssumption == DriftMin \in Nat /\ Threshold \in Nat /\ Batch \in Nat

VARIABLES
    stage,      \* the stage of run_pipeline each process is in
    run,        \* the run it executes
    env,        \* its YTAIMBOT_DRY_RUN
    publisher,  \* its publisher
    topic,      \* the trend id of the run's content plan
    archive,    \* the reports load_archive found
    runRow,     \* pipeline_runs: status of each run
    report,     \* compliance_reports: the report of each run
    taken,      \* the job next_due() gave to each run
    published,  \* published_videos: the video_id of each row
    ppoRows,    \* ppo_transitions: rows, keyed by run id
    ppoMem,     \* self.ppo_transitions
    \* history, read by no action
    remote,     \* uploads YouTube has accepted: job, run and process
    found,      \* heap size at the start of the process's current run
    trained     \* transitions the policy was updated with

pipeline == <<stage, run, env, publisher, topic, archive, runRow, report, taken,
              published, ppoRows, ppoMem, remote, found, trained>>
pvars == <<vars, pipeline>>

Reports == [script : Scripts, decision : {"pass", "block"}, matches : SUBSET Scripts]
ASSUME ReportAssumption == NoReport \notin Reports
Terminal == {"ok", "blocked", "error"}
Stages == {"off", "free", "drift", "fetch", "store", "archive", "check", "assemble",
           "enqueue", "saving", "publish", "take", "upload", "record", "train", "failed"} \cup Terminal
\* The three shapes of published_videos.video_id.
VideoId(j)  == [kind |-> "video", of |-> j]
ManualId    == [kind |-> "manual", of |-> NoJob]
DryId(s)    == [kind |-> "hash", of |-> s]

\* Pipeline.__init__: only "1" makes the wrapper dry; config is overwritten.
ConfigDry(e) == IF e = "1" THEN "1" ELSE "0"
\* YTAIMBotOrchestrator.dry_run
DryRun(e) == ConfigDry(e) \in {"1", "true"} \/ e \in {"1", "true"}
\* build_youtube_uploader: everything but "false" means dry-run.
UploaderDry(p) == publisher[p] = "built" /\ ConfigDry(env[p]) # "false"

PInit ==
    /\ Init
    /\ stage = [p \in Procs |-> "off"]
    /\ run = [p \in Procs |-> NoRun]
    /\ env \in [Procs -> Envs] /\ publisher \in [Procs -> Publishers]
    /\ topic \in [Procs -> Plans]
    /\ archive = [p \in Procs |-> {}]
    /\ runRow = [r \in Runs |-> "none"]
    /\ report = [r \in Runs |-> NoReport]
    /\ taken = [r \in Runs |-> NoJob]
    /\ published = {} /\ ppoRows = {}
    /\ ppoMem = [p \in Procs |-> {}]
    /\ remote = {} /\ trained = {}
    /\ found = [p \in Procs |-> 0]
------------------------------------------------------------------------------
At(p, s) == stage[p] = s
Goto(p, s) == stage' = [stage EXCEPT ![p] = s]
\* A raising storage call ends in the except clause of run_pipeline.
StorageFails(p) == "storage" \in Errors /\ Goto(p, "failed")

\* Pipeline() and YTAIMBotOrchestrator(): the scheduler loads its queue, the
\* stored transitions are read into memory.
Boot(p) ==
    /\ Start(p)
    /\ Goto(p, "free")
    /\ \E e \in Envs, b \in Publishers :
         env' = [env EXCEPT ![p] = e] /\ publisher' = [publisher EXCEPT ![p] = b]
    /\ ppoMem' = [ppoMem EXCEPT ![p] = ppoRows]
    /\ UNCHANGED <<run, topic, archive, runRow, report, taken, published, ppoRows, remote,
                   found, trained>>

\* save_run("in_progress") stands before the try: if it raises there is no
\* run, which leaves this state unchanged.
BeginRun(p, r) ==
    /\ At(p, "free")
    /\ runRow[r] = "none"
    /\ runRow' = [runRow EXCEPT ![r] = "in_progress"]
    /\ run' = [run EXCEPT ![p] = r]
    /\ found' = [found EXCEPT ![p] = Cardinality(heap[p])]
    /\ Goto(p, "drift")
    /\ UNCHANGED <<vars, env, publisher, topic, archive, report, taken, published, ppoRows,
                   ppoMem, remote, trained>>

\* With enough published videos load_metrics is called, which the storage
\* may not have.  The bandit reset is not seen by run_pipeline.
CheckDrift(p) ==
    /\ At(p, "drift")
    /\ \/ StorageFails(p)
       \/ Cardinality(published) >= DriftMin /\ ~HasLoadMetrics /\ Goto(p, "failed")
       \/ (Cardinality(published) < DriftMin \/ HasLoadMetrics) /\ Goto(p, "fetch")
    /\ UNCHANGED <<vars, run, env, publisher, topic, archive, runRow, report, taken,
                   published, ppoRows, ppoMem, remote, found, trained>>

\* fetch, save_trends, ranking: no trend at all ends the run.
FetchTrends(p) ==
    /\ At(p, "fetch")
    /\ \/ StorageFails(p) /\ UNCHANGED topic
       \/ Goto(p, "ok") /\ UNCHANGED topic
       \/ Goto(p, "store") /\ \E t \in Plans : topic' = [topic EXCEPT ![p] = t]
    /\ UNCHANGED <<vars, run, env, publisher, archive, runRow, report, taken, published,
                   ppoRows, ppoMem, remote, found, trained>>

\* save_ppo_transition under the run id.
StoreTransition(p) ==
    /\ At(p, "store")
    /\ \/ StorageFails(p) /\ UNCHANGED ppoRows
       \/ Goto(p, "archive") /\ ppoRows' = ppoRows \cup {run[p]}
    /\ UNCHANGED <<vars, run, env, publisher, topic, archive, runRow, report, taken,
                   published, ppoMem, remote, found, trained>>

\* load_archive, after the script was generated.
LoadArchive(p) ==
    /\ At(p, "archive")
    /\ \/ StorageFails(p) /\ UNCHANGED archive
       \/ /\ Goto(p, "check")
          /\ archive' = [archive EXCEPT ![p] = {report[r] : r \in Runs} \ {NoReport}]
    /\ UNCHANGED <<vars, run, env, publisher, topic, runRow, report, taken, published,
                   ppoRows, ppoMem, remote, found, trained>>

\* Texts the gate compares: a script, and what load_archive returns for a
\* report, its list of matches.
ScriptText(s) == [kind |-> "script", of |-> s]
ArchiveText(q) == [kind |-> "reasons", of |-> q.matches]
Matches(s, reports) == {q.script : q \in {a \in reports : ArchiveText(a) = ScriptText(s)}}

\* Mutant of CheckScript: a blocked script is only logged.
CheckScriptOnly(p) ==
    /\ At(p, "check")
    /\ \E s \in Scripts : \E d \in {"pass", "block"} :
         report' = [report EXCEPT ![run[p]] = [script |-> s, decision |-> d, matches |-> {}]]
    /\ Goto(p, "assemble")
    /\ archive' = [archive EXCEPT ![p] = {}]
    /\ UNCHANGED <<vars, run, env, publisher, topic, runRow, taken, published, ppoRows,
                   ppoMem, remote, found, trained>>

\* Mutant of CheckScript: only the report of a blocked script is saved.
CheckScriptUnsaved(p) ==
    /\ At(p, "check")
    /\ \/ Goto(p, "assemble") /\ UNCHANGED report
       \/ \E s \in Scripts :
            /\ Goto(p, "blocked")
            /\ report' = [report EXCEPT ![run[p]] =
                             [script |-> s, decision |-> "block", matches |-> {s}]]
    /\ archive' = [archive EXCEPT ![p] = {}]
    /\ UNCHANGED <<vars, run, env, publisher, topic, runRow, taken, published, ppoRows,
                   ppoMem, remote, found, trained>>

\* The script (a failing generator is replaced by a fallback text) is checked
\* against the archive as it was read, and the report is saved.
CheckScript(p) ==
    /\ At(p, "check")
    /\ \/ StorageFails(p) /\ UNCHANGED report
       \/ \E s \in Scripts : \E d \in {"pass", "block"} :
            LET matches == Matches(s, archive[p]) IN
            /\ Checker = "similarity" => (d = "block" <=> matches # {})
            /\ report' = [report EXCEPT ![run[p]] =
                             [script |-> s, decision |-> d, matches |-> matches]]
            /\ Goto(p, IF d = "pass" THEN "assemble" ELSE "blocked")
    /\ archive' = [archive EXCEPT ![p] = {}]
    /\ UNCHANGED <<vars, run, env, publisher, topic, runRow, taken, published, ppoRows,
                   ppoMem, remote, found, trained>>

\* Script file, TTS, assembly: failures are logged and leave no video.  Making the
\* directories, building the TTS adapter and looking up the size of the audio file
\* are outside the inner try blocks: their errors end the run.
Assemble(p) ==
    /\ At(p, "assemble")
    /\ \/ Goto(p, "enqueue")
       \/ "tts" \in Errors /\ Goto(p, "publish")
       \/ "disk" \in Errors /\ Goto(p, "failed")
    /\ UNCHANGED <<vars, run, env, publisher, topic, archive, runRow, report, taken,
                   published, ppoRows, ppoMem, remote, found, trained>>

Enqueue(p) ==
    /\ At(p, "enqueue")
    /\ Schedule(p, [plan |-> topic[p], at |-> now, by |-> run[p]])
    /\ Goto(p, "saving")
    /\ UNCHANGED <<run, env, publisher, topic, archive, runRow, report, taken, published,
                   ppoRows, ppoMem, remote, found, trained>>

Enqueued(p) ==
    /\ At(p, "saving")
    /\ SaveRow(p)
    /\ Goto(p, "publish")
    /\ UNCHANGED <<run, env, publisher, topic, archive, runRow, report, taken, published,
                   ppoRows, ppoMem, remote, found, trained>>

\* Not dry: next_due() begins.  Dry: a row under the hash of the script, and
\* the queue is left alone.
Publish(p) ==
    /\ At(p, "publish")
    /\ IF DryRun(env[p])
         THEN /\ \/ StorageFails(p) /\ UNCHANGED published
                 \/ /\ Goto(p, "ok")
                    /\ published' = published \cup {DryId(report[run[p]].script)}
              /\ UNCHANGED vars
         ELSE /\ CheckLimit(p)
              /\ Goto(p, IF pc'[p] = "peek" THEN "take" ELSE "ok")
              /\ UNCHANGED published
    /\ UNCHANGED <<run, env, publisher, topic, archive, runRow, report, taken, ppoRows,
                   ppoMem, remote, found, trained>>

\* next_due() goes on: no due job ends the run, a due one is taken.
Take(p) ==
    /\ At(p, "take")
    /\ \/ /\ Peek(p)
          /\ Goto(p, IF pc'[p] = "idle" THEN "ok" ELSE "take")
          /\ UNCHANGED taken
       \/ /\ DeleteRow(p)
          /\ Goto(p, "take")
          /\ UNCHANGED taken
       \/ /\ Return(p)
          /\ taken' = [taken EXCEPT ![run[p]] = cur[p]]
          /\ Goto(p, "upload")
    /\ UNCHANGED <<run, env, publisher, topic, archive, runRow, report, published, ppoRows,
                   ppoMem, remote, found, trained>>

\* YouTubeUploadAdapter.upload: refused in dry-run; the call may fail before
\* YouTube has the video or after ("orphan": thumbnail or schedule_public).
\* QuotaGuard, file and sign-in errors count as "upload".
UploadVideo(p) ==
    /\ publisher[p] \in {"built", "upload"}
    /\ IF UploaderDry(p)
         THEN Goto(p, "failed") /\ UNCHANGED remote
         ELSE \/ "upload" \in Errors /\ Goto(p, "failed") /\ UNCHANGED remote
              \/ /\ remote' = remote \cup {[job |-> taken[run[p]], run |-> run[p], by |-> p]}
                 /\ \/ Goto(p, "record")
                    \/ "orphan" \in Errors /\ Goto(p, "failed")
    /\ UNCHANGED <<run>>

\* ManualReviewCLI.review: automatic from the threshold on, else the operator
\* approves, rejects, or quits with a KeyboardInterrupt nobody catches.
Review(p) ==
    /\ publisher[p] = "review"
    /\ \/ /\ Cardinality(published) >= Threshold
          /\ Goto(p, "record")
          /\ UNCHANGED <<run>>
       \/ /\ Cardinality(published) < Threshold
          /\ \/ Goto(p, "record") /\ UNCHANGED run
             \/ Goto(p, "error") /\ UNCHANGED <<run>>
             \/ Goto(p, "free") /\ run' = [run EXCEPT ![p] = NoRun]
    /\ UNCHANGED remote

\* Any other publisher says yes or no.
PublishPlan(p) ==
    /\ publisher[p] = "publish"
    /\ \E s \in {"record", "error"} : Goto(p, s)
    /\ UNCHANGED <<run, remote>>

Upload(p) ==
    /\ At(p, "upload")
    /\ UploadVideo(p) \/ Review(p) \/ PublishPlan(p)
    /\ UNCHANGED <<vars, env, publisher, topic, archive, runRow, report, taken, published,
                   ppoRows, ppoMem, found, trained>>

\* Mutant of Record: a failing save_video is swallowed.
RecordOrNot(p) ==
    /\ At(p, "record")
    /\ \/ UNCHANGED published
       \/ published' = published \cup {VideoId(taken[run[p]])}
    /\ Goto(p, "train")
    /\ UNCHANGED <<vars, run, env, publisher, topic, archive, runRow, report, taken,
                   ppoRows, ppoMem, remote, found, trained>>

\* save_video: an approval without an upload has the same id every time.
Record(p) ==
    /\ At(p, "record")
    /\ \/ StorageFails(p) /\ UNCHANGED published
       \/ /\ Goto(p, "train")
          /\ published' = published \cup
                 {IF publisher[p] \in {"built", "upload"} THEN VideoId(taken[run[p]]) ELSE ManualId}
    /\ UNCHANGED <<vars, run, env, publisher, topic, archive, runRow, report, taken,
                   ppoRows, ppoMem, remote, found, trained>>

\* A full batch trains the policy and empties the table, then the memory; an
\* update that raises does neither.  "next" is where the caller goes on.
TrainBatch(p, next) ==
    IF Cardinality(ppoMem[p]) >= Batch
      THEN \/ "train" \in Errors /\ Goto(p, "failed") /\ UNCHANGED <<ppoRows, ppoMem, trained>>
           \/ /\ trained' = trained \cup ppoMem[p]
              /\ \/ StorageFails(p) /\ UNCHANGED <<ppoRows, ppoMem>>
                 \/ /\ ppoRows' = {}
                    /\ ppoMem' = [ppoMem EXCEPT ![p] = {}]
                    /\ Goto(p, next)
      ELSE Goto(p, next) /\ UNCHANGED <<ppoRows, ppoMem, trained>>

Train(p) ==
    /\ At(p, "train")
    /\ TrainBatch(p, "ok")
    /\ UNCHANGED <<vars, run, env, publisher, topic, archive, runRow, report, taken,
                   published, remote, found>>

\* update_metrics: no published id is ever a run id, so the new rewards reach
\* no transition and only the batch step is left.  An update that raises goes to
\* the caller and leaves this state as it was.
UpdateMetrics(p) ==
    /\ At(p, "free")
    /\ published # {}
    /\ Cardinality(ppoMem[p]) >= Batch
    /\ trained' = trained \cup ppoMem[p]
    /\ \/ "storage" \in Errors /\ UNCHANGED <<ppoRows, ppoMem>>
       \/ ppoRows' = {} /\ ppoMem' = [ppoMem EXCEPT ![p] = {}]
    /\ UNCHANGED <<vars, stage, run, env, publisher, topic, archive, runRow, report, taken,
                   published, remote, found>>

\* The stages named after a status write it and return; if the write raises,
\* the except clause is next.
Conclude(p) ==
    /\ stage[p] \in Terminal
    /\ \/ StorageFails(p) /\ UNCHANGED <<run, runRow>>
       \/ /\ runRow' = [runRow EXCEPT ![run[p]] = stage[p]]
          /\ run' = [run EXCEPT ![p] = NoRun]
          /\ Goto(p, "free")
    /\ UNCHANGED <<vars, env, publisher, topic, archive, report, taken, published, ppoRows,
                   ppoMem, remote, found, trained>>

\* Mutant of Fail: the exception is logged, the row is not written.
FailSilently(p) ==
    /\ At(p, "failed")
    /\ run' = [run EXCEPT ![p] = NoRun]
    /\ Goto(p, "free")
    /\ UNCHANGED <<vars, env, publisher, topic, archive, runRow, report, taken, published,
                   ppoRows, ppoMem, remote, found, trained>>

\* Mutant of Fail: the job goes back into the heap, past schedule().
FailAndRequeue(p) ==
    /\ At(p, "failed")
    /\ runRow' = [runRow EXCEPT ![run[p]] = "error"]
    /\ heap' = [heap EXCEPT ![p] = @ \cup ({taken[run[p]]} \ {NoJob})]
    /\ run' = [run EXCEPT ![p] = NoRun]
    /\ Goto(p, "free")
    /\ UNCHANGED <<now, row, pc, cur, uploads_today, last_date, history>>
    /\ UNCHANGED <<env, publisher, topic, archive, report, taken, published, ppoRows,
                   ppoMem, remote, found, trained>>

\* The except clause: if its own save_run raises, the caller gets the error
\* and the row stays in_progress.
Fail(p) ==
    /\ At(p, "failed")
    /\ \/ "storage" \in Errors /\ UNCHANGED runRow
       \/ runRow' = [runRow EXCEPT ![run[p]] = "error"]
    /\ run' = [run EXCEPT ![p] = NoRun]
    /\ Goto(p, "free")
    /\ UNCHANGED <<vars, env, publisher, topic, archive, report, taken, published, ppoRows,
                   ppoMem, remote, found, trained>>

\* The process ends: nothing resumes the run it was in.
Halt(p) ==
    /\ Crash(p)
    /\ Goto(p, "off")
    /\ run' = [run EXCEPT ![p] = NoRun]
    /\ ppoMem' = [ppoMem EXCEPT ![p] = {}]
    /\ archive' = [archive EXCEPT ![p] = {}]
    /\ UNCHANGED <<env, publisher, topic, runRow, report, taken, published, ppoRows, remote,
                   found, trained>>

\* Between BeginRun and its end, a run takes steps of its own accord.
RunStep(p) ==
    \/ CheckDrift(p) \/ FetchTrends(p) \/ StoreTransition(p) \/ LoadArchive(p)
    \/ CheckScript(p) \/ Assemble(p) \/ Enqueue(p) \/ Enqueued(p) \/ Publish(p) \/ Take(p)
    \/ Upload(p) \/ Record(p) \/ Train(p) \/ Conclude(p) \/ Fail(p)

PNext ==
    \/ Tick /\ UNCHANGED pipeline
    \/ \E p \in Procs : Boot(p) \/ UpdateMetrics(p) \/ Halt(p) \/ RunStep(p)
    \/ \E p \in Procs, r \in Runs : BeginRun(p, r)

PSpec == PInit /\ [][PNext]_pvars

\* run_pipeline is straight-line code: a started run goes on by itself.
PFairSpec == PSpec /\ \A p \in Procs : WF_pvars(RunStep(p))
------------------------------------------------------------------------------
PTypeOK ==
    /\ TypeOK
    /\ stage \in [Procs -> Stages]
    /\ run \in [Procs -> Runs \cup {NoRun}]
    /\ \A p \in Procs : run[p] = NoRun <=> stage[p] \in {"off", "free"}
    /\ \A p \in Procs : stage[p] = "off" <=> pc[p] = "down"
    /\ \A p \in Procs : pc[p] = "saving" <=> stage[p] = "saving"
    /\ \A p \in Procs : pc[p] \in {"peek", "deleting", "returning"} <=> stage[p] = "take"
    /\ env \in [Procs -> Envs] /\ publisher \in [Procs -> Publishers]
    /\ topic \in [Procs -> Plans]
    /\ archive \in [Procs -> SUBSET Reports]
    /\ runRow \in [Runs -> {"none", "in_progress"} \cup Terminal]
    /\ report \in [Runs -> Reports \cup {NoReport}]
    /\ taken \in [Runs -> Job \cup {NoJob}]
    /\ \A p \in Procs : stage[p] \in {"upload", "record"} => taken[run[p]] \in Job
    /\ \A p \in Procs : stage[p] \in {"assemble", "enqueue", "saving", "publish"} =>
         report[run[p]] \in Reports
    /\ published \subseteq {VideoId(j) : j \in Job} \cup {ManualId} \cup {DryId(s) : s \in Scripts}
    /\ ppoRows \subseteq Runs /\ trained \subseteq Runs
    /\ ppoMem \in [Procs -> SUBSET Runs]
    /\ remote \subseteq [job : Job, run : Runs, by : Procs]
    /\ found \in [Procs -> Nat]

\* No process uploads a job twice unless deleting its row failed there, although
\* the row is deleted, the job uploaded and the video recorded in separate steps, a
\* restart reloads the table and the other process saves and deletes rows meanwhile
\* (scheduler.py:91-96, orchestrator.py:643-712).
UploadedOnce ==
    \A u, v \in remote :
        u.job = v.job /\ u.by = v.by => u = v \/ u.job \in kept[u.by]

\* A run that took a job and ended "ok" has a row for that very video; what
\* fails between YouTube and published_videos ends in "error" or not at all.
OkIsRecorded ==
    /\ \A r \in Runs : runRow[r] = "ok" /\ taken[r] # NoJob =>
         VideoId(taken[r]) \in published \/ ManualId \in published
    /\ \A u \in remote : runRow[u.run] = "ok" => VideoId(u.job) \in published

\* The report passed to upload() is a constant "pass" (orchestrator.py:652):
\* only the queue keeps blocked content away from YouTube.  Whatever is queued,
\* stored or uploaded comes from a run whose saved report says pass.
OnlyPassedContent ==
    \A j \in {u.job : u \in remote} \cup UNION {Offers(p) : p \in Procs} :
        report[j.by] # NoReport /\ report[j.by].decision = "pass"

\* A run that may publish takes at least as many jobs as it adds: the backlog
\* grows over an "ok" run only when the daily limit is used up.
BacklogBounded ==
    \A p \in Procs :
        stage[p] = "ok" /\ ~DryRun(env[p]) /\ Cardinality(heap[p]) > found[p] =>
            uploads_today[p] >= MaxPerDay

\* The orchestrator touches queue, table and counter only through the
\* scheduler's own operations, so all that is shown of UploadScheduler holds here.
KeepsScheduler == Spec

\* Without storage errors and stops every run reaches a final status, whatever
\* else fails on its way; the one exception is an operator who quits the review.
RunEnds ==
    \A r \in Runs : runRow[r] = "in_progress" ~>
        \/ runRow[r] \in Terminal
        \/ "review" \in Publishers /\ taken[r] # NoJob /\ \A p \in Procs : run[p] # r
------------------------------------------------------------------------------
\* youtube_upload.py:206 "Set YTAIMBOT_DRY_RUN=false to enable real uploads.":
\* where nothing else goes wrong, a run that takes a job does not end in error.
UploadsEnabled ==
    \A r \in Runs : taken[r] # NoJob => runRow[r] # "error"

\* sqlite.py:560 "Load all archived script texts from compliance reports.":
\* the gate does not pass a script an earlier report is archived for.
RepeatsBlocked ==
    \A q, r \in Runs :
        q # r /\ report[q] # NoReport /\ report[r] # NoReport
        /\ report[q].script = report[r].script =>
            "block" \in {report[q].decision, report[r].decision}

\* orchestrator.py:430 "Check for drift": the check lets the run go on.
DriftCheckPasses == \A r \in Runs : runRow[r] # "error"
==============================================================================
