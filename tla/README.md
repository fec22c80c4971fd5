# YTAIMBot: a TLA+ verification of the content pipeline and its services

YTAIMBot collects trends, writes a script for the best one, checks it, voices
it, renders a video, queues it and uploads it to YouTube. One container runs the
pipeline once and exits; it is restarted, or replaced by a second container that
shares its SQLite database (`scripts/deploy/deploy.sh`). This directory models
the parts in which order, failure and restarts matter, model-checks them with
TLC and proves the central properties with TLAPS for every value of the
constants.

## Inventory

| part | state | operations | hard behaviour |
|---|---|---|---|
| `modules/scheduler.py` UploadScheduler | heap, daily counter, date (memory); table `upload_queue` | `schedule`, `next_due`, load, save, delete | crash between pop, delete and return; two processes on one table; midnight; swallowed errors |
| `modules/orchestrator.py` | `pipeline_runs`, `compliance_reports`, `published_videos`, `ppo_transitions`, `niche_weights`; in-memory PPO list | `run_pipeline`, `update_metrics`, `optimize_niche_weights` | partial failure between upload and record; a run left without status; configuration read in three places |
| `adapters/publisher` | token bucket, OAuth token | `upload`, `publish`, quota | dry-run switch, orphan videos, retries per chunk |
| `dashboard` | audit file | `review` | threshold, quitting operator |
| `quality/similarity_gate.py` | none (archive from storage) | `check` | which archive it sees |
| `quota/service_tracker.py` | table `service_quota` | `check_available`, `consume`, reset | check and consume by two processes; two statements of a reset |
| `adapters/tts` | provider chain | `speak` | fallback order, quota spent before failure, chunks |
| `adapters/{cache,composite,retry}.py`, `youtube_search.py`, `google_trends.py` | LRU/TTL cache, search quota | `fetch` | stale entries, partial sources, retries, a rolling window |
| `adapters/llm`, `content` | chain of adapters | `generate` | retries times fallbacks times sections; floors of a budget |
| `adapters/audio`, `adapters/video` | remote jobs, files | generate, poll, download, assemble | bounded polling, partial files, one file name per trend |
| `metrics_collector.py`, `adapters/analytics` | tables `metrics`, `published_videos`; smoothed cache | `collect`, `get_stats`, `get_top_videos` | late and repeated collections |
| `adapters/monitoring`, `notifications`, `metrics` | window, averages, sent alerts, Bloom filter | record, snapshot, send | tumbling window, mark before or after the POST, resets |
| `rl`, `learner`, `feedback` | bandit arms, PPO rows, weights, experiments, running statistics | select, update, analyze, shape | counts that must agree; two processes that save all they know |
| `quality` | trie, evidence chain | insert, sanitize, check, append, verify | overlapping phrases, artifacts made for an old hash |
| `utils/hyperloglog.py` | registers | add, merge | order, repetition and overlap of merges |
| `seo`, `trend_analyzer.py`, `niches`, `reporting` | none | text and number crunching | numeric edges only |

The parts call each other synchronously inside one process; the only shared
state is the database and the file system. Concurrency comes from two
containers on one database, failure from exceptions at every call and from
processes that stop.

What makes each part correct: the scheduler must hand out each saved job once,
in due order, within the daily limit; the pipeline must end every run with a
status that tells the truth, upload only what passed the checks, and record what
it uploaded; quotas must not be overdrawn beyond what two unsynchronised
processes can do; caches must not serve stale data; remote jobs must be waited
for a bounded time; a file that is handed on must be what it is taken for;
statistics must be those of what was recorded, whatever the order.

## Modules

| module | models |
|---|---|
| `UploadScheduler` | the scheduler over its table, any number of processes |
| `JobQueue` | what the queue promises, without memory, table or process |
| `SchedulerQueue` | the refinement mapping from the first to the second |
| `Pipeline` | `run_pipeline` and `update_metrics`, composed with the scheduler |
| `QuotaGuard` | the token bucket in front of every upload |
| `YouTubeUpload` | `upload()` stage by stage, composed with the bucket |
| `ServiceQuota` | the table of service quotas and its reset, used by several processes |
| `SpeechChain` | the text-to-speech chain, composed with the quota table |
| `TrendCache` | the LRU cache with a time to live |
| `TrendSources` | `fetch()` of the composite source, composed with the cache |
| `ScriptWriter` | script generation over the LLM chain, the token budget |
| `StableSort` | `sorted()` and `list.sort()` with `reverse=True`, by places |
| `MusicChain` | Suno, Pixabay, silence; Kling |
| `StockFootage` | searching and downloading stock clips into a directory that stays |
| `Assembly` | the video files of several runs and the jobs that name them |
| `TextWrap` | the three loops that cut text to length (pure) |
| `NicheLearning` | the UCB1 bandit, its table, its reset and the niche weights |
| `Feedback` | feedback scorer, A/B tester, reward shaper, reservoir sampling |
| `RunMetrics` | metrics aggregator, Prometheus exporter, moving averages |
| `VideoMetrics` | collecting and ranking of video statistics |
| `Alerts` | alert manager and Slack notifier |
| `Sketch` | both HyperLogLog classes |
| `QualityGate` | blocklist trie, sanitizer, blacklist, compliance, Bayes decision |
| `EvidenceChain` | the hash chain of artifacts |
| `Learning` | the ten modules above, from `NicheLearning` on, that share no variable; `part` says which one moves |
| `MCUploadScheduler`, `MCPipeline`, `MCLearning` | instances for TLC |
| `MCServices` | instances of `YouTubeUpload` and `SpeechChain`; `part` says which one moves |
| `MCProduction` | instances of the modules from `TrendCache` to `TextWrap`; `part` says which one moves |
| `Powers`, `Tables`, `Sampling` | powers of a number, rows replaced in a table, reservoir sampling: pure, used by the modules above and by their proofs |
| `PipelineProofs` (with the scheduler), `YouTubeUploadProofs` (with the bucket), `SpeechChainProofs`, `TrendProofs`, `ProductionProofs` | theorems |
| `LearningProofs`, `StatisticsProofs` | theorems about `Learning`: alerts, filters, evidence and sketches; bandit, weights, metrics, experiments, rewards and samples |
| `FiniteSums` | lemmas about sums, products, powers, counting and sampling over finite sets |

**UploadScheduler.** `heap[p]`, `uploads_today[p]`, `last_date[p]` are the three
fields of the object in process `p`; `row` is the table, one row per plan id.
A call is split where another process or a crash can come between:
`schedule` is `Schedule` (heappush) and `SaveRow` (INSERT OR REPLACE);
`next_due` is `CheckLimit` (date, counter, empty heap), `Peek` (due test and
heappop), `DeleteRow` (delete by plan id, committed) and `Return` (count and hand
out). `Start` is the
constructor with the reload, `Crash` any end of the process. A job is its plan,
its due time and its maker; the heap compares due times only, the table plan ids
only. `Faults` says which database calls may fail and whether processes stop;
failing calls are logged and swallowed as in the code. `starts`, `incarnation`,
`scheduled`, `saved`, `handed`, `used`, `late`, `kept` and `lost` are history: `used`
counts by the date of the clock and not by the date the code keeps, `late` are the dates on
which a job came out that was admitted the day before, `kept` the jobs whose row could not
be deleted, `lost` those a process had in hand, their row deleted, when it ended.

**Pipeline.** `stage[p]` is the place in `run_pipeline`; every stage that ends in
a database or YouTube call is an action. The scheduler's own actions are joined
with the stage that calls them, so `Take` is `Peek`, `DeleteRow` or `Return` plus the
progress of the run. `LoadArchive` and `CheckScript` are two steps: another run may save its
report between them. Storage errors lead to the `except` clause (`Fail`), whose own
`save_run` may fail again, and so do the directories, the TTS adapter's construction and
the size of the audio file ("disk") and an update of the policy that raises ("train"); other
stages swallow errors as the code does (script fallback, TTS, assembly). The three ways of reading the dry-run switch are the
operators `ConfigDry`, `DryRun` and `UploaderDry`. Scripts are model values, equal
when the gate would call them similar; trend ranking, text and rendering are
abstracted to their outcomes. `published` holds only the video ids, which are
the key of that table. "storage" in `Errors` stands for every raising call of the
stage (the trend source included).

**QuotaGuard.** `tokens` and `last_refill` are the two fields of the object,
`clock` is `time.monotonic()`. A token is counted as `Day` units, so that one unit
of time refills `MaxPerDay` units and the arithmetic stays in integers; rounding
of floats is left out. `Refilled` is the lazy refill with its clamp, `Grant` and
`Deny` are the two outcomes of `allow()`, `Renew` is the constructor of a new
process, which starts with a full bucket. `granted[t]` is history: the uploads
allowed at time `t` or later, so a window is a difference of two entries.

**YouTubeUpload.** One process makes one call of `upload()` after another. `stage` is
the place in the method: `Begin` covers the refusals in the order of the code
(dry-run, report, file) and the guard, then come the sign-in (`SignIn`), one
`next_chunk()` per step (`NextChunk`), `SetThumbnail` and `SchedulePublic`. The
resumable session belongs to YouTube and is external: a request may fail before
or after its chunk was stored, so an upload may be complete while the program
still retries. An error that is not a 5xx, or one too many, ends the call with
"http"; a process that stops ends it with "stopped". Time passes anywhere.

The header of `youtube_upload.py` (13-16) lists the bucket before the report and
says that a 403 becomes `QuotaExhaustedError` (22); the code looks at the report
first and lets the `HttpError` of a 403 through. The model follows the code.

**ServiceQuota, SpeechChain.** `used` and `start` are the columns of `service_quota`;
`_maybe_reset` is a SELECT and an UPDATE, and every caller goes through both, so
each process carries `at` (where it is in the reset) next to `phase` (where it is
in `speak`). A service is checked by the chain and again by its adapter, asked
once or chunk by chunk, its file is written and only then the quota consumed.
`Faults` names what may fail. `billed` is what a service synthesised, `charged`
what was consumed for the text, `unrecorded` the services whose last request
was lost before it could be consumed. Lengths are chunks.

**TrendCache, TrendSources.** `store` is the OrderedDict, front first.
`latest` and `touched` are history for the property. `fetch()` is split at its
network calls: time passes between `can_proceed()`, the request and its
retries. Scores are integers up to `Top`, weights are numbers of halves.
`_deduplicate` takes one signal a step (`Deduplicate`); its dict is the sequence `best`, since a
dict keeps the order of insertion.

**ScriptWriter.** A text is its number of words and the keywords in it; `try`
counts the attempts of the adapter at `place` of the chain. The budget's shares
are computed exactly where the code uses floats and `int()`; weights are the
code's times ten.

**MusicChain.** `step` is the place in `generate()`, `file[path]` what lies at the
path of the music file; `ordered` counts the generations Suno accepted, `wasted` those of them
that came to no file. The job at the service (`Progress`) is external and may
stay unfinished for ever. Kling works the same way and is the chain
`<<"kling">>`. **StockFootage.** `disk[c]` is absent, part or whole and outlives the
process. **Assembly.** Of a file it is kept which runs wrote to it and whether it is
whole; opening it truncates it under a run that still writes. **TextWrap.** A word
is its length; the property compares what goes in with what comes out.

**NicheLearning.** A reward is in units of 1/12; an average is in thousandths of
such a unit and rounded down, as is the exploration term, a table of
`sqrt(2 ln N / n)` of which only that it falls with the pulls `n` is used.
`bandit.order` is the order of its dict, which decides between equal scores.
`chosen` and `basis` are history. The module is
instanced twice, for learning alone with more pulls and together with the tables.
**Feedback.** Two scorers on one table keep their dict from when they started.
Weights are in thousandths; the safety bounds are rounded inwards, so that a weight of the model
stays as near as one of the code does. The chi-squared test of a two by two table
(with Yates' correction, significant above 3.84) is computed in integers. Welford's
accumulators are exact: `mean` in parts of `scale` and `s` in parts of its square, and
`scale` grows with every reward, so that the division leaves no remainder.
**Sampling.** `Draws` are the numbers one stream may draw, `Reservoir` is what is kept then;
`SampleUniform` counts the draws that lead to each sample.

**RunMetrics, VideoMetrics, Alerts.** One action per public method. Moving
averages are scaled to stay whole; each tracker of a `MultiMetricTracker` keeps its own
alpha. In `VideoMetrics` an attempt is three steps, the clock (`Ask`), the query (`Fetch`)
and the row (`Keep`), while views come in for any past date (`seen`); an answer without
rows is a snapshot of zeros, saved as such. In `Alerts` the POST is a step of its own, so time
passes between mark and answer, and `Taken` says when the webhook has the message, which the
program learns from the answer or not at all. A request that was given up on is
taken by then or never.

**Sketch.** A hash is a register and the bits left. Both ways of counting leading
zeros are translated and compared. **QualityGate.** Texts are sequences over a small
alphabet with capitals and a letter that is two in lower case (`Lower`); the trie is its set
of nodes. `FindMatches` is the one way to list what was found in order. A step of the
sanitizer is a turn of its inner loop: the place is found in the lowered text and used in
the text itself (`Spliced`), up to `MaxTurns` turns. The lower case of a character does not depend on its
neighbours (the Greek final sigma is left out). The Bayes filter adds
logarithms of odds, the model multiplies integers.
**EvidenceChain.** A hash is what is hashed, with the fields put together as in the code, so
the model shows where concatenation without separators is ambiguous. `edited` says that somebody
changed the list without `append()`.

## Runs

| run | question | answer |
|---|---|---|
| `bluegreen` | two processes, restarts anywhere, failing saves, loads and deletes | `AtMostOnce`, `DailyLimit`, `SavedUntilHanded` hold |
| `queue` | is one process an implementation of `JobQueue`, does anything starve | `ImplementsJobQueue`, `NoStarvation` hold |
| `faults` | two containers run pipelines on one database, or one restarts anywhere; every storage and upload error, failing saves and deletes | `OkIsRecorded`, `OnlyPassedContent`, `BacklogBounded`, `UploadedOnce`, `KeepsScheduler` hold |
| `live` | does every run end | `RunEnds` holds |
| `services` | calls of `upload()` over the bucket, errors before and after each chunk, restarts; two containers speak on one quota file, failures and stops anywhere | `TokensAreForUploads`, `RetryBudget`, `ResultIsTrue`, `WindowBound`, `KeepsGuard`, `UploadEnds`, `BudgetKept`, `SpokenIsPaid`, `SpeakEnds` hold |
| `production` | trends, script, music, footage, text, video files, with every answer and error | `ServesLru`, `SearchWindow`, `MergedIsBest`, `ScriptIsWhole`, `RequestsBounded`, `TokensShared`, `SunoWithinLimit`, `FilesAreWhole`, `PiecesFit`, `ProductionEnds` hold |
| `learning` | bandit, weights, experiments, metrics, alerts, sketches, filters, evidence | `NichesLearn`, `MetricsTrue`, `AlertsSpaced`, `SketchOfSet`, `GateHolds` hold |

The other runs check what the repository says of the program and the code does not keep. TLC
finds each violated; they are described under `findings` in `PROJECT.json`.

| run | claim | property | what happens |
|---|---|---|---|
| `inhand` | jobs survive restarts (scheduler.py:9) | `SurvivesRestarts` | a stop between the delete of a row and the return |
| `restart` | `MAX_UPLOADS_PER_DAY` (scheduler.py:10) | `LimitPerDate` | the counter starts at zero in each process |
| `enable` | `YTAIMBOT_DRY_RUN=false` uploads (youtube_upload.py:206) | `UploadsEnabled` | the built uploader stays dry |
| `repeat` | the gate sees earlier scripts (sqlite.py:560) | `RepeatsBlocked` | it compares with lists of matches |
| `drift` | the drift check (orchestrator.py:430) | `DriftCheckPasses` | `load_metrics` does not exist on `SQLiteStorage`: after 20 published (or dry-run) videos every run fails |

More claims of the repository are stated as properties in the modules and are no runs of their own. TLC
finds each violated too, as an INVARIANT in place of the properties of the given cfg, with its constants
or the ones added here.

| claim | property | cfg | what happens |
|---|---|---|---|
| jobs survive restarts (scheduler.py:9) | `SurvivesRestarts` | `inhand`, two makers, `MaxPerDay = 0`, `MaxJobs = 2` | two jobs of one trend have one row (sqlite.py:157) |
| `MAX_UPLOADS_PER_DAY` (scheduler.py:10) | `LimitPerDate` | `restart`, `DateOf <- DayPerUnit`, `MaxTime = 1`, `MaxStarts = 1` | a job admitted before midnight counts for the day before |
| audio is where `speak()` was asked to write it (adapters/base.py:205-206) | `AudioAtOutputPath` | `services`, `Chain <- GeminiThenEdge`, `Limited` and `Elsewhere` gemini-tts, `Chunked` edge-tts | gemini-tts writes next to it (gemini_tts.py:142): the run goes on without audio |
| the sum is at most the total (token_budget.py:82, tests/unit/test_token_budget.py:17) | `TokensWithinTotal` | `production` | floors exceed a small total |
| the daily limit of generations (suno.py:43, 119) | `SunoDailyLimit` | `production` | a generation that came to no file is not counted |
| phrases fit a line (subtitle.py:177) | `PhrasesFit` | `production` | a long word is not cut |
| chunks of at most `max_chars` (ttsmaker.py:166) | `ChunksFit` | `production` | a space is not counted, a long sentence not cut |
| no copy within the cooldown (alerts.py:64-65) | `CopiesSpaced` | `learning` | the answer was lost, the message is not marked |
| the gauge is a moving average (prometheus.py:67, 215) | `GaugeIsAverage` | `learning` | the raw rate is exported (aggregator.py:471) |
| overlapping phrases are each replaced (sanitizer.py:64) | `EachReplaced` | `learning` | the first replacement breaks up the second phrase; the order is alphabetical |
| surrounding text is preserved (sanitizer.py:63) | `SurroundingsKept` | `learning` | a place of the lowered text is used in the text |
| the work is bounded (sanitizer.py:76) | `TurnsBounded` | `learning` | the same, behind the phrase: the loop never ends |
| tampering is detectable (evidence.py:5) | `TamperingTells` | `learning` | fields joined without separator, no length |

The passing properties about the
same matters say what does hold: `SavedUntilHanded` names the two ways a stored job is lost,
`DailyLimit` bounds one start by the date of the clock, `SunoWithinLimit` counts what
was wasted, `TokensShared` the floors, `PiecesFit` the pieces that are too long, `AlertsSpaced` speaks of
copies whose answer arrived, `GateHolds` of texts that come out of the sanitizer and of
edits up to the two cases.

The properties of `production` and `learning` are conjunctions of those of their
parts, which are stated and explained in the parts' modules (`FilesAreWhole`, for
instance, is `MusicIsWhole`, `FootageIsWhole` and `VideosAreWhole`).

**Bounds.** Two processes are what `deploy.sh` starts. Two plans and two or three
jobs give a duplicate plan id together with an unrelated job, and a backlog of
more than the daily limit of one. `MaxTime` 1 or 2 with a day per unit gives
midnights between any two steps; `MaxStarts` 2 or 3 a restart of each process. For the pipeline two runs
suffice for one run to upload the other's job, three in `live`; two starts are two
containers or one restart (more of both, and midnight, are in `bluegreen`). `DriftMin`,
`Threshold` and `Batch` are 20, 50 and 10 in the code and 1 or 2 here: the code
compares counts with them and does nothing else with the numbers. In `services`
two calls share a bucket of one token that is full again after two units of
time, a file has two chunks and one retry stands for the three of the code:
errors can hit both chunks, use up the retries and meet a refill or a restart
at every point. The bounds are
guards (`MaxStarts`, `MaxJobs`, `MaxTime`) named in the modules.

Of speech a limit of two chunks and texts of one and two chunks make two texts fit, not
fit, and overdraw; three calls let both processes pass a check while a third
text waits; one midnight. `production`: a cache of two entries with three keys evicts;
a search window of two units with a budget of one and one retry refuses, waits and
evicts; ten token budgets lie around the floors (192 is three floors, 237 the
first at which no floor applies, 1 and 100 below all floors); three adapters with two, one and one retries; two
songs with a limit of one; two clips of each service, two wanted, two plans; every text of up to
three words of up to five characters on lines of four; three runs of two
workers on two trends. `learning`: seven pulls of two arms reach every order of
exploring and exploiting; a window of two results and four records; two videos, one
retry; an alert text whose bits of the filter are those of two others; four
items in four registers; a post whose answer is lost and three more; phrases that are
prefixes, suffixes and parts of each other, in any case, in texts of up to four characters, with
and without a letter that is two in lower case before them, and nine turns, more than any
text needs that comes out; four artifacts of which two are pending;
samples of one or two out of up to five.

Deadlock checking is off because processes end and the bounded clock stops.

**Fairness.** `FairSpec` assumes that the clock advances, a stopped process is
started again (`--restart unless-stopped`) and a process keeps finishing its calls
and asking for due jobs. `schedule` is never forced. `PFairSpec` assumes that a
started run goes on: `run_pipeline` is straight-line code. `UFairSpec`
assumes the same of `upload()` once it has a token. `SFairSpec` and the fairness of
`production` (`Step`) assume it of `speak()` (`services` puts both together), `fetch()`, the two `generate()` and
the download of a plan; neither a new call, the clock nor the progress of a job
at a service is ever forced. None assumes that a call succeeds. `learning` has no
liveness property: its operations are single calls.

## Proofs

*Queue, pipeline, publishing.* All theorems hold for any number of processes, plans, starts, clock values and
limits; the assumptions on constants are the ASSUMEs of the modules (a job is not
"no job", dates do not go back, limits are naturals).

* `TypeCorrect`: `TypeOK` is inductive.
* `DailyLimitHolds`: `DailyLimit` is about history, so the strengthening
  `LimitInv` ties the in-memory counter of a live process to the history of its start on
  the date it counts for, says that later dates and later starts are still at zero, that a call
  past the limit check has room for one more, and that a date gets its extra job
  only from a call that began before it.
* `AtMostOnceHolds` (any faults): `OnceInv` adds that nothing is in heap, row or hand that was
  not scheduled, that a job being saved is in one heap only, and that a job in hand whose
  row is still there is one whose delete failed.
* `SavedUntilHandedHolds`: follows with the `Known` part of that invariant.
* `QueueImplemented` (one process, deletes and loads do not fail): every step maps
  to a step of `JobQueue` or stutters; the invariant `CoverInv` says that the heap of an
  idle process covers the table, which is why the earliest heap job is the
  earliest pending one.
* `PipelineKeepsScheduler`: every step of the pipeline is a step of the scheduler
  or leaves it alone, hence everything above holds of the composed system.
* `PipelineDailyLimit`: hence the daily limit holds of the pipeline.
* `PipelineTypes`: `PTypeOK`, which ties the stage of a run to the step of the
  scheduler call inside it, to the run's report and to the job in hand, is
  inductive.
* `OnlyPassedContentHolds`: for any number of processes and runs, every fault and
  every publisher. The invariant `GateInv` says that a run is executed by at most
  one process and only while its row is `in_progress`, that it has no report before
  the check, that from `assemble` to `enqueue` its report says pass, and that every
  job ever scheduled was made by a run with such a report.

* `WindowBoundHolds` (with `GuardTypes`): a window of length L sees at most
  `max_per_day` plus what L refills. `WindowBound` alone is not inductive, because it
  does not mention the tokens that are left; `BudgetInv` says for every earlier
  time `a` that tokens taken since `a` and tokens still there were in the bucket
  at `a` or have been refilled since. A window of one day therefore sees up
  to just under `2 * max_per_day` uploads, where `quota_guard.py:51` speaks of uploads per
  day, and a restart starts with a full bucket again.
* `UploadKeepsGuard`, `UploadWindowBound`: the adapter uses the bucket through its
  operations only, so the bound holds for it.
* `UploadTypes`, `TokensHold`, `RetriesHold`, `ResultsHold`: for any calls, chunks, retries and restarts.
  `Accounted` strengthens them to the middle of a call: it has a token, its
  errors equal the retry counter, nothing is at YouTube before the chunk loop, and a
  thumbnail that was asked for is there once the date is set.

* `UploadedOnceHolds` (any number of processes and faults; each process for itself, since two
  containers may both upload a job they both loaded): `RunTakesOne` says that a run takes one job, before
  that none, and uploads no other; `TakenOnce`, that what a run took was handed out by the
  scheduler and to no other run. The rest is `AtMostOnce`.
* `OkIsRecordedHolds`: any number of processes, every fault. `Recorded` follows a video from
  the upload to the row: which stages are still to come, and which publishers can be in use there.
* `BacklogBoundedHolds`: `BacklogInv` compares the heap at each stage with the heap the
  run found, counts the job that is out while it is peeked at, and needs that every
  scheduled job is due at once (`AllDue`): orchestrator.py schedules it for `time.time()`.

*Speech* (`SpeechChainProofs`).

* `SpeechTypes`, with `Metered`: only a service with a limit gets to the tracker's statements.
* `SpokenIsPaidHolds`: `Spoken` says what is on disk and what is paid for between the file
  and the end of the call.
* `BudgetKeptHolds`: `Shared` is the bound with the texts on their way; a check that passes adds at
  most one longest text and finds at most one of each other process. `AloneInv` follows a
  single process: what the service has synthesised is in the table or in the process's hand,
  and the table with the text on its way is within the limit; `PartsFit` bounds the chunks
  asked for so far. Sums over processes are cardinalities of sets of chunks, so
  no induction is needed.

*Trends* (`TrendProofs`), for the cache driven by `fetch()` and by clients of its own.

* `SearchWindowHolds`: `LogInv` says that the log is a last part of the list of all searches
  and that what was evicted is older than every window that is still open; a search is
  recorded with fewer than `Budget` left in the log.
* `ServesLruHolds`: three facts about `store` and `touched` are kept together. `Stored`: an
  entry holds the last value put and its time. `InOrder`: the entries are in the
  order of their last use. `Crowded`: a young key without an entry was pushed out, so
  `Capacity` other keys were used since. Each operation is a thinning of the
  sequences and an append (`Thins`, `Filled`, `Moved`), about which the lemmas are.
* `MergedIsBestHolds`: `MergeInv` says of the loop of `_deduplicate` that `best` has each
  title of the signals seen so far once, with its best score (`Deduped`), and of the cache that
  what lies under the composite's key is the answer to the last signals.

*Sorting.* `Places` and `OrderSorts` show that the places of `StableSort` are a permutation
that puts the largest keys first; `sorted()` in the trends and `sort()` in the
footage rest on them.

*Material* (`ProductionProofs`), however the steps of the parts are put together.

* `SunoWithinLimitHolds`: `MusicInv` says that Suno accepted at most what was counted, what was
  wasted and the generation under way, that Suno is at work only below its limit, and
  that the adapter at work is one of the chain.
* `FilesAreWholeHolds`: `MusicFiles` for the path of the music; `FootageOrder`, `FootageFiles`
  for the clips: those handed out are hits in their order, and a clip in part is open
  or broke off; `VideoInv` for the assembler: a run has one worker (`RunApart`), a
  job's run is over and has no temporary file (`JobsSound`).
* `TypesOKHolds`: the types of cache, signals, search log and music chain, from the same
  invariants.
* `ScriptIsWholeHolds`, `RequestsBoundedHolds`: `WriterInv` says that the sections written so far
  are the first ones, each with its keywords and within its maximum, and that the requests made are
  at most the attempts of the sections, adapters and tries before (`Attempts`).
* `PiecesFitHolds`: of any text, a text being a sequence of sentences of word lengths. The
  loops are folds over words or sentences, opened step by step (`LeftOn`), and each has its
  loop invariant. Where words stay whole (phrases, chunks), `Joins` says that the pieces done
  and the open one are the first `k` words, that a piece above the limit is a single
  word and, where the code fills its pieces, that each next word did not fit. Where they
  may be cut, `Cuts` says that the pieces have all the characters so far and none has more
  than the limit.
* `TokensSharedHolds`: of any budget. `AllocationIs` opens the computation: shares are
  exact where no floor applies, a floor lifts a share to the minimum, the
  remainder goes to the heaviest section (`HeaviestIs`).

*Counting* (`FiniteSums`). The library's induction theorems take an operator, so what has to be shown of all finite
sets is shown by a least counterexample: a smallest set for which a sum does
not grow with its parts, or which has no largest element, loses one element and is smaller.
`FoldOn` is written once for both operations, as the folds of the community modules compute it.
`PowerIs` and `ReservoirMore` unfold recursive functions: a function with
the defining equation is shown to exist up to each number, and any two agree.
`WaysAlike` counts draws: a draw of one element more either leaves it out, in
`l - k + 1` ways for each draw before, or takes it in the place of an element that is not in
the sample, of which there are as many (`LeftOut`, `TakenIn`); both multiply by one
number what was the same for all samples (`FibersCount`).

*Alerts* (`LearningProofs`).

* `AlertsSpacedHolds`: for the alert manager `ManagerInv` ties the mark of a message to the last copy
  that was heard of, and says of a message under way that it is no copy of a young
  one that was. For Slack `WindowInv` says that an attempt before the last window is a cooldown
  older than the window, that a text is attempted once in a window at most, and
  that the bits of the filter are those of the texts attempted in it; hence
  every second attempt is a cooldown after the first.

*Filters and evidence* (`LearningProofs`).

* `GateHoldsAlways`, of the trie: `TrieInv` says that every prefix of what was
  inserted is a node, so a walk that stops at the first missing child misses nothing.
  Of the sanitizer: `TextInv` says that every phrase known at the start that is still in
  the text is still to come in the list of matches. This is inductive if no phrase has a
  part in the replacement (`Apart`), which brings in no phrase then: the lower case of a text put together is
  that of its parts (`LoweredJoin`), so a phrase in the new text was in a slice of the old one (`ApartSplit`),
  whichever slice the shifted place cut out.
* of the policies: what is in one of two texts is in both put together; the odds for bad and for good
  grow crosswise with every feature (`ProductsGrow`), so the decision does.
* of the evidence: `ChainInv` says that a chain nobody edited is genuine: its hashes are
  those of its artifacts, and their times differ from each other and from those of the artifacts that
  wait; and that a chain `verify_chain()` accepts tells the order of appending.

*Sketches* (`LearningProofs`).

* `SketchOfSetHolds`: `SketchInv` says of each sketch that the register of every index is the
  largest rank among the hashes of the added items there, and that what is added
  only grows; merging takes a largest rank of two such sets. `RhoIsRank` shows that both
  ways of counting leading zeros find the place of the first one, for any
  width of a hash, from the powers of two around it (`HalfOf`).

*Learning* (`StatisticsProofs`).

* `NichesLearnHolds`: `BanditInv` ties the three counts of a bandit together (`Tallied`: pulls are the
  sum over its arms, no reward is above its pulls, through update, reset, row by row
  saving and reload), says what `select()` looked at and which arm it took, and that a weight is the
  average of the rows it was made of, with one pull more. `ScorerInv` says of every
  cached and stored weight that it is within 20 % for each update of its niche of a
  value that was stored or meant; a step of the moving average multiplies these bounds
  (`Power(8)`, `Power(12)` over `Power(10)`), and copies of old weights stay within
  them because the bounds only widen.

*Metrics* (`StatisticsProofs`).

* `MetricsTrueHolds`: `RunsInv` says that the window of the aggregator is the last of all
  runs (`LastOf`), that a moving average lies between the least and the greatest of its
  samples and counts them (`Sampled`, `MeanBetween`), and that no count is above
  the one exported. `VideosInv` says that of two rows of metrics of one video the later in
  the table is later in time and, asked from the same date, has no fewer views unless it is a zero
  snapshot, that no row claims more views than were reported, nor the attempt under way more than
  its own dates have, and that a cached rate lies between the least and the greatest rate of its video. `TesterInv`: no variant is counted in two places, and a row
  of results was made from enough impressions of both. `ShaperInv`: `n * mean = scale * sum` and
  `n * s = scale^2 * (n * sum of squares - sum^2)`, which one more reward preserves by an
  identity (`SpreadGrows`) that the provers check in a few steps, with every division
  exact. `SamplesUniform`: from `WaysAlike`.

The assumptions on constants are what the code ensures or cannot do without: a chain of services
is not empty (free_tier_chain.py:122 refuses it), nor is one of music adapters
(audio_chain.py:160 adds the silence), there is a longest text, Kling is in no chain of music adapters, clips
are finitely many and have a size, a script has finitely many sections with weights,
minima and keywords that are natural numbers, a cooldown is at least one unit of time, "nobody"
is not the name of a sender, no blocked phrase is empty, and the odds of a feature are positive and grow with its probability.

In `learning` the exploration term falls with the pulls, there is a register, and signals,
ratios and rewards are numbers of the ranges in the code.

Every safety property of a passing run is proved. Only model-checked are the liveness properties `NoStarvation`,
`RunEnds`, `UploadEnds`, `SpeakEnds` and `ProductionEnds`: they rest on fairness, which is beyond the prover.
What needed induction over data (folds over texts, windows and samples, powers, the sampler) is
proved from least counterexamples, see *Counting*.

Two properties had to be corrected for their proofs. The weight of a niche was
compared with its average without the error of rounding averages down, which is
true within the bounds of the run and false beyond them. The moving average of
the scorer's weights was rounded outside its own safety bounds.

## What the models show beside the findings

Behaviour a maintainer should know of. The models follow the code in each case;
the properties are stated so that they hold of it.

*Queue and pipeline.* A full PPO batch clears the whole table
`ppo_transitions`, rows never loaded into memory included (orchestrator.py:735). The
configuration dict is passed to `create_video_backend` as its flag
(orchestrator.py:959).

*Trends.* `build_trend_source` calls `CompositeTrendSource(adapters=..., weights=...)`
with keywords its constructor does not have (adapters/trend/__init__.py:86-90): with
`YOUTUBE_API_KEY` set it raises. google_trends.py never raises the retryable error
its retries wait for. The composite caches its synthetic answer like a real one.
`size` of the cache counts expired entries, against its comment (cache.py:117-120).

*Quotas and speech.* Two processes that both see an expired period may both reset it, the
second after the first has consumed again (service_tracker.py:263-287).
403 is documented as `QuotaExhaustedError` (youtube_upload.py:22) and is not.

*Generation.* Suno's counter is never reset. ollama.py documents 400 as not retryable and retries
it. `_format_timestamp` (subtitle.py:50-75) can give `00:00:05,1000`. A
clip whose download broke off is served as cached from then on (pexels.py:181-193). A
burnt video leaves its temporary file when ffmpeg times out (assembler.py:321-352).

*Learning and metrics.* `niche_arms` is never written, so the bandit starts fresh
in every process; a reset on drift is undone by the next
`optimize_niche_weights`, which loads the table again. The scorer saves its whole cached
dict and so undoes what another process or the optimizer saved; a weight of 0 is
never left again. The weekly feedback looks for a key that no row has and updates
nothing. The aggregator counts a video twice if
both of its interfaces are used. For a negative advantage optimizer.py
reinforces the chosen action too.

*Alerts.* "3 consecutive runs" (alerts.py:6) is not implemented. Messages contain
numbers, so the deduplication rarely matches. The Slack notifier marks a message before
its POST: a failed alert is suppressed for the rest of the window, which tumbles
and does not slide.

*Text.* The sanitizer does not end either when a blocked phrase occurs in `[removed]`,
whatever the case of the letters: its replacement brings the phrase back (`TurnsBounded`
finds the other way; `GateHolds` speaks of texts that come out).

*Callers.* Of the modelled classes these have no caller outside tests and examples:
AudioChain, Kling, Pexels, subtitles and thumbnails; FeedbackScorer, ABTester, MetricsCollector,
AlertManager, SlackNotifier, HyperLogLog, MetricsAggregator, EvidenceChain,
ComplianceChecker and ContentSanitizer. They are modelled by what their methods do.

## Not modelled

Rendering and the local video generator (media processing); SEO scoring, trend ranking, templates, characters and
stories (arithmetic on strings without state); the PPO update, the Kolmogorov-Smirnov
statistic (floating-point arithmetic: its outcome is a choice of the model); the weekly report, dashboards, logs and the Prometheus
server (output); `run_daily_maintenance` and `publish()`, which removes old files and
which returns False; Coqui (local, not part of the chain). Rounding of floats is
left out throughout. Per component see `PROJECT.json`.

## Plan

1. Done: scheduler, abstract queue, pipeline, publishing, with proofs.
2. Done: quotas and speech, trends, scripts, music, footage and video files, learning,
   metrics, alerts, sketches, filters, evidence.
3. Done: proofs of every safety property that a passing run checks.
4. Blue-green swap: `deploy.sh` and the two containers over `Pipeline`.
