----------------------------- MODULE SpeechChain -----------------------------
(***************************************************************************)
(* FreeTierTTSChain.speak() of modules/adapters/tts/free_tier_chain.py over *)
(* the adapters ElevenLabs, Gemini, TTSMaker and edge-tts and the quota     *)
(* table: check, ask, write the file, consume, or fall through to the next. *)
(* Each process speaks one text after another and may stop at any point.    *)
(***************************************************************************)
EXTENDS ServiceQuota, Sequences

CONSTANTS
    Chain,      \* the services of this installation, in order
    Chunked,    \* services asked for one chunk of the text at a time
    Elsewhere,  \* services that write next to output_path (gemini-tts: .wav)
    Texts,      \* lengths of texts, in chunks
    MaxCalls,   \* bound: calls of speak() of all processes together
    Faults      \* what may fail: "request", "disk", "locked", "stop"

Services == {Chain[i] : i \in 1 .. Len(Chain)}

ASSUME ProcsAssumption == IsFiniteSet(Procs) /\ Procs # {}
ASSUME ChainAssumption ==
    /\ Len(Chain) \in Nat \ {0}     \* an empty chain is refused when it is built
    /\ {"none", "failed"} \cap Services = {}
    /\ Limited \cup Chunked \cup Elsewhere \subseteq Services
    /\ Texts \subseteq Nat \ {0}
    /\ \E n \in Texts : \A m \in Texts : m <= n
    /\ MaxCalls \in Nat

VARIABLES
    phase,      \* where speak() is in each process
    place,      \* index in Chain
    chars,      \* len(text)
    parts,      \* chunks asked of the service so far
    files,      \* services whose output of this call is on disk
    outcome,    \* how the last call ended
    \* history
    calls,      \* calls begun
    charged,    \* services whose quota this call consumed
    billed,     \* what each service has synthesised since its period started
    unrecorded, \* services that synthesised something the table will not hear of
    speakers    \* processes that ever called speak()

local   == <<phase, place, chars, parts, files, outcome>>
history == <<calls, charged, billed, unrecorded, speakers>>
svars   == <<qvars, local, history>>

Phases == {"idle", "precheck", "skip", "check", "ask", "write", "consume", "log"}

STypeOK ==
    /\ QTypeOK
    /\ phase \in [Procs -> Phases]
    /\ place \in [Procs -> 1 .. Len(Chain)]
    /\ chars \in [Procs -> Texts] /\ parts \in [Procs -> Nat]
    /\ files \in [Procs -> SUBSET Services]
    /\ charged \in [Procs -> SUBSET Limited]
    /\ outcome \in [Procs -> {"none", "failed"} \cup Services]
    /\ calls \in 0 .. MaxCalls
    /\ billed \in [Limited -> Nat]
    /\ unrecorded \subseteq Limited /\ speakers \subseteq Procs
    \* A reset is pending only where the tracker is in use.
    /\ \A p \in Procs : at[p] # "select" => phase[p] \notin {"idle", "ask", "write"}

SInit ==
    /\ QInit
    /\ phase = [p \in Procs |-> "idle"]
    /\ place = [p \in Procs |-> 1]
    /\ chars \in [Procs -> {CHOOSE n \in Texts : TRUE}]
    /\ parts = [p \in Procs |-> 0]
    /\ files = [p \in Procs |-> {}]
    /\ outcome = [p \in Procs |-> "none"]
    /\ calls = 0
    /\ charged = [p \in Procs |-> {}]
    /\ billed = [s \in Limited |-> 0]
    /\ unrecorded = {} /\ speakers = {}
------------------------------------------------------------------------------
Service(p) == Chain[place[p]]

Goto(p, f) == phase' = [phase EXCEPT ![p] = f]
Return(p, r) == Goto(p, "idle") /\ outcome' = [outcome EXCEPT ![p] = r]

\* Mutant of NextService: an adapter that fails is tried again.
NextServiceSame(p) ==
    /\ Goto(p, "precheck")
    /\ UNCHANGED <<place, outcome>>

\* `continue` in the loop of speak(), or the error after the last service.
NextService(p) ==
    IF place[p] < Len(Chain)
    THEN /\ place' = [place EXCEPT ![p] = @ + 1]
         /\ Goto(p, "precheck")
         /\ UNCHANGED outcome
    ELSE Return(p, "failed") /\ UNCHANGED place

Stay == UNCHANGED <<place, outcome>>

Speak(p, n) ==
    /\ phase[p] = "idle" /\ calls < MaxCalls
    /\ calls' = calls + 1
    /\ speakers' = speakers \cup {p}
    /\ chars' = [chars EXCEPT ![p] = n]
    /\ place' = [place EXCEPT ![p] = 1]
    /\ files' = [files EXCEPT ![p] = {}]
    /\ charged' = [charged EXCEPT ![p] = {}]
    /\ outcome' = [outcome EXCEPT ![p] = "none"]
    /\ Goto(p, "precheck")
    /\ UNCHANGED <<qvars, parts, billed, unrecorded>>

\* _maybe_reset in whichever call of the tracker is next.  An UPDATE that finds
\* the database locked raises: out of speak() in the chain's own check, into the
\* next service inside an adapter.
Tracking(p) == phase[p] \in {"precheck", "skip", "check", "consume", "log"}
MaybeReset(p) ==
    /\ Tracking(p)
    /\ \/ SelectPeriod(p, Service(p)) /\ UNCHANGED <<phase, billed, unrecorded>> /\ Stay
       \/ /\ ResetPeriod(p, Service(p))
          /\ billed' = [billed EXCEPT ![Service(p)] = 0]
          /\ UNCHANGED <<phase, unrecorded>> /\ Stay
       \/ /\ "locked" \in Faults /\ at[p] = "reset"
          /\ Acted(p)
          /\ IF phase[p] \in {"precheck", "skip"}
             THEN Return(p, "failed") /\ UNCHANGED place
             ELSE NextService(p)
          /\ unrecorded' = IF phase[p] = "consume" THEN unrecorded \cup {Service(p)}
                           ELSE unrecorded
          /\ UNCHANGED <<today, used, start, billed>>
    /\ UNCHANGED <<chars, parts, files, calls, charged, speakers>>

\* The chain's own check.  edge-tts does not look at the table again.
PreCheck(p) ==
    /\ phase[p] = "precheck" /\ at[p] = "act"
    /\ Acted(p)
    /\ IF Available(Service(p), chars[p])
       THEN Goto(p, IF Service(p) \in Limited THEN "check" ELSE "ask")
       ELSE Goto(p, "skip")
    /\ UNCHANGED <<today, used, start, place, chars, parts, files, outcome, history>>

\* check_available() once more in the adapter.
AdapterCheck(p) ==
    /\ phase[p] = "check" /\ at[p] = "act"
    /\ Acted(p)
    /\ Goto(p, IF Available(Service(p), chars[p]) THEN "ask" ELSE "skip")
    /\ UNCHANGED <<today, used, start, place, chars, parts, files, outcome, history>>

\* remaining() for the log or the error text, then the next service.
Skip(p) ==
    /\ phase[p] = "skip" /\ at[p] = "act"
    /\ Acted(p)
    /\ NextService(p)
    /\ UNCHANGED <<today, used, start, chars, parts, files, history>>

\* What one request brings: the whole text, or one chunk of it.  The parts that
\* have come are dropped when the adapter raises.
Portion(p) == IF Service(p) \in Chunked THEN 1 ELSE chars[p]
Billed(p, n) ==
    billed' = IF Service(p) \in Limited
              THEN [billed EXCEPT ![Service(p)] = @ + n] ELSE billed
Received(p, n) == parts' = [parts EXCEPT ![p] = n]
Missed(p) == unrecorded' = unrecorded \cup ({Service(p)} \cap Limited)

\* One request; a lost answer is synthesised, and billed, all the same.
Ask(p) ==
    /\ phase[p] = "ask"
    /\ \/ /\ Billed(p, Portion(p))
          /\ IF parts[p] + Portion(p) = chars[p]
             THEN Goto(p, "write") /\ Received(p, 0)
             ELSE Goto(p, "ask") /\ Received(p, parts[p] + Portion(p))
          /\ UNCHANGED unrecorded /\ Stay
       \/ /\ "request" \in Faults
          /\ \E n \in {0, Portion(p)} :
                /\ Billed(p, n)
                /\ IF parts[p] + n > 0 THEN Missed(p) ELSE UNCHANGED unrecorded
          /\ NextService(p)
          /\ Received(p, 0)
    /\ UNCHANGED <<qvars, chars, files, calls, charged, speakers>>

\* Mutant of Write: the quota is not consumed.
WriteOnly(p) ==
    /\ phase[p] = "write"
    /\ files' = [files EXCEPT ![p] = @ \cup {Service(p)}]
    /\ Return(p, Service(p))
    /\ UNCHANGED <<qvars, place, chars, parts, history>>

\* Mutant of Write: edge-tts, too, consumes a quota.
WriteAndCharge(p) ==
    /\ phase[p] = "write"
    /\ files' = [files EXCEPT ![p] = @ \cup {Service(p)}]
    /\ Goto(p, "consume") /\ Stay
    /\ UNCHANGED <<qvars, chars, parts, calls, charged, billed, unrecorded, speakers>>

\* write_bytes, or the merge of the chunks; edge-tts is done with it.
Write(p) ==
    /\ phase[p] = "write"
    /\ \/ /\ files' = [files EXCEPT ![p] = @ \cup {Service(p)}]
          /\ IF Service(p) \in Limited THEN Goto(p, "consume") /\ Stay
             ELSE Return(p, Service(p)) /\ UNCHANGED place
          /\ UNCHANGED unrecorded
       \/ /\ "disk" \in Faults
          /\ NextService(p)
          /\ Missed(p)
          /\ UNCHANGED files
    /\ UNCHANGED <<qvars, chars, parts, calls, charged, billed, speakers>>

Charge(p) ==
    /\ phase[p] = "consume" /\ at[p] = "act"
    /\ Acted(p)
    /\ \/ /\ Consume(Service(p), chars[p])
          /\ charged' = [charged EXCEPT ![p] = @ \cup {Service(p)}]
          /\ Goto(p, "log")
          /\ UNCHANGED unrecorded /\ Stay
       \/ /\ "locked" \in Faults
          /\ NextService(p)
          /\ Missed(p)
          /\ UNCHANGED <<today, used, start, charged>>
    /\ UNCHANGED <<chars, parts, files, calls, billed, speakers>>

\* The log line of an adapter calls remaining() as well.
Log(p) ==
    /\ phase[p] = "log" /\ at[p] = "act"
    /\ Acted(p)
    /\ Return(p, Service(p))
    /\ UNCHANGED <<today, used, start, place, chars, parts, files, history>>

Step(p) ==
    \/ MaybeReset(p) \/ PreCheck(p) \/ AdapterCheck(p) \/ Skip(p)
    \/ Ask(p) \/ Write(p) \/ Charge(p) \/ Log(p)

\* The process ends; the next one opens the same file.
Stop(p) ==
    /\ "stop" \in Faults /\ phase[p] # "idle"
    /\ Acted(p)
    /\ Return(p, "failed")
    /\ unrecorded' = IF \/ phase[p] \in {"write", "consume"}
                        \/ phase[p] = "ask" /\ parts[p] > 0
                     THEN unrecorded \cup ({Service(p)} \cap Limited) ELSE unrecorded
    /\ Received(p, 0)
    /\ UNCHANGED <<today, used, start, place, chars, files, calls, charged, billed, speakers>>

SNext ==
    \/ \E p \in Procs : Step(p) \/ Stop(p) \/ \E n \in Texts : Speak(p, n)
    \/ NextDay /\ UNCHANGED <<local, history>>

SSpec == SInit /\ [][SNext]_svars
\* speak() is straight-line code.
SFairSpec == SSpec /\ \A p \in Procs : WF_svars(Step(p))
------------------------------------------------------------------------------
\* Text that passed the adapter's check and is not in the table yet.
Pending(p, s) ==
    IF place[p] \in 1 .. Len(Chain) /\ Service(p) = s /\ phase[p] \in {"ask", "write", "consume"}
    THEN chars[p] ELSE 0

Longest == CHOOSE n \in Texts : \A m \in Texts : m <= n
\* The pending chunks one by one; their number is the sum of Pending.
PendingChunks(s) == {c \in Procs \X (1 .. Longest) : c[2] <= Pending(c[1], s)}
InFlight(s) == Cardinality(PendingChunks(s))

\* check_available() and consume() are two calls (service_tracker.py:96-162).  Two
\* processes may both pass the check, so the table can be overdrawn, but by no more
\* than one text for each other process, pending text included, whatever resets and
\* failures come between.  A process on its own never makes a service synthesise
\* more in a period than its limit, as long as every request was answered and
\* recorded: chunks, the second check, midnight between any two statements included.
BudgetKept ==
    /\ \A s \in Limited :
          used[s] + InFlight(s) <= Limit[s] + (Cardinality(Procs) - 1) * Longest
    /\ Cardinality(speakers) <= 1 =>
          \A s \in Limited \ unrecorded : billed[s] <= Limit[s]

\* speak() that returns has written audio and paid for it; no service is paid
\* whose audio was not written.
SpokenIsPaid ==
    \A p \in Procs :
        /\ charged[p] \subseteq files[p]
        /\ outcome[p] \in Services => outcome[p] \in files[p]
        /\ outcome[p] \in Limited => outcome[p] \in charged[p]

\* Every call comes to an end, by way of each service at most once.
SpeakEnds == \A p \in Procs : phase[p] # "idle" ~> phase[p] = "idle"

\* adapters/base.py:205-206: "Write a valid audio file (MP3 or WAV) to
\* output_path", "Return the output_path on success".  The pipeline looks for the
\* audio there (orchestrator.py:589-602).
AudioAtOutputPath ==
    \A p \in Procs : outcome[p] \in Services => files[p] \ Elsewhere # {}
==============================================================================
