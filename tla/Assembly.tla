------------------------------ MODULE Assembly ------------------------------
(***************************************************************************)
(* VideoAssembler of modules/adapters/video/assembler.py, called by runs of  *)
(* several processes on one data directory, and the jobs that name its files*)
(* (orchestrator.py:601-632).  Of a file it matters who wrote to it, not    *)
(* what the video shows; add_disclaimer_frame() has no caller.               *)
(***************************************************************************)
EXTENDS Integers, FiniteSets

CONSTANTS
    Workers, Plans,
    MaxRuns     \* bound: calls of assemble()

AssemblyAssumption == IsFiniteSet(Workers) /\ MaxRuns \in Nat

Absent  == [by |-> {}, state |-> "absent"]
Resting == [at |-> "idle", plan |-> "none", run |-> 0]

VARIABLES
    file,       \* <plan_id>.mp4: the runs that wrote to it, and how it is
    worker,     \* where a call of assemble() is: "render", "temp", "burn"
    temps,      \* runs whose temporary file is there
    jobs,       \* upload jobs: they name the file of a plan
    runs,
    uploaded    \* history: the job, and the file as it was read

avars == <<file, worker, temps, jobs, runs, uploaded>>

VInit ==
    /\ file = [p \in Plans |-> Absent]
    /\ worker = [w \in Workers |-> Resting]
    /\ temps = {} /\ jobs = {} /\ runs = 0 /\ uploaded = {}
------------------------------------------------------------------------------
\* Opening the output truncates it under whoever still writes to it.
Writing(p) == {worker[w].run : w \in {v \in Workers :
                 /\ worker[v].at \in {"render", "burn"} /\ worker[v].plan = p
                 /\ worker[v].run \in file[p].by}}
Open(p, r) ==
    file' = [file EXCEPT ![p] = [by |-> {r} \cup Writing(p), state |-> "part"]]

\* The last of one's own writes; none of it is seen when a rename has put
\* another file in the place.
Close(p, r) ==
    file' = [file EXCEPT ![p] =
               IF r \notin @.by THEN @
               ELSE [@ EXCEPT !.state = IF file[p].by = {r} THEN "whole" ELSE "mixed"]]

Rename(p, r) == file' = [file EXCEPT ![p] = [by |-> {r}, state |-> "whole"]]

\* assemble(), with an SRT file or without.
Assemble(w, p) ==
    /\ worker[w] = Resting /\ runs < MaxRuns /\ runs' = runs + 1
    /\ \/ /\ worker' = [worker EXCEPT ![w] = [at |-> "render", plan |-> p, run |-> runs']]
          /\ Open(p, runs') /\ UNCHANGED temps
       \/ /\ worker' = [worker EXCEPT ![w] = [at |-> "temp", plan |-> p, run |-> runs']]
          /\ temps' = temps \cup {runs'} /\ UNCHANGED file
    /\ UNCHANGED <<jobs, uploaded>>

\* The call returns, and the orchestrator schedules the upload of the file.
Deliver(w) ==
    /\ jobs' = jobs \cup {[plan |-> worker[w].plan, run |-> worker[w].run]}
    /\ worker' = [worker EXCEPT ![w] = Resting]

\* An error, caught by the orchestrator, or the end of the process.
BreakOff(w) ==
    /\ worker[w] # Resting
    /\ worker' = [worker EXCEPT ![w] = Resting]
    /\ UNCHANGED <<file, temps, jobs, runs, uploaded>>

\* write_videofile() to the output
Render(w) ==
    /\ worker[w].at = "render"
    /\ Close(worker[w].plan, worker[w].run) /\ Deliver(w)
    /\ UNCHANGED <<temps, runs, uploaded>>

\* write_videofile() to the temporary file; then ffmpeg -y opens the output.
RenderTemp(w) ==
    /\ worker[w].at = "temp"
    /\ worker' = [worker EXCEPT ![w].at = "burn"]
    /\ Open(worker[w].plan, worker[w].run)
    /\ UNCHANGED <<temps, jobs, runs, uploaded>>

\* Mutant of Burn: the time limit too is caught, but nothing moved.
BurnTaken(w) ==
    /\ worker[w].at = "burn"
    /\ temps' = temps \ {worker[w].run}
    /\ Close(worker[w].plan, worker[w].run) \/ UNCHANGED file
    /\ Deliver(w) /\ UNCHANGED <<runs, uploaded>>

\* ffmpeg is done and the temporary file removed.
Burn(w) ==
    /\ worker[w].at = "burn"
    /\ temps' = temps \ {worker[w].run}
    /\ Close(worker[w].plan, worker[w].run)
    /\ Deliver(w) /\ UNCHANGED <<runs, uploaded>>

\* ffmpeg is not there or failed: the temporary file is moved to the output.
FallBack(w) ==
    /\ worker[w].at \in {"temp", "burn"}
    /\ temps' = temps \ {worker[w].run}
    /\ Rename(worker[w].plan, worker[w].run)
    /\ Deliver(w) /\ UNCHANGED <<runs, uploaded>>

\* The uploader reads whatever has the name.
UploadFile(j) ==
    /\ j \in jobs /\ jobs' = jobs \ {j}
    /\ uploaded' = uploaded \cup {[job |-> j, file |-> file[j.plan]]}
    /\ UNCHANGED <<file, worker, temps, runs>>

VNext ==
    \/ \E w \in Workers : Render(w) \/ RenderTemp(w) \/ Burn(w) \/ FallBack(w) \/ BreakOff(w)
                            \/ \E p \in Plans : Assemble(w, p)
    \/ \E j \in jobs : UploadFile(j)
------------------------------------------------------------------------------
\* A queued job has no file of its own (assembler.py:139-160, orchestrator.py:618-
\* 632): the next run of the same trend, or one at the same time, writes to it.
\* What holds of the file whenever it is read for a job: it is there, and unless
\* it is whole some other run wrote to it; so the only run of a trend is
\* uploaded whole.  No job comes from a run that left its temporary file.
VideosAreWhole ==
    /\ \A j \in jobs :
          /\ file[j.plan].by # {}
          /\ file[j.plan].state # "whole" => file[j.plan].by # {j.run}
    /\ \A u \in uploaded :
          /\ u.file.by # {}
          /\ u.file.state # "whole" => u.file.by # {u.job.run}
    /\ \A j \in jobs \cup {u.job : u \in uploaded} : j.run \notin temps
=============================================================================
