------------------------------ MODULE SyncJobs ------------------------------
(***************************************************************************)
(* The sync job store (internal/cache/sqlite.go) and the processes that    *)
(* use it for one repository: the workflow and sync commands, the          *)
(* background sync of analyze, and the resume scheduler of a sync --watch  *)
(* process.  The repository lock (module RepoLock) keeps the commands of   *)
(* one repository apart, so one command runs at a time; the scheduler runs *)
(* in another process and takes no lock.                                   *)
(*                                                                         *)
(* Times are kept only as far as the code compares them: updated_at is the *)
(* position in order (most recent first), and a resume time is later or    *)
(* due.  Every statement or transaction of the store is one step.          *)
(***************************************************************************)
EXTENDS Naturals, Sequences, SequencesExt

CONSTANTS Jobs,        \* the ids CreateSyncJob can hand out, in order
          Kinds,       \* the commands that are started
          MaxErrors,   \* maxConsecutiveErrors of the watch loop (5 in the code)
          MaxCrashes,  \* bound on crashes, interrupts and failing statements
          MaxChecks,   \* bound on the scheduler's checks that find due jobs
          None

ASSUME JobsAssumption ==
    /\ Jobs \subseteq Nat /\ None \notin Jobs
    /\ MaxErrors \in Nat /\ MaxCrashes \in Nat /\ MaxChecks \in Nat

VARIABLES status,  \* sync_jobs.status of every id, "absent" without a row
          order,   \* the existing ids, most recent updated_at first
          row,     \* the repository's sync_progress row; job is its job_id,
                   \* None for an empty one or without a row
          cmd,     \* the running command
          sched,   \* the scheduler: the paused jobs it has read as due
          crashes,
          checks

jobVars == <<status, order, row, cmd, sched, crashes, checks>>

Active   == {"queued", "running", "resuming"}
Paused   == {"paused_rate_limit"}
Terminal == {"completed", "failed", "canceled"}
Idle     == [kind |-> "none", pc |-> "idle", job |-> None, errors |-> 0]

\* Whether i was updated after j.
Newer(i, j) == \E k, l \in DOMAIN order : k < l /\ order[k] = i /\ order[l] = j

\* The most recently updated job with a status in S, as a set of at most one.
Latest(S) ==
    {j \in Jobs : status[j] \in S /\ \A i \in Jobs : status[i] \in S => ~Newer(i, j)}

AtBound == \A j \in Jobs : status[j] # "absent"

Touch(j) == <<j>> \o Remove(order, j)

SetStatus(j, s) == /\ status' = [status EXCEPT ![j] = s]
                   /\ order' = Touch(j)

-----------------------------------------------------------------------------
(* The operations of the store. *)

\* CreateSyncJob is two statements and no transaction.  The first inserts the
\* job.
CreateSyncJob(j) ==
    /\ status[j] = "absent"
    /\ \A i \in Jobs : i < j => status[i] # "absent"
    /\ SetStatus(j, "queued")
    /\ UNCHANGED row

\* The second makes the progress row, or takes it over; the resume time that
\* an earlier pause left in scheduled_resume_at is not reset.
LinkSyncJob(j) == row' = [row EXCEPT !.exists = TRUE, !.job = j]

\* The row is made if there is none.
UpdateSyncJobProgress(j) ==
    /\ SetStatus(j, IF status[j] = "queued" THEN "running" ELSE status[j])
    /\ LinkSyncJob(j)

\* Mutant: pausing leaves scheduled_resume_at as it is.
PauseSyncJobUnscheduled(j) ==
    /\ SetStatus(j, "paused_rate_limit")
    /\ UNCHANGED row

\* Without a row the resume time is lost.
PauseSyncJob(j) ==
    /\ SetStatus(j, "paused_rate_limit")
    /\ row' = IF row.exists THEN [row EXCEPT !.wake = "later"] ELSE row

\* Whatever the status of the job is, but not without a job in the row.
ResumeSyncJobByID(j) ==
    IF row.job = None
    THEN UNCHANGED <<status, order, row>>
    ELSE /\ SetStatus(j, "resuming")
         /\ row' = [row EXCEPT !.job = j, !.wake = "none"]

\* The first statement of MarkSyncJobComplete; Stamp has the other.
MarkSyncJobComplete(j) ==
    /\ SetStatus(j, "completed")
    /\ UNCHANGED row

MarkSyncJobFailed(j) ==
    /\ SetStatus(j, "failed")
    /\ UNCHANGED row

\* Mutant: the lookup leaves out the resuming ones.
ActiveButResuming == Latest({"queued", "running"})

ActiveSyncJob == Latest(Active)     \* Store.ResumeSyncJob, which only reads

PausedSyncJob == Latest(Paused)     \* GetPausedSyncJobByRepo

-----------------------------------------------------------------------------
(* The commands.  pc names the next step of the one that runs. *)

At(kinds, pc) == cmd.kind \in kinds /\ cmd.pc = pc
Goto(pc)      == cmd' = [cmd EXCEPT !.pc = pc]
Take(j, pc)   == cmd' = [cmd EXCEPT !.job = j, !.pc = pc]
Exit          == cmd' = Idle
Others        == UNCHANGED <<sched, crashes, checks>>
Store         == <<status, order, row>>

\* workflow uses the last snapshot unless a job is active or it must refresh.
StartWorkflow ==
    /\ cmd = Idle /\ "workflow" \in Kinds
    /\ cmd' = [Idle EXCEPT !.kind = "workflow", !.pc = "find active"]
    /\ UNCHANGED Store /\ Others

FindActive ==
    /\ At({"workflow"}, "find active")
    /\ IF ActiveSyncJob # {} THEN \E j \in ActiveSyncJob : Take(j, "run")
       ELSE \/ Goto("find paused")
            \/ row.synced /\ Exit
    /\ UNCHANGED Store /\ Others

\* cache.ResumeSyncJob: a paused job of a row without a job is an error.
ResumePaused ==
    \E j \in PausedSyncJob :
        /\ ResumeSyncJobByID(j)
        /\ IF row.job = None THEN Exit ELSE Take(j, "run")

FindPaused ==
    /\ At({"workflow"}, "find paused")
    /\ IF PausedSyncJob # {} THEN ResumePaused ELSE Goto("create") /\ UNCHANGED Store
    /\ Others

\* At the bound on jobs the command gives up.
Create ==
    /\ cmd.pc = "create"
    /\ \/ \E j \in Jobs : CreateSyncJob(j) /\ Take(j, "link")
       \/ AtBound /\ Exit /\ UNCHANGED Store
    /\ Others

\* analyze starts a goroutine for its job and answers; the goroutine ends with
\* the process before it does anything.
Link ==
    /\ cmd.pc = "link"
    /\ LinkSyncJob(cmd.job)
    /\ IF cmd.kind = "analyze" THEN Exit ELSE Goto("run")
    /\ UNCHANGED <<status, order>> /\ Others

\* sync (unless it reuses the snapshot of a completed last job, and ends)
\* makes a job of its own, even with an active or paused one in the table.
\* "waiting" is sync --wait.
StartSyncCommand ==
    /\ cmd = Idle /\ "sync" \in Kinds /\ ~AtBound
    /\ \E kind \in {"sync", "waiting"} : cmd' = [Idle EXCEPT !.kind = kind, !.pc = "create"]
    /\ UNCHANGED Store /\ Others

Progress ==
    /\ At({"workflow", "sync", "waiting", "watch"}, "run")
    /\ status[cmd.job] = "queued"
    /\ UpdateSyncJobProgress(cmd.job)
    /\ UNCHANGED cmd /\ Others

\* With --watch a completed sync goes on to the watch loop, which counts the
\* errors in a row.
Watching(n) == cmd' = [cmd EXCEPT !.kind = "watch", !.pc = "watching", !.errors = n]

RunCompletes ==
    /\ At({"workflow", "sync", "waiting", "watch"}, "run")
    /\ MarkSyncJobComplete(cmd.job)
    /\ Goto("stamp")
    /\ Others

Stamp ==
    /\ cmd.pc = "stamp"
    /\ row' = [row EXCEPT !.synced = @ \/ row.exists]
    /\ \/ cmd.kind # "watch" /\ Exit
       \/ cmd.kind # "workflow" /\ Watching(0)
    /\ UNCHANGED <<status, order>> /\ Others

\* The statement fails: the watch loop waits for its next tick, and the other
\* commands end.
LinkFails ==
    /\ cmd.pc = "link" /\ crashes < MaxCrashes
    /\ IF cmd.kind = "watch" THEN Watching(cmd.errors) ELSE Exit
    /\ crashes' = crashes + 1
    /\ UNCHANGED <<status, order, row, sched, checks>>

\* The watch loop leaves the job of a failed run as it is.
RunFails ==
    /\ At({"workflow", "sync", "waiting", "watch"}, "run")
    /\ IF cmd.kind = "watch"
       THEN /\ IF cmd.errors + 1 < MaxErrors THEN Watching(cmd.errors + 1) ELSE Exit
            /\ UNCHANGED Store
       ELSE MarkSyncJobFailed(cmd.job) /\ Exit
    /\ Others

\* The guard pauses the job before the run; sync pauses it again, and then
\* ends or, with --wait, sleeps.
RunPauses ==
    /\ At({"workflow", "sync", "waiting", "watch"}, "run")
    /\ PauseSyncJob(cmd.job)
    /\ CASE cmd.kind = "workflow" -> Goto("paused")
         [] cmd.kind = "sync"     -> Exit
         [] cmd.kind = "waiting"  -> Goto("asleep")
         [] cmd.kind = "watch"    -> Watching(0)
    /\ Others

\* workflow waits for the job that was paused last in its repository.
LoadPaused ==
    /\ At({"workflow"}, "paused")
    /\ IF PausedSyncJob # {} THEN \E j \in PausedSyncJob : Take(j, "sleeping") ELSE Exit
    /\ UNCHANGED Store /\ Others

\* Mutant: the paused job is run again without being resumed.
WakeUpUnresumed ==
    /\ At({"workflow"}, "sleeping")
    /\ row.wake # "later"
    /\ IF PausedSyncJob # {} THEN \E j \in PausedSyncJob : Take(j, "run") ELSE Exit
    /\ UNCHANGED Store /\ Others

\* After the sleep the paused job is looked up once more: when the scheduler
\* has resumed it in the meantime there is none, and the command ends.
WakeUp ==
    /\ At({"workflow"}, "sleeping")
    /\ row.wake # "later"
    /\ IF PausedSyncJob # {}
       THEN ResumePaused
       ELSE Exit /\ UNCHANGED Store
    /\ Others

\* sync --wait runs the job again as it is.
WaitEnds ==
    /\ At({"waiting"}, "asleep")
    /\ row.wake # "later"
    /\ Goto("run")
    /\ UNCHANGED Store /\ Others

\* A tick of the watch loop.
WatchTick ==
    /\ At({"watch"}, "watching")
    /\ IF ActiveSyncJob # {} THEN \E j \in ActiveSyncJob : Take(j, "run") ELSE Goto("create")
    /\ UNCHANGED Store /\ Others

Ended ==
    /\ crashes < MaxCrashes
    /\ Exit
    /\ crashes' = crashes + 1
    /\ UNCHANGED <<sched, checks>>

\* The user ends a watch, or a command that sleeps; to sync --wait that is a
\* failed run.
Interrupt ==
    /\ \/ At({"waiting"}, "asleep") /\ MarkSyncJobFailed(cmd.job)
       \/ /\ At({"watch"}, "watching") \/ At({"workflow"}, "sleeping")
          /\ UNCHANGED Store
    /\ Ended

\* analyze makes a job unless one is active.
StartAnalyze ==
    /\ cmd = Idle /\ "analyze" \in Kinds /\ ~AtBound
    /\ ActiveSyncJob = {}
    /\ cmd' = [Idle EXCEPT !.kind = "analyze", !.pc = "create"]
    /\ UNCHANGED Store /\ Others

\* The process dies and leaves its rows as they are.
Crash ==
    /\ cmd # Idle
    /\ Ended /\ UNCHANGED Store

\* Between two pages the cursor is saved, by a command's run or by a sync that
\* serve runs without a job and without the lock: the row is made if there is
\* none, and names no job.
SaveCursor ==
    /\ cmd.pc = "run" \/ "server" \in Kinds
    /\ row' = [row EXCEPT !.exists = TRUE]
    /\ UNCHANGED <<status, order, cmd>> /\ Others

-----------------------------------------------------------------------------
(* The scheduler and the clock. *)

\* CheckAndResume reads all paused jobs, with the resume time of the row of
\* their repository, and then resumes them one by one, oldest first.
SchedulerLists ==
    /\ "scheduler" \in Kinds /\ sched = <<>> /\ row.wake = "due" /\ checks < MaxChecks
    /\ checks' = checks + 1
    /\ sched' = Reverse(SelectSeq(order, LAMBDA j : status[j] \in Paused))
    /\ UNCHANGED <<status, order, row, cmd, crashes>>

SchedulerResumes ==
    /\ sched # <<>>
    /\ \E j \in Jobs : j = Head(sched) /\ ResumeSyncJobByID(j)
    /\ sched' = Tail(sched)
    /\ UNCHANGED <<cmd, crashes, checks>>

ResumeTimePasses ==
    /\ row.wake = "later"
    /\ row' = [row EXCEPT !.wake = "due"]
    /\ UNCHANGED <<status, order, cmd, sched, crashes, checks>>

-----------------------------------------------------------------------------
JobsInit ==
    /\ status = [j \in Jobs |-> "absent"]
    /\ order = <<>>
    /\ row = [exists |-> FALSE, job |-> None, wake |-> "none", synced |-> FALSE]
    /\ cmd = Idle
    /\ sched = <<>>
    /\ crashes = 0
    /\ checks = 0

\* The steps of a command between its start and its end.
CommandStep ==
    \/ FindActive \/ FindPaused \/ Create \/ Link \/ LoadPaused \/ WakeUp \/ WaitEnds \/ WatchTick
    \/ Progress \/ RunCompletes \/ Stamp \/ RunFails \/ RunPauses

JobsNext ==
    \/ StartWorkflow \/ StartSyncCommand \/ StartAnalyze \/ CommandStep
    \/ SaveCursor \/ LinkFails \/ Interrupt \/ Crash
    \/ SchedulerLists \/ SchedulerResumes \/ ResumeTimePasses

\* A command's own steps are taken, time passes, the scheduler ticks, and
\* workflow is run again and again; the budget is reset every hour, so that a
\* run that is tried again and again is not paused for ever.  Nothing makes a
\* crash happen.
JobsFairness ==
    /\ SF_jobVars(RunCompletes \/ RunFails)
    /\ WF_jobVars(StartWorkflow)
    /\ WF_jobVars(CommandStep)
    /\ WF_jobVars(ResumeTimePasses)
    /\ WF_jobVars(SchedulerLists) /\ WF_jobVars(SchedulerResumes)

JobsSpec == JobsInit /\ [][JobsNext]_jobVars /\ JobsFairness

-----------------------------------------------------------------------------
(* Properties. *)

\* Nobody works on a job that the store shows as paused or finished: while a
\* command runs a job the job is queued, running or resuming, whatever the
\* scheduler, a crash before it and the jobs of other commands have done.
\* (sync --wait goes on with the job it has paused and leaves it paused.)
RunnerOwnsActiveJob ==
    cmd.pc = "run" =>
        \/ status[cmd.job] \in Active
        \/ cmd.kind = "waiting" /\ status[cmd.job] \in Paused

\* A job that waits is one that can be woken: while a command sleeps, the
\* row carries a resume time, or somebody has resumed a job meanwhile; and
\* the row links a job of the table, without which resuming fails.  That
\* the row links none is left to a crash, or a failure, between the two
\* statements of CreateSyncJob.
SleeperHasWakeUp ==
    cmd.pc \in {"sleeping", "asleep"} =>
        IF row.job = None THEN crashes > 0
        ELSE /\ row.wake # "none" \/ \E j \in Jobs : status[j] = "resuming"
             /\ status[row.job] # "absent"

\* What the roadmap asks of the store ("atomic sync-job updates and
\* resume-state bookkeeping"), and what a crash inside CreateSyncJob breaks:
\* a paused job has a row that links a job, so that it can be resumed.
PausedIsLinked ==
    (\E j \in Jobs : status[j] \in Paused) => row.job # None

\* A finished job stays finished.
TerminalStays ==
    [][\A j \in Jobs : status[j] \in Terminal => status'[j] = status[j]]_jobVars

\* What a crash, an analyze or the scheduler leaves active is picked up: no
\* job stays queued, running or resuming for ever while workflow is run.
ActiveDrained ==
    \A j \in Jobs : status[j] \in Active ~> status[j] \notin Active
=============================================================================
