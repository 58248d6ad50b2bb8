----------------------------- MODULE SyncProofs -------------------------------
(***************************************************************************)
(* What surrounds the fetching of a sync.                                  *)
(* Its jobs, for any number of jobs, crashes and checks of the scheduler:  *)
(* a command works only on a job that the store shows as active and sleeps *)
(* only when something can wake its job, unless a crash has cut the making *)
(* of the job in two (JobsAreOwned).                                       *)
(* Its two sequences, for any number of loops, requests, items and events: *)
(* the queue of pull requests serves in the order of their priorities      *)
(* (QueueServesInOrder), and what a request streams of the progress events *)
(* has no gap, no repetition and no event out of order unless its channel  *)
(* was full (EventsComeInOrder).                                           *)
(***************************************************************************)
EXTENDS SyncJobs, PRQueue, ProgressEvents, SequenceTheorems, WellFoundedInduction, TLAPS

-----------------------------------------------------------------------------
(* The jobs. *)

Statuses == {"absent"} \cup Active \cup Paused \cup Terminal

Rows == [exists : BOOLEAN, job : Jobs \cup {None}, wake : {"none", "later", "due"},
         synced : BOOLEAN]

Steps == {"idle", "find active", "find paused", "create", "link", "run", "stamp", "paused",
          "sleeping", "asleep", "watching"}

Cmds == [kind : {"none", "workflow", "sync", "waiting", "watch", "analyze"}, pc : Steps,
         job : Jobs \cup {None}, errors : Nat]

JobsTypeOK ==
    /\ status \in [Jobs -> Statuses] /\ row \in Rows /\ cmd \in Cmds
    /\ crashes \in Nat

\* What the row links is a job of the table, and nothing without a row.
LinksAJob ==
    row.job # None => row.exists /\ status[row.job] # "absent"

\* Once there is a job the row links one, unless CreateSyncJob is between its
\* two statements or was cut there.
CutBeforeLink ==
    row.job = None /\ cmd.pc # "link" /\ (\E j \in Jobs : status[j] # "absent") => crashes > 0

\* sync --wait alone sleeps with its job in hand, which stays paused until the
\* scheduler resumes it.
SleeperKeepsJob ==
    cmd.pc = "asleep" =>
        /\ cmd.kind = "waiting" /\ cmd.job \in Jobs
        /\ status[cmd.job] \in Active \cup Paused

RunnerHasJob ==
    /\ cmd.pc = "link" => cmd.job \in Jobs /\ status[cmd.job] \in Active
    /\ cmd.pc = "run" => cmd.job \in Jobs

\* From the pause on there is something that wakes the job, or the row
\* links none.
CanBeWoken ==
    cmd.pc \in {"paused", "sleeping", "asleep"} =>
        IF row.job = None THEN crashes > 0
        ELSE row.wake # "none" \/ \E j \in Jobs : status[j] = "resuming"

JobsInv ==
    /\ JobsTypeOK /\ LinksAJob /\ CutBeforeLink /\ RunnerHasJob /\ RunnerOwnsActiveJob
    /\ SleeperKeepsJob /\ CanBeWoken

-----------------------------------------------------------------------------
\* What a step does that gives job j the status s: it is enough to look at j,
\* at the row and at the command.
LEMMA StatusStep ==
    ASSUME JobsInv, NEW j \in Jobs, NEW s \in Statuses \ {"absent"},
           status' = [status EXCEPT ![j] = s],
           row' \in Rows, row'.job \in {row.job, j}, row'.job # None => row'.exists
    PROVE  /\ status' \in [Jobs -> Statuses]
           /\ status'[j] = s /\ \A i \in Jobs : i # j => status'[i] = status[i]
           /\ LinksAJob'
<1>1. /\ status' \in [Jobs -> Statuses]
      /\ status'[j] = s /\ \A i \in Jobs : i # j => status'[i] = status[i]
  BY DEF JobsInv, JobsTypeOK
<1>2. row'.job # None => row'.job \in Jobs
  BY DEF Rows
<1>3. LinksAJob'
  BY <1>1, <1>2, JobsAssumption DEF LinksAJob, JobsInv
<1> QED BY <1>1, <1>3

\* A row that links no job is left only by a cut: no other step makes one.
LEMMA CutStep ==
    ASSUME JobsInv, crashes' \in Nat, crashes' >= crashes,
           row'.job = None => row.job = None,
           \/ cmd'.pc = "link" \/ row'.job # None \/ crashes' > 0
           \/ cmd.pc # "link" /\ \A j \in Jobs : status[j] = "absent" => status'[j] = "absent"
    PROVE  CutBeforeLink'
BY DEF JobsInv, JobsTypeOK, CutBeforeLink

\* Resuming makes a job active if the row links one, and else does nothing.
LEMMA ResumeStep ==
    ASSUME JobsInv, NEW j \in Jobs, ResumeSyncJobByID(j)
    PROVE  IF row.job = None THEN status' = status /\ row' = row
           ELSE /\ row' \in Rows /\ row'.job = j
                /\ status' \in [Jobs -> Statuses] /\ status'[j] = "resuming"
                /\ \A i \in Jobs : i # j => status'[i] = status[i]
                /\ LinksAJob'
<1>1. CASE row.job = None
  BY <1>1 DEF ResumeSyncJobByID
<1>2. CASE row.job # None
  <2>1. /\ status' = [status EXCEPT ![j] = "resuming"]
        /\ row' = [row EXCEPT !.job = j, !.wake = "none"]
    BY <1>2 DEF ResumeSyncJobByID, SetStatus
  <2>2. row \in Rows /\ row.exists
    BY <1>2 DEF JobsInv, JobsTypeOK, LinksAJob
  <2>3. row' \in Rows /\ row'.job = j /\ row'.exists
    BY <2>1, <2>2 DEF Rows
  <2>4. "resuming" \in Statuses \ {"absent"}
    BY DEF Statuses, Active
  <2> QED BY <1>2, <2>1, <2>3, <2>4, StatusStep
<1> QED BY <1>1, <1>2

\* Nobody works on a job that the store shows as paused or finished, and a
\* command sleeps only with something to wake its job, unless a crash has cut
\* CreateSyncJob in two, whatever commands, crashes and checks of the
\* scheduler there are (cmd/workflow.go:331-365, cmd/sync.go:389-484,
\* sync/scheduler.go:132-169, cache/sqlite.go:459-482).
THEOREM JobsAreOwned == JobsSpec => [](RunnerOwnsActiveJob /\ SleeperHasWakeUp)
<1> USE DEF Active, Paused, Terminal
<1>1. JobsInit => JobsInv
  BY DEF JobsInit, JobsInv, JobsTypeOK, LinksAJob, CutBeforeLink, RunnerHasJob,
         RunnerOwnsActiveJob, SleeperKeepsJob, CanBeWoken, Idle, Statuses, Rows, Cmds, Steps
<1>2. JobsInv /\ [JobsNext]_jobVars => JobsInv'
  <2> SUFFICES ASSUME JobsInv, [JobsNext]_jobVars PROVE JobsInv'
    OBVIOUS
  <2>a. status \in [Jobs -> Statuses] /\ row \in Rows /\ cmd \in Cmds /\ crashes \in Nat
    BY DEF JobsInv, JobsTypeOK
  <2>b. Idle \in Cmds /\ Idle.pc = "idle"
    BY DEF Idle, Cmds, Steps
  <2>c. \A S : Latest(S) \subseteq Jobs /\ \A j \in Latest(S) : status[j] \in S
    BY DEF Latest
  \* A command that neither runs, links nor sleeps.
  <2>d. ASSUME cmd' \in Cmds, cmd'.pc \notin {"link", "run", "paused", "sleeping", "asleep"},
               status' \in [Jobs -> Statuses], row' \in Rows, crashes' \in Nat,
               LinksAJob', CutBeforeLink'
        PROVE  JobsInv'
    BY <2>d DEF JobsInv, JobsTypeOK, RunnerHasJob, RunnerOwnsActiveJob, SleeperKeepsJob, CanBeWoken
  \* A step that leaves the store alone, from a command that does not link.
  <2>e. ASSUME UNCHANGED <<status, row, crashes>>, cmd.pc # "link"
        PROVE  /\ status' \in [Jobs -> Statuses] /\ row' \in Rows /\ crashes' \in Nat
               /\ LinksAJob' /\ CutBeforeLink'
    <3>1. CutBeforeLink'
      BY <2>a, <2>e, CutStep
    <3> QED BY <2>a, <2>e, <3>1 DEF JobsInv, LinksAJob
  <2>f. ASSUME NEW q \in Steps, Goto(q)
        PROVE  cmd' \in Cmds /\ cmd'.pc = q /\ cmd'.job = cmd.job /\ cmd'.kind = cmd.kind
    BY <2>a, <2>f DEF Goto, Cmds
  <2>t. ASSUME NEW q \in Steps, NEW j \in Jobs, Take(j, q)
        PROVE  cmd' \in Cmds /\ cmd'.pc = q /\ cmd'.job = j /\ cmd'.kind = cmd.kind
    BY <2>a, <2>t DEF Take, Cmds
  <2>g. ASSUME cmd' \in Cmds, cmd'.pc = "run", NEW j \in Jobs, cmd'.job = j,
               status' \in [Jobs -> Statuses], row' \in Rows, crashes' \in Nat,
               LinksAJob', CutBeforeLink', status'[j] \in Active
        PROVE  JobsInv'
    BY <2>g DEF JobsInv, JobsTypeOK, RunnerHasJob, RunnerOwnsActiveJob, SleeperKeepsJob, CanBeWoken
  <2>h. cmd.pc = "run" => cmd.job \in Jobs /\ status[cmd.job] \in Active \cup Paused
    BY DEF JobsInv, RunnerHasJob, RunnerOwnsActiveJob
  <2>i. ASSUME NEW n \in Nat, Watching(n) PROVE cmd' \in Cmds /\ cmd'.pc = "watching"
    BY <2>a, <2>i DEF Watching, Cmds, Steps
  <2>1. CASE StartWorkflow \/ StartSyncCommand \/ StartAnalyze
    <3>1. cmd = Idle /\ UNCHANGED <<status, row, crashes>>
      BY <2>1 DEF StartWorkflow, StartSyncCommand, StartAnalyze, Store, Others
    <3>2. cmd' \in Cmds /\ cmd'.pc \in {"find active", "create"}
      <4>1. PICK kind \in {"workflow", "sync", "waiting", "analyze"}, q \in {"find active", "create"} :
              cmd' = [Idle EXCEPT !.kind = kind, !.pc = q]
        <5>1. CASE StartWorkflow
          BY <5>1 DEF StartWorkflow
        <5>2. CASE StartSyncCommand
          BY <5>2 DEF StartSyncCommand
        <5>3. CASE StartAnalyze
          BY <5>3 DEF StartAnalyze
        <5> QED BY <2>1, <5>1, <5>2, <5>3
      <4> QED BY <4>1 DEF Idle, Cmds, Steps
    <3> QED BY <2>b, <2>d, <2>e, <3>1, <3>2
  <2>3. CASE Link
    <3>1. /\ cmd.job \in Jobs /\ status[cmd.job] \in Active /\ UNCHANGED <<status, crashes>>
          /\ row' = [row EXCEPT !.exists = TRUE, !.job = cmd.job]
      BY <2>3 DEF Link, LinkSyncJob, Others, JobsInv, RunnerHasJob
    <3>2. row' \in Rows /\ row'.exists /\ row'.job = cmd.job
      BY <3>1, <2>a DEF Rows
    <3>3. LinksAJob' /\ CutBeforeLink'
      BY <2>a, <3>1, <3>2, JobsAssumption DEF LinksAJob, CutBeforeLink
    <3>4. CASE Exit
      BY <3>1, <3>2, <3>3, <3>4, <2>a, <2>b, <2>d DEF Exit
    <3>5. CASE Goto("run")
      <4>1. cmd' \in Cmds /\ cmd'.pc = "run" /\ cmd'.job = cmd.job
        BY <3>5, <2>f DEF Steps
      <4> QED BY <2>a, <2>g, <3>1, <3>2, <3>3, <4>1
    <3> QED BY <2>3, <3>4, <3>5 DEF Link
  <2>4. CASE FindActive \/ WatchTick
    <3>1. UNCHANGED <<status, row, crashes>> /\ cmd.pc # "link"
      BY <2>4 DEF FindActive, WatchTick, Store, Others, At
    <3>2. CASE \E j \in ActiveSyncJob : Take(j, "run")
      <4>1. PICK j \in ActiveSyncJob : Take(j, "run")
        BY <3>2
      <4>2. j \in Jobs /\ status[j] \in Active
        BY <2>c DEF ActiveSyncJob
      <4>3. cmd' \in Cmds /\ cmd'.pc = "run" /\ cmd'.job = j
        BY <4>1, <4>2, <2>t DEF Steps
      <4> QED BY <4>2, <4>3, <3>1, <2>e, <2>g
    <3>3. CASE Goto("find paused") \/ Goto("create") \/ Exit
      <4>1. cmd' \in Cmds /\ cmd'.pc \in {"find paused", "create", "idle"}
        BY <3>3, <2>b, <2>f DEF Exit, Steps
      <4> QED BY <4>1, <3>1, <2>d, <2>e
    <3> QED BY <3>2, <3>3, <2>4 DEF FindActive, WatchTick
  <2>5. CASE FindPaused \/ WakeUp
    <3>1. crashes' = crashes /\ cmd.pc # "link"
      BY <2>5 DEF FindPaused, WakeUp, Others, At
    <3>2. CASE ResumePaused
      <4>1. PICK j \in PausedSyncJob : /\ ResumeSyncJobByID(j)
                                      /\ IF row.job = None THEN Exit ELSE Take(j, "run")
        BY <3>2 DEF ResumePaused
      <4>2. j \in Jobs
        BY <2>c DEF PausedSyncJob
      <4>3. CASE row.job = None
        <5>1. UNCHANGED <<status, row>>
          BY <4>1, <4>2, <4>3, ResumeStep
        <5> QED BY <4>1, <4>3, <5>1, <3>1, <2>b, <2>d, <2>e DEF Exit
      <4>4. CASE row.job # None
        <5>1. /\ row' \in Rows /\ row'.job = j /\ status' \in [Jobs -> Statuses]
              /\ status'[j] = "resuming" /\ LinksAJob'
          BY <4>1, <4>2, <4>4, ResumeStep
        <5>2. CutBeforeLink'
          BY <4>2, <5>1, <3>1, <2>a, JobsAssumption DEF CutBeforeLink
        <5>3. cmd' \in Cmds /\ cmd'.pc = "run" /\ cmd'.job = j
          BY <4>1, <4>2, <4>4, <2>t DEF Steps
        <5> QED BY <4>2, <5>1, <5>2, <5>3, <3>1, <2>a, <2>g
      <4> QED BY <4>3, <4>4
    <3>3. CASE (Goto("create") \/ Exit) /\ UNCHANGED Store
      <4>1. cmd' \in Cmds /\ cmd'.pc \in {"create", "idle"}
        BY <3>3, <2>b, <2>f DEF Exit, Steps
      <4> QED BY <4>1, <3>1, <3>3, <2>d, <2>e DEF Store
    <3> QED BY <2>5, <3>2, <3>3 DEF FindPaused, WakeUp
  <2>6. CASE Create
    <3>1. CASE \E j \in Jobs : CreateSyncJob(j) /\ Take(j, "link")
      <4>1. PICK j \in Jobs : CreateSyncJob(j) /\ Take(j, "link")
        BY <3>1
      <4>2. /\ status' = [status EXCEPT ![j] = "queued"] /\ UNCHANGED <<row, crashes>>
        BY <4>1, <2>6 DEF Create, CreateSyncJob, SetStatus, Others
      <4>3. cmd' \in Cmds /\ cmd'.pc = "link" /\ cmd'.job = j
        BY <4>1, <2>t DEF Steps
      <4>4. /\ status' \in [Jobs -> Statuses] /\ status'[j] = "queued" /\ LinksAJob'
        <5>1. row.job # None => row.exists
          BY DEF JobsInv, LinksAJob
        <5> QED BY <4>2, <5>1, <2>a, StatusStep DEF Statuses
      <4> QED BY <4>2, <4>3, <4>4, <2>a DEF JobsInv, JobsTypeOK, CutBeforeLink, RunnerHasJob,
                 RunnerOwnsActiveJob, SleeperKeepsJob, CanBeWoken
    <3>2. CASE Exit /\ UNCHANGED Store
      <4>1. UNCHANGED <<status, row, crashes>> /\ cmd.pc # "link"
        BY <2>6, <3>2 DEF Create, Store, Others
      <4> QED BY <3>2, <4>1, <2>b, <2>d, <2>e DEF Exit
    <3> QED BY <2>6, <3>1, <3>2 DEF Create
  <2>7. CASE Progress
    <3>1. /\ cmd' = cmd /\ cmd.pc = "run" /\ cmd.job \in Jobs /\ crashes' = crashes
          /\ status' = [status EXCEPT ![cmd.job] = "running"]
          /\ row' = [row EXCEPT !.exists = TRUE, !.job = cmd.job]
      BY <2>7, <2>h DEF Progress, UpdateSyncJobProgress, LinkSyncJob, SetStatus, At, Others
    <3>2. row' \in Rows /\ row'.job = cmd.job /\ row'.exists
      BY <3>1, <2>a DEF Rows
    <3>3. status' \in [Jobs -> Statuses] /\ LinksAJob' /\ status'[cmd.job] = "running"
      BY <3>1, <3>2, StatusStep DEF Statuses
    <3>4. CutBeforeLink'
      BY <3>1, <3>2, <2>a, JobsAssumption DEF CutBeforeLink
    <3> QED BY <3>1, <3>2, <3>3, <3>4, <2>a, <2>g
  <2>8. CASE RunCompletes
    <3>1. /\ cmd.pc = "run" /\ cmd.job \in Jobs /\ status[cmd.job] # "absent"
          /\ status' = [status EXCEPT ![cmd.job] = "completed"]
          /\ UNCHANGED <<row, crashes>> /\ Goto("stamp")
      BY <2>8, <2>h DEF RunCompletes, MarkSyncJobComplete, SetStatus, At, Others
    <3>a. row.job # None => row.exists
      BY DEF JobsInv, LinksAJob
    <3>2. /\ status' \in [Jobs -> Statuses] /\ LinksAJob'
          /\ \A j \in Jobs : status[j] = "absent" => status'[j] = "absent"
      BY <3>1, <3>a, <2>a, StatusStep DEF Statuses
    <3>3. CutBeforeLink'
      BY <3>1, <3>2, <2>a, CutStep
    <3>4. cmd' \in Cmds /\ cmd'.pc = "stamp"
      BY <3>1, <2>f DEF Steps
    <3> QED BY <3>1, <3>2, <3>3, <3>4, <2>a, <2>d
  <2>9. CASE Stamp
    <3>1. /\ cmd.pc = "stamp" /\ UNCHANGED <<status, crashes>>
          /\ row' = [row EXCEPT !.synced = @ \/ row.exists]
          /\ (Exit \/ Watching(0))
      BY <2>9 DEF Stamp, Others
    <3>2. row' \in Rows /\ row'.job = row.job /\ row'.exists = row.exists
      BY <3>1, <2>a DEF Rows
    <3>3. LinksAJob' /\ CutBeforeLink'
      <4>1. CutBeforeLink'
        BY <3>1, <3>2, <2>a, CutStep
      <4> QED BY <3>1, <3>2, <4>1 DEF JobsInv, LinksAJob
    <3>4. cmd' \in Cmds /\ cmd'.pc \in {"idle", "watching"}
      BY <3>1, <2>b, <2>i DEF Exit
    <3> QED BY <3>1, <3>2, <3>3, <3>4, <2>a, <2>d
  <2>10. CASE RunFails
    <3>0. crashes' = crashes /\ cmd.pc = "run"
      BY <2>10 DEF RunFails, Others, At
    <3>1. CASE MarkSyncJobFailed(cmd.job) /\ Exit
      <4>1. /\ cmd.job \in Jobs /\ status[cmd.job] # "absent" /\ row' = row
            /\ status' = [status EXCEPT ![cmd.job] = "failed"]
        BY <3>0, <3>1, <2>h DEF MarkSyncJobFailed, SetStatus
      <4>a. row.job # None => row.exists
        BY DEF JobsInv, LinksAJob
      <4>2. /\ status' \in [Jobs -> Statuses] /\ LinksAJob'
            /\ \A j \in Jobs : status[j] = "absent" => status'[j] = "absent"
        BY <4>1, <4>a, <2>a, StatusStep DEF Statuses
      <4>3. CutBeforeLink'
        BY <3>0, <4>1, <4>2, <2>a, CutStep
      <4> QED BY <3>0, <3>1, <4>1, <4>2, <4>3, <2>a, <2>b, <2>d DEF Exit
    <3>2. CASE (Watching(cmd.errors + 1) \/ Exit) /\ UNCHANGED Store
      <4>1. cmd' \in Cmds /\ cmd'.pc \in {"idle", "watching"}
        <5>1. cmd.errors + 1 \in Nat
          BY <2>a DEF Cmds
        <5> QED BY <5>1, <3>2, <2>b, <2>i DEF Exit
      <4>2. UNCHANGED <<status, row, crashes>>
        BY <3>0, <3>2 DEF Store
      <4> QED BY <4>1, <4>2, <3>0, <2>d, <2>e
    <3> QED BY <2>10, <3>1, <3>2 DEF RunFails
  <2>11. CASE RunPauses
    <3>1. /\ cmd.pc = "run" /\ cmd.job \in Jobs /\ status[cmd.job] # "absent"
          /\ cmd.kind \in {"workflow", "sync", "waiting", "watch"}
          /\ status' = [status EXCEPT ![cmd.job] = "paused_rate_limit"]
          /\ row' = IF row.exists THEN [row EXCEPT !.wake = "later"] ELSE row
          /\ crashes' = crashes
      BY <2>11, <2>h DEF RunPauses, PauseSyncJob, SetStatus, At, Others
    <3>a. row.job # None => row.exists
      BY DEF JobsInv, LinksAJob
    <3>2. /\ row' \in Rows /\ row'.job = row.job /\ row'.exists = row.exists
          /\ row'.job # None => row'.wake = "later"
      BY <3>1, <3>a, <2>a DEF Rows
    <3>3. /\ status' \in [Jobs -> Statuses] /\ LinksAJob' /\ status'[cmd.job] = "paused_rate_limit"
          /\ \A j \in Jobs : status[j] = "absent" => status'[j] = "absent"
      BY <3>1, <3>2, <3>a, StatusStep DEF Statuses
    <3>b. CutBeforeLink'
      BY <3>1, <3>2, <3>3, <2>a, CutStep
    <3>c. row'.job = None => crashes' > 0
      BY <3>1, <3>2 DEF JobsInv, CutBeforeLink
    <3>4. \/ cmd' \in Cmds /\ cmd'.pc \in {"idle", "watching", "paused"}
          \/ cmd' \in Cmds /\ cmd'.pc = "asleep" /\ cmd'.kind = "waiting" /\ cmd'.job = cmd.job
      <4>1. CASE cmd.kind = "workflow"
        BY <4>1, <2>11, <2>f DEF RunPauses, Steps
      <4>2. CASE cmd.kind = "sync"
        BY <4>2, <2>11, <2>b DEF RunPauses, Exit
      <4>3. CASE cmd.kind = "waiting"
        BY <4>3, <2>11, <2>f DEF RunPauses, Steps
      <4>4. CASE cmd.kind = "watch"
        BY <4>4, <2>11, <2>i DEF RunPauses
      <4> QED BY <3>1, <4>1, <4>2, <4>3, <4>4
    <3> QED BY <3>1, <3>2, <3>3, <3>b, <3>c, <3>4, <2>a DEF JobsInv, JobsTypeOK, RunnerHasJob,
                 RunnerOwnsActiveJob, SleeperKeepsJob, CanBeWoken
  <2>12. CASE LoadPaused
    <3>1. UNCHANGED <<status, row, crashes>> /\ cmd.pc = "paused"
      BY <2>12 DEF LoadPaused, Store, At, Others
    <3>2. CASE \E j \in PausedSyncJob : Take(j, "sleeping")
      <4>1. PICK j \in PausedSyncJob : Take(j, "sleeping")
        BY <3>2
      <4>2. cmd' \in Cmds /\ cmd'.pc = "sleeping"
        BY <4>1, <2>c, <2>t DEF PausedSyncJob, Steps
      <4>3. /\ row' \in Rows /\ status' \in [Jobs -> Statuses] /\ crashes' \in Nat
            /\ LinksAJob' /\ CutBeforeLink'
        BY <3>1, <2>e
      <4> QED BY <4>2, <4>3, <3>1 DEF JobsInv, JobsTypeOK, RunnerHasJob, RunnerOwnsActiveJob,
                 SleeperKeepsJob, CanBeWoken
    <3>3. CASE Exit
      BY <3>1, <3>3, <2>b, <2>d, <2>e DEF Exit
    <3> QED BY <2>12, <3>2, <3>3 DEF LoadPaused
  <2>13. CASE WaitEnds
    <3>1. /\ UNCHANGED <<status, row, crashes>> /\ cmd.pc = "asleep" /\ cmd.kind = "waiting"
          /\ Goto("run")
      BY <2>13 DEF WaitEnds, Store, At, Others
    <3>2. cmd' \in Cmds /\ cmd'.pc = "run" /\ cmd'.job = cmd.job /\ cmd'.kind = "waiting"
      BY <3>1, <2>f DEF Steps
    <3>3. /\ row' \in Rows /\ status' \in [Jobs -> Statuses] /\ crashes' \in Nat
          /\ LinksAJob' /\ CutBeforeLink'
      BY <3>1, <2>e
    <3> QED BY <3>1, <3>2, <3>3 DEF JobsInv, JobsTypeOK, RunnerHasJob, RunnerOwnsActiveJob,
                 SleeperKeepsJob, CanBeWoken
  <2>14. CASE Crash \/ LinkFails \/ Interrupt
    <3>1. /\ crashes' = crashes + 1 /\ row' = row
          /\ (cmd' = Idle \/ Watching(cmd.errors))
      BY <2>14 DEF Crash, LinkFails, Interrupt, Ended, Exit, Store, MarkSyncJobFailed
    <3>2. cmd' \in Cmds /\ cmd'.pc \in {"idle", "watching"}
      BY <3>1, <2>a, <2>b, <2>i DEF Cmds
    <3>3. crashes' \in Nat /\ crashes' > 0 /\ CutBeforeLink'
      BY <3>1, <2>a DEF CutBeforeLink
    <3>4. status' \in [Jobs -> Statuses] /\ LinksAJob'
      <4>1. CASE UNCHANGED status
        BY <3>1, <4>1, <2>a DEF JobsInv, LinksAJob
      <4>2. CASE At({"waiting"}, "asleep") /\ MarkSyncJobFailed(cmd.job)
        <5>1. cmd.job \in Jobs /\ status' = [status EXCEPT ![cmd.job] = "failed"]
          BY <4>2 DEF At, MarkSyncJobFailed, SetStatus, JobsInv, SleeperKeepsJob
        <5>a. row.job # None => row.exists
          BY DEF JobsInv, LinksAJob
        <5> QED BY <3>1, <5>1, <5>a, <2>a, StatusStep DEF Statuses
      <4> QED BY <2>14, <4>1, <4>2 DEF Crash, LinkFails, Interrupt, Store
    <3> QED BY <3>1, <3>2, <3>3, <3>4, <2>a, <2>d
  <2>15. CASE SchedulerResumes
    <3>1. PICK j \in Jobs : ResumeSyncJobByID(j)
      BY <2>15 DEF SchedulerResumes
    <3>2. UNCHANGED <<cmd, crashes>>
      BY <2>15 DEF SchedulerResumes
    <3>3. CASE row.job = None
      <4>1. UNCHANGED <<status, row>>
        BY <3>1, <3>3, ResumeStep
      <4> QED BY <3>2, <4>1, <2>a DEF JobsInv, JobsTypeOK, LinksAJob, CutBeforeLink, RunnerHasJob,
                 RunnerOwnsActiveJob, SleeperKeepsJob, CanBeWoken
    <3>4. CASE row.job # None
      <4>1. /\ status' \in [Jobs -> Statuses] /\ LinksAJob' /\ row' \in Rows /\ row'.job = j
            /\ \A i \in Jobs : status'[i] = status[i] \/ status'[i] = "resuming"
            /\ status'[j] = "resuming"
        BY <3>1, <3>4, ResumeStep
      <4>2. RunnerHasJob' /\ RunnerOwnsActiveJob' /\ SleeperKeepsJob'
        BY <3>2, <4>1 DEF JobsInv, RunnerHasJob, RunnerOwnsActiveJob, SleeperKeepsJob
      <4>3. CutBeforeLink' /\ CanBeWoken'
        BY <4>1, JobsAssumption DEF CutBeforeLink, CanBeWoken
      <4> QED BY <3>2, <4>1, <4>2, <4>3, <2>a DEF JobsInv, JobsTypeOK
    <3> QED BY <3>3, <3>4
  <2>16. CASE ResumeTimePasses \/ SaveCursor
    <3>1. /\ UNCHANGED <<status, cmd, crashes>>
          /\ \/ row' = [row EXCEPT !.wake = "due"] /\ row.wake = "later"
             \/ row' = [row EXCEPT !.exists = TRUE]
      BY <2>16 DEF ResumeTimePasses, SaveCursor, Others
    <3>2. /\ row' \in Rows /\ row'.job = row.job /\ (row.exists => row'.exists)
          /\ (row.wake # "none" => row'.wake # "none")
      BY <3>1, <2>a DEF Rows
    <3> QED BY <3>1, <3>2, <2>a DEF JobsInv, JobsTypeOK, LinksAJob, CutBeforeLink, RunnerHasJob,
                 RunnerOwnsActiveJob, SleeperKeepsJob, CanBeWoken
  <2>17. CASE SchedulerLists \/ UNCHANGED jobVars
    <3>1. UNCHANGED <<status, row, cmd, crashes>>
      BY <2>17 DEF SchedulerLists, jobVars
    <3> QED BY <3>1, <2>a DEF JobsInv, JobsTypeOK, LinksAJob, CutBeforeLink, RunnerHasJob,
                 RunnerOwnsActiveJob, SleeperKeepsJob, CanBeWoken
  <2> QED BY <2>1, <2>3, <2>4, <2>5, <2>6, <2>7, <2>8, <2>9, <2>10, <2>11, <2>12, <2>13,
             <2>14, <2>15, <2>16, <2>17 DEF JobsNext, CommandStep
<1>3. JobsInv => RunnerOwnsActiveJob /\ SleeperHasWakeUp
  BY DEF JobsInv, SleeperHasWakeUp, CanBeWoken, LinksAJob
<1> QED BY <1>1, <1>2, <1>3, PTL DEF JobsSpec

-----------------------------------------------------------------------------
(* The queue of pull requests. *)

QueueSpec == PRQueueInit /\ [][PRQueueNext]_queueVars

\* The least of a set of numbers.
LEMMA LeastExists ==
    ASSUME NEW S \in SUBSET Nat, S # {}
    PROVE  Min(S) \in S /\ \A y \in S : Min(S) <= y
<1> DEFINE R == {ss \in Nat \X Nat : ss[1] < ss[2]}
<1>a. IsWellFoundedOn(R, Nat)
  BY NatLessThanWellFounded DEF OpToRel
<1> HIDE DEF R
<1>1. PICK x \in S : \A y \in S : ~(<<y, x>> \in R)
  BY <1>a, WFMin
<1>2. ASSUME NEW y \in S PROVE x <= y
  <2>1. y < x => <<y, x>> \in R
    BY DEF R
  <2> QED BY <1>1, <2>1
<1> QED BY <1>2 DEF Min

\* What the two operations on a list do, place by place.
LEMMA Insertion ==
    ASSUME NEW T, NEW s \in Seq(T), NEW i \in 1..(Len(s) + 1), NEW e \in T
    PROVE  /\ InsertAt(s, i, e) \in Seq(T) /\ Len(InsertAt(s, i, e)) = Len(s) + 1
           /\ \A k \in 1..(Len(s) + 1) :
                 InsertAt(s, i, e)[k] = IF k < i THEN s[k] ELSE IF k = i THEN e ELSE s[k - 1]
<1> DEFINE a == SubSeq(s, 1, i - 1)
           b == SubSeq(s, i, Len(s))
<1>1. Len(s) \in Nat /\ \A k \in 1..Len(s) : s[k] \in T
  OBVIOUS
<1>2. /\ a \in Seq(T) /\ Len(a) = i - 1
      /\ \A k \in 1..(i - 1) : a[k] = s[k]
  <2>1. \A k \in 1..(i - 1) : s[k] \in T
    BY <1>1
  <2>2. /\ a \in Seq(T) /\ Len(a) = IF 1 <= i - 1 THEN i - 1 - 1 + 1 ELSE 0
        /\ \A k \in 1..(i - 1 - 1 + 1) : a[k] = s[1 + k - 1]
    BY <2>1, SubSeqProperties
  <2> QED BY <1>1, <2>2
<1>3. /\ b \in Seq(T) /\ Len(b) = Len(s) - i + 1
      /\ \A k \in 1..(Len(s) - i + 1) : b[k] = s[i + k - 1]
  <2>1. \A k \in i..Len(s) : s[k] \in T
    BY <1>1
  <2>2. /\ b \in Seq(T) /\ Len(b) = IF i <= Len(s) THEN Len(s) - i + 1 ELSE 0
        /\ \A k \in 1..(Len(s) - i + 1) : b[k] = s[i + k - 1]
    BY <1>1, <2>1, SubSeqProperties
  <2> QED BY <1>1, <2>2
<1> HIDE DEF a, b
<1>4. /\ a \o <<e>> \in Seq(T) /\ Len(a \o <<e>>) = i
      /\ \A k \in 1..i : (a \o <<e>>)[k] = IF k < i THEN s[k] ELSE e
  BY <1>1, <1>2
<1> DEFINE c == a \o <<e>>
<1> HIDE DEF c
<1>c. /\ c \in Seq(T) /\ Len(c) = i
      /\ \A k \in 1..i : c[k] = IF k < i THEN s[k] ELSE e
  BY <1>4 DEF c
<1>5. /\ c \o b \in Seq(T) /\ Len(c \o b) = Len(c) + Len(b)
      /\ \A k \in 1..(Len(c) + Len(b)) : (c \o b)[k] = IF k <= Len(c) THEN c[k] ELSE b[k - Len(c)]
  BY <1>3, <1>c, ConcatProperties
<1>6. \A k \in 1..(Len(s) + 1) :
         (c \o b)[k] = IF k < i THEN s[k] ELSE IF k = i THEN e ELSE s[k - 1]
  <2> SUFFICES ASSUME NEW k \in 1..(Len(s) + 1)
               PROVE  (c \o b)[k] = IF k < i THEN s[k] ELSE IF k = i THEN e ELSE s[k - 1]
    OBVIOUS
  <2>1. CASE k <= i
    BY <1>1, <1>3, <1>c, <1>5, <2>1
  <2>2. CASE k > i
    <3>1. (c \o b)[k] = b[k - i]
      BY <1>1, <1>3, <1>c, <1>5, <2>2
    <3>2. k - i \in 1..(Len(s) - i + 1) /\ i + (k - i) - 1 = k - 1
      BY <1>1, <2>2
    <3>3. b[k - i] = s[i + (k - i) - 1]
      BY <1>3, <3>2
    <3>4. (c \o b)[k] = s[k - 1]
      BY <3>1, <3>2, <3>3
    <3>5. ~(k < i) /\ k # i
      BY <1>1, <2>2
    <3> QED BY <3>4, <3>5
  <2>3. k <= i \/ k > i
    BY <1>1
  <2> QED BY <2>1, <2>2, <2>3, Zenon
<1>7. Len(c \o b) = Len(s) + 1
  BY <1>1, <1>3, <1>c, <1>5
<1> QED BY <1>5, <1>6, <1>7 DEF InsertAt, a, b, c

LEMMA Removal ==
    ASSUME NEW T, NEW s \in Seq(T), NEW i \in 1..Len(s)
    PROVE  /\ RemoveAt(s, i) \in Seq(T) /\ Len(RemoveAt(s, i)) = Len(s) - 1
           /\ \A k \in 1..(Len(s) - 1) : RemoveAt(s, i)[k] = IF k < i THEN s[k] ELSE s[k + 1]
<1> DEFINE a == SubSeq(s, 1, i - 1)
           b == SubSeq(s, i + 1, Len(s))
<1>1. Len(s) \in Nat /\ \A k \in 1..Len(s) : s[k] \in T
  OBVIOUS
<1>2. /\ a \in Seq(T) /\ Len(a) = i - 1
      /\ \A k \in 1..(i - 1) : a[k] = s[k]
  <2>1. \A k \in 1..(i - 1) : s[k] \in T
    BY <1>1
  <2>2. /\ a \in Seq(T) /\ Len(a) = IF 1 <= i - 1 THEN i - 1 - 1 + 1 ELSE 0
        /\ \A k \in 1..(i - 1 - 1 + 1) : a[k] = s[1 + k - 1]
    BY <2>1, SubSeqProperties
  <2> QED BY <1>1, <2>2
<1>3. /\ b \in Seq(T) /\ Len(b) = Len(s) - i
      /\ \A k \in 1..(Len(s) - i) : b[k] = s[i + k]
  <2>1. \A k \in (i + 1)..Len(s) : s[k] \in T
    BY <1>1
  <2>2. /\ b \in Seq(T) /\ Len(b) = IF i + 1 <= Len(s) THEN Len(s) - (i + 1) + 1 ELSE 0
        /\ \A k \in 1..(Len(s) - (i + 1) + 1) : b[k] = s[i + 1 + k - 1]
    BY <1>1, <2>1, SubSeqProperties
  <2> QED BY <1>1, <2>2
<1> HIDE DEF a, b
<1>4. /\ a \o b \in Seq(T) /\ Len(a \o b) = Len(a) + Len(b)
      /\ \A k \in 1..(Len(a) + Len(b)) : (a \o b)[k] = IF k <= Len(a) THEN a[k] ELSE b[k - Len(a)]
  BY <1>2, <1>3, ConcatProperties
<1>5. \A k \in 1..(Len(s) - 1) : (a \o b)[k] = IF k < i THEN s[k] ELSE s[k + 1]
  <2> SUFFICES ASSUME NEW k \in 1..(Len(s) - 1)
               PROVE  (a \o b)[k] = IF k < i THEN s[k] ELSE s[k + 1]
    OBVIOUS
  <2>1. CASE k < i
    BY <1>1, <1>2, <1>3, <1>4, <2>1
  <2>2. CASE k >= i
    <3>1. (a \o b)[k] = b[k - (i - 1)]
      BY <1>1, <1>2, <1>3, <1>4, <2>2
    <3>2. k - (i - 1) \in 1..(Len(s) - i) /\ i + (k - (i - 1)) = k + 1
      BY <1>1, <2>2
    <3>3. b[k - (i - 1)] = s[i + (k - (i - 1))]
      BY <1>3, <3>2
    <3>4. (a \o b)[k] = s[k + 1]
      BY <3>1, <3>2, <3>3
    <3>5. ~(k < i)
      BY <1>1, <2>2
    <3> QED BY <3>4, <3>5
  <2>3. k < i \/ k >= i
    BY <1>1
  <2> QED BY <2>1, <2>2, <2>3, Zenon
<1>6. Len(a \o b) = Len(s) - 1
  BY <1>1, <1>2, <1>3, <1>4
<1> QED BY <1>4, <1>5, <1>6 DEF RemoveAt, a, b

QueueTypeOK ==
    /\ items \in Seq(Items)
    /\ busy \in [Loops -> SUBSET Items]

\* The list is in the order of the priorities, highest first.
Sorted(s) == \A k, m \in 1..Len(s) : k < m => Priority[s[k]] >= Priority[s[m]]

QueueInv == QueueTypeOK /\ Sorted(items)

\* An item goes behind everything of its priority: the list stays sorted,
\* wherever that is.
LEMMA InsertionSorts ==
    ASSUME items \in Seq(Items), Sorted(items), NEW i \in Items
    PROVE  Inserted(i) \in Seq(Items) /\ Sorted(Inserted(i))
<1> DEFINE lower == {k \in DOMAIN items : Priority[i] > Priority[items[k]]}
           at    == IF lower = {} THEN Len(items) + 1 ELSE Min(lower)
           new   == InsertAt(items, at, i)
<1>1. Len(items) \in Nat /\ DOMAIN items = 1..Len(items) /\ \A k \in 1..Len(items) : items[k] \in Items
  OBVIOUS
<1>2. \A j \in Items : Priority[j] \in Nat
  BY PRQueueAssumption
<1>3. lower # {} => Min(lower) \in lower /\ \A y \in lower : Min(lower) <= y
  <2>1. lower \in SUBSET Nat
    BY <1>1
  <2> QED BY <2>1, LeastExists
<1>4. at \in 1..(Len(items) + 1)
  BY <1>1, <1>3
<1>5. \A k \in 1..Len(items) : k < at => Priority[items[k]] >= Priority[i]
  <2> SUFFICES ASSUME NEW k \in 1..Len(items), k < at PROVE Priority[items[k]] >= Priority[i]
    OBVIOUS
  <2>1. k \notin lower
    <3>1. CASE lower = {}
      BY <3>1
    <3>2. CASE lower # {}
      <4>1. at = Min(lower) /\ at \in Nat
        BY <1>1, <1>3, <3>2
      <4>2. k \in lower => at <= k
        BY <1>3, <3>2, <4>1
      <4> HIDE DEF at
      <4> QED BY <4>1, <4>2
    <3> QED BY <3>1, <3>2
  <2>2. ~(Priority[i] > Priority[items[k]])
    BY <1>1, <2>1
  <2>3. Priority[i] \in Nat /\ Priority[items[k]] \in Nat
    BY <1>1, <1>2
  <2> QED BY <2>2, <2>3
<1>6. \A k \in 1..Len(items) : k >= at => Priority[i] >= Priority[items[k]]
  <2> SUFFICES ASSUME NEW k \in 1..Len(items), k >= at PROVE Priority[i] >= Priority[items[k]]
    OBVIOUS
  <2>1. lower # {} /\ at = Min(lower) /\ at \in 1..Len(items)
    BY <1>1, <1>3
  <2>2. Priority[i] > Priority[items[at]]
    BY <1>3, <2>1
  <2> HIDE DEF at
  <2>3. at = k \/ Priority[items[at]] >= Priority[items[k]]
    BY <1>1, <2>1 DEF Sorted
  <2>4. Priority[items[at]] \in Nat /\ Priority[items[k]] \in Nat /\ Priority[i] \in Nat
    BY <1>1, <1>2, <2>1
  <2> QED BY <2>2, <2>3, <2>4
<1> HIDE DEF at
<1>7. /\ new \in Seq(Items) /\ Len(new) = Len(items) + 1
      /\ \A k \in 1..(Len(items) + 1) :
            new[k] = IF k < at THEN items[k] ELSE IF k = at THEN i ELSE items[k - 1]
  BY <1>4, Insertion
<1> HIDE DEF new
<1>8. ASSUME NEW k \in 1..Len(new), NEW m \in 1..Len(new), k < m
      PROVE  Priority[new[k]] >= Priority[new[m]]
  <2>1. k \in 1..(Len(items) + 1) /\ m \in 1..(Len(items) + 1)
    BY <1>7
  <2>2. CASE k # at /\ m # at
    <3> DEFINE k1 == IF k < at THEN k ELSE k - 1
               m1 == IF m < at THEN m ELSE m - 1
    <3>1. k1 \in 1..Len(items) /\ m1 \in 1..Len(items) /\ k1 < m1
      BY <1>1, <1>4, <1>8, <2>1, <2>2
    <3>2. new[k] = items[k1] /\ new[m] = items[m1]
      BY <1>4, <1>7, <2>1, <2>2
    <3> QED BY <3>1, <3>2 DEF Sorted
  <2>3. CASE k = at
    <3>1. m - 1 \in 1..Len(items) /\ m - 1 >= at
      BY <1>1, <1>4, <1>8, <2>1, <2>3
    <3>2. new[k] = i /\ new[m] = items[m - 1]
      BY <1>4, <1>7, <1>8, <2>1, <2>3
    <3> QED BY <1>6, <3>1, <3>2
  <2>4. CASE m = at
    <3>1. k \in 1..Len(items) /\ k < at
      BY <1>1, <1>4, <1>8, <2>1, <2>4
    <3>2. new[m] = i /\ new[k] = items[k]
      BY <1>4, <1>7, <1>8, <2>1, <2>4
    <3> QED BY <1>5, <3>1, <3>2
  <2> QED BY <2>2, <2>3, <2>4
<1>9. Inserted(i) = new
  BY DEF Inserted, new, at
<1> QED BY <1>7, <1>8, <1>9 DEF Sorted

\* Whichever loops fail and put their items back, and whatever is enqueued
\* meanwhile, a loop takes the item of the highest priority among those whose
\* backoff is over (sync/queue.go:306-371).
THEOREM QueueServesInOrder == QueueSpec => ServedInOrder
<1>1. PRQueueInit => QueueInv
  BY DEF PRQueueInit, QueueInv, QueueTypeOK, Sorted
<1>2. QueueInv /\ [PRQueueNext]_queueVars => QueueInv'
  <2> SUFFICES ASSUME QueueInv, [PRQueueNext]_queueVars PROVE QueueInv'
    OBVIOUS
  <2>a. QueueTypeOK /\ Sorted(items)
    BY DEF QueueInv
  <2>b. \A i \in Items : Inserted(i) \in Seq(Items) /\ Sorted(Inserted(i))
    BY <2>a, InsertionSorts DEF QueueTypeOK
  <2>1. ASSUME NEW i \in Items, EnqueuePR(i) PROVE QueueInv'
    <3>1. items' \in Seq(Items) /\ Sorted(items')
      BY <2>1, <2>b DEF EnqueuePR
    <3> QED BY <2>1, <2>a, <3>1 DEF EnqueuePR, QueueInv, QueueTypeOK
  <2>2. ASSUME NEW l \in Loops, DequeuePR(l) PROVE QueueInv'
    <3> DEFINE ready == {k \in DOMAIN items : next[items[k]] <= minute}
               at    == Min(ready)
    <3>1. Len(items) \in Nat /\ DOMAIN items = 1..Len(items) /\ \A k \in 1..Len(items) : items[k] \in Items
      BY <2>a DEF QueueTypeOK
    <3>2. ready # {} /\ items' = RemoveAt(items, at) /\ busy' = [busy EXCEPT ![l] = {items[at]}]
      BY <2>2 DEF DequeuePR
    <3>3. at \in 1..Len(items)
      BY <3>1, <3>2, LeastExists
    <3> HIDE DEF at
    <3>4. /\ items' \in Seq(Items) /\ Len(items') = Len(items) - 1
          /\ \A k \in 1..(Len(items) - 1) : items'[k] = IF k < at THEN items[k] ELSE items[k + 1]
      BY <2>a, <3>2, <3>3, Removal DEF QueueTypeOK
    <3>5. ASSUME NEW k \in 1..Len(items'), NEW m \in 1..Len(items'), k < m
          PROVE  Priority[items'[k]] >= Priority[items'[m]]
      <4> DEFINE k1 == IF k < at THEN k ELSE k + 1
                 m1 == IF m < at THEN m ELSE m + 1
      <4>1. k1 \in 1..Len(items) /\ m1 \in 1..Len(items) /\ k1 < m1
        BY <3>1, <3>3, <3>4, <3>5
      <4>2. items'[k] = items[k1] /\ items'[m] = items[m1]
        BY <3>1, <3>3, <3>4
      <4> QED BY <2>a, <4>1, <4>2 DEF Sorted
    <3>6. busy' \in [Loops -> SUBSET Items]
      BY <2>a, <3>1, <3>2, <3>3 DEF QueueTypeOK
    <3>7. UNCHANGED <<minute, tried, next>>
      BY <2>2 DEF DequeuePR
    <3> QED BY <2>a, <3>4, <3>5, <3>6, <3>7 DEF QueueInv, QueueTypeOK, Sorted
  <2>3. ASSUME NEW l \in Loops, NEW i \in Items, Processed(l, i) PROVE QueueInv'
    BY <2>3, <2>a DEF Processed, QueueInv, QueueTypeOK
  <2>4. ASSUME NEW l \in Loops, NEW i \in Items, RateLimited(l, i) \/ Failed(l, i) PROVE QueueInv'
    <3>1. PICK wait : Requeue(l, i, wait)
      BY <2>4 DEF RateLimited, Failed
    <3>2. items' \in Seq(Items) /\ Sorted(items')
      BY <2>b, <3>1 DEF Requeue
    <3>3. busy' \in [Loops -> SUBSET Items]
      BY <2>a, <3>1 DEF Requeue, QueueTypeOK
    <3> QED BY <3>2, <3>3 DEF QueueInv, QueueTypeOK
  <2>5. CASE MinutePasses
    BY <2>5, <2>a DEF MinutePasses, QueueInv, QueueTypeOK
  <2>6. CASE UNCHANGED queueVars
    BY <2>6, <2>a DEF queueVars, QueueInv, QueueTypeOK
  <2> QED BY <2>1, <2>2, <2>3, <2>4, <2>5, <2>6 DEF PRQueueNext
<1>3. QueueInv /\ [PRQueueNext]_queueVars =>
         [\A l \in Loops, i \in Items :
             i \in busy'[l] \ busy[l] =>
                 /\ next[i] <= minute
                 /\ \A j \in ToSet(items) : next[j] <= minute => Priority[j] <= Priority[i]]_queueVars
  <2> SUFFICES ASSUME QueueTypeOK, Sorted(items), PRQueueNext,
                      NEW l \in Loops, NEW i \in Items, i \in busy'[l] \ busy[l]
               PROVE  /\ next[i] <= minute
                      /\ \A j \in ToSet(items) : next[j] <= minute => Priority[j] <= Priority[i]
    BY DEF QueueInv
  <2>1. PICK q \in Loops : DequeuePR(q)
    <3>1. ASSUME NEW q \in Loops, NEW p \in Items, Processed(q, p) \/ RateLimited(q, p) \/ Failed(q, p)
          PROVE  FALSE
      BY <3>1 DEF Processed, RateLimited, Failed, Requeue, QueueTypeOK
    <3>2. ASSUME MinutePasses \/ \E p \in Items : EnqueuePR(p) PROVE FALSE
      BY <3>2 DEF MinutePasses, EnqueuePR
    <3> QED BY <3>1, <3>2 DEF PRQueueNext
  <2> DEFINE ready == {k \in DOMAIN items : next[items[k]] <= minute}
             at    == Min(ready)
  <2>2. Len(items) \in Nat /\ DOMAIN items = 1..Len(items) /\ \A k \in 1..Len(items) : items[k] \in Items
    BY DEF QueueTypeOK
  <2>3. ready # {} /\ busy' = [busy EXCEPT ![q] = {items[at]}]
    BY <2>1 DEF DequeuePR
  <2>4. i = items[at]
    BY <2>3 DEF QueueTypeOK
  <2>5. at \in ready /\ \A k \in ready : at <= k
    <3>1. ready \in SUBSET Nat
      BY <2>2
    <3> QED BY <2>3, <3>1, LeastExists
  <2>6. ASSUME NEW j \in ToSet(items), next[j] <= minute PROVE Priority[j] <= Priority[i]
    <3>1. PICK k \in 1..Len(items) : items[k] = j
      BY <2>2 DEF ToSet
    <3>2. k \in ready /\ at \in 1..Len(items) /\ at <= k
      BY <2>2, <2>5, <2>6, <3>1
    <3>3. at = k \/ Priority[items[at]] >= Priority[items[k]]
      BY <2>2, <3>2 DEF Sorted
    <3>4. Priority[i] \in Nat /\ Priority[j] \in Nat
      BY <2>2, <3>1, PRQueueAssumption
    <3> QED BY <2>4, <3>1, <3>3, <3>4
  <2> QED BY <2>4, <2>5, <2>6
<1> QED BY <1>1, <1>2, <1>3, PTL DEF QueueSpec, ServedInOrder

-----------------------------------------------------------------------------
(* The progress events. *)

EventsSpec == EventsInit /\ [][EventsNext]_eventVars

\* The events from a to n, each once and in order.
Consecutive(s, a, n) ==
    /\ s \in Seq(Nat) /\ Len(s) = n - a + 1
    /\ \A k \in 1..Len(s) : s[k] = a + k - 1

\* Events in order, of the first n.
Ascending(s, n) ==
    /\ s \in Seq(Nat)
    /\ \A k \in 1..Len(s) : s[k] <= n
    /\ \A k, m \in 1..Len(s) : k < m => s[k] < s[m]

StreamTypeOK ==
    stream \in [Streams -> [on : BOOLEAN, chan : Seq(Nat), written : Seq(Nat), due : Nat, lost : BOOLEAN]]

\* The events are numbered as they come, and those of the run are the last.
RunIsLast ==
    /\ Consecutive(published, 1, Len(published))
    /\ Len(pending) <= Len(published)
    /\ Consecutive(pending, Len(published) - Len(pending) + 1, Len(published))

\* What a stream has got, when n events are out.
Gets(s, n) ==
    s.on =>
        /\ s.due \in 1..(n + 1)
        /\ Ascending(s.written \o s.chan, n)
        /\ ~s.lost => Consecutive(s.written \o s.chan, s.due, n)

EventsInv == StreamTypeOK /\ RunIsLast /\ \A r \in Streams : Gets(stream[r], Len(published))

\* One event more.
LEMMA OneMore ==
    ASSUME NEW n \in Nat, NEW s \in Seq(Nat)
    PROVE  /\ Append(s, n + 1) \in Seq(Nat) /\ Len(Append(s, n + 1)) = Len(s) + 1
           /\ Ascending(s, n) => Ascending(s, n + 1) /\ Ascending(Append(s, n + 1), n + 1)
           /\ \A a \in 1..(n + 1) : Consecutive(s, a, n) => Consecutive(Append(s, n + 1), a, n + 1)
<1> DEFINE t == Append(s, n + 1)
<1>1. /\ t \in Seq(Nat) /\ Len(t) = Len(s) + 1 /\ Len(s) \in Nat
      /\ \A k \in 1..Len(s) : t[k] = s[k] /\ s[k] \in Nat
      /\ t[Len(s) + 1] = n + 1
  BY AppendProperties
<1> HIDE DEF t
<1>2. ASSUME Ascending(s, n) PROVE Ascending(s, n + 1) /\ Ascending(t, n + 1)
  <2>1. \A k \in 1..Len(s) : s[k] <= n + 1
    BY <1>1, <1>2 DEF Ascending
  <2>2. \A k \in 1..Len(t) : t[k] <= n + 1
    BY <1>1, <2>1
  <2>3. ASSUME NEW k \in 1..Len(t), NEW m \in 1..Len(t), k < m PROVE t[k] < t[m]
    <3>1. k \in 1..Len(s) /\ t[k] = s[k] /\ s[k] <= n /\ s[k] \in Nat
      BY <1>1, <1>2, <2>3 DEF Ascending
    <3>2. CASE m = Len(s) + 1
      BY <1>1, <3>1, <3>2
    <3>3. CASE m \in 1..Len(s)
      BY <1>1, <1>2, <2>3, <3>1, <3>3 DEF Ascending
    <3> QED BY <1>1, <3>2, <3>3
  <2> QED BY <1>1, <1>2, <2>1, <2>2, <2>3 DEF Ascending
<1>3. ASSUME NEW a \in 1..(n + 1), Consecutive(s, a, n) PROVE Consecutive(t, a, n + 1)
  <2>1. Len(s) = n - a + 1 /\ \A k \in 1..Len(s) : s[k] = a + k - 1
    BY <1>3 DEF Consecutive
  <2>2. ASSUME NEW k \in 1..Len(t) PROVE t[k] = a + k - 1
    <3>1. CASE k = Len(s) + 1
      BY <1>1, <2>1, <3>1
    <3>2. CASE k \in 1..Len(s)
      BY <1>1, <2>1, <3>2
    <3> QED BY <1>1, <3>1, <3>2
  <2> QED BY <1>1, <2>1, <2>2 DEF Consecutive
<1> QED BY <1>1, <1>2, <1>3 DEF t

\* An event is put into the channel of a stream.
LEMMA Delivered ==
    ASSUME NEW w \in Seq(Nat), NEW c \in Seq(Nat), NEW e \in Nat
    PROVE  w \o Append(c, e) = Append(w \o c, e)
<1>1. <<e>> \in Seq(Nat) /\ w \o c \in Seq(Nat)
  BY ConcatProperties
<1>2. (w \o c) \o <<e>> = w \o (c \o <<e>>)
  BY <1>1, ConcatAssociative
<1>3. Append(c, e) = c \o <<e>>
  BY AppendIsConcat
<1>4. Append(w \o c, e) = (w \o c) \o <<e>>
  BY <1>1, AppendIsConcat
<1> QED BY <1>2, <1>3, <1>4

\* A stream moves an event from its channel to what it has written.
LEMMA Moved ==
    ASSUME NEW w \in Seq(Nat), NEW c \in Seq(Nat), c # <<>>
    PROVE  Append(w, Head(c)) \o Tail(c) = w \o c /\ Append(w, Head(c)) \in Seq(Nat) /\ Tail(c) \in Seq(Nat)
<1>1. Head(c) \in Nat /\ Tail(c) \in Seq(Nat)
  BY HeadTailProperties
<1>2. Append(w, Head(c)) = w \o <<Head(c)>> /\ Append(w, Head(c)) \in Seq(Nat)
  BY <1>1, AppendIsConcat, AppendProperties
<1>3. <<Head(c)>> \in Seq(Nat)
  BY <1>1
<1>4. <<Head(c)>> \o Tail(c) = c
  <2>1. Len(c) \in Nat /\ Len(c) # 0
    BY EmptySeq
  <2>2. Len(Tail(c)) = Len(c) - 1 /\ \A k \in 1..(Len(c) - 1) : Tail(c)[k] = c[k + 1]
    BY HeadTailProperties
  <2>3. Head(c) = c[1]
    BY <2>1
  <2> DEFINE h == <<Head(c)>>
             t == Tail(c)
  <2>4. h \in Seq(Nat) /\ Len(h) = 1 /\ h[1] = c[1]
    BY <1>1, <2>3
  <2>5. t \in Seq(Nat) /\ Len(t) = Len(c) - 1 /\ \A k \in 1..(Len(c) - 1) : t[k] = c[k + 1]
    BY <1>1, <2>2
  <2> HIDE DEF h, t
  <2>6. /\ h \o t \in Seq(Nat) /\ Len(h \o t) = Len(h) + Len(t)
        /\ \A k \in 1..(Len(h) + Len(t)) : (h \o t)[k] = IF k <= Len(h) THEN h[k] ELSE t[k - Len(h)]
    <3>1. h \in Seq(Nat) /\ t \in Seq(Nat)
      BY <2>4, <2>5
    <3> QED BY <3>1, ConcatProperties
  <2>7. Len(h \o t) = Len(c)
    BY <2>1, <2>4, <2>5, <2>6
  <2>8. ASSUME NEW k \in 1..Len(c) PROVE (h \o t)[k] = c[k]
    <3>1. CASE k = 1
      BY <2>1, <2>4, <2>5, <2>6, <3>1
    <3>2. CASE k # 1
      <4>1. (h \o t)[k] = t[k - 1]
        <5>1. Len(h) = 1 /\ k \in 1..(Len(h) + Len(t)) /\ ~(k <= 1)
          BY <2>1, <2>4, <2>5, <3>2
        <5> QED BY <2>6, <5>1
      <4>2. k - 1 \in 1..(Len(c) - 1) /\ (k - 1) + 1 = k
        BY <2>1, <3>2
      <4>3. t[k - 1] = c[(k - 1) + 1]
        BY <2>5, <4>2
      <4> QED BY <4>1, <4>2, <4>3
    <3> QED BY <3>1, <3>2
  <2>9. h \o t = c
    BY <2>6, <2>7, <2>8, SeqEqual
  <2> QED BY <2>9 DEF h, t
<1>5. (w \o <<Head(c)>>) \o Tail(c) = w \o (<<Head(c)>> \o Tail(c))
  BY <1>1, <1>3, ConcatAssociative
<1> QED BY <1>1, <1>2, <1>4, <1>5

\* What a stream has written and has waiting is what was published since the
\* run it joined began, without a gap unless its channel was full, for any
\* number of streams, runs and events and every capacity of a channel
\* (sync/sse.go:38-154).
THEOREM EventsComeInOrder == EventsSpec => []StreamsInOrder
<1>1. EventsInit => EventsInv
  BY DEF EventsInit, EventsInv, StreamTypeOK, RunIsLast, Consecutive, Gets, Off
<1>2. EventsInv /\ [EventsNext]_eventVars => EventsInv'
  <2> SUFFICES ASSUME EventsInv, [EventsNext]_eventVars PROVE EventsInv'
    OBVIOUS
  <2>a. StreamTypeOK /\ RunIsLast /\ \A r \in Streams : Gets(stream[r], Len(published))
    BY DEF EventsInv
  <2>b. /\ published \in Seq(Nat) /\ pending \in Seq(Nat)
        /\ Len(published) \in Nat /\ Len(pending) \in Nat /\ Len(pending) <= Len(published)
    BY <2>a DEF RunIsLast, Consecutive
  <2>c. \A r \in Streams : /\ stream[r].on \in BOOLEAN /\ stream[r].lost \in BOOLEAN
                           /\ stream[r].chan \in Seq(Nat) /\ stream[r].written \in Seq(Nat)
                           /\ stream[r].due \in Nat
    BY <2>a DEF StreamTypeOK
  \* One stream changes.
  <2>d. ASSUME NEW r \in Streams, NEW s, stream' = [stream EXCEPT ![r] = s],
               s \in [on : BOOLEAN, chan : Seq(Nat), written : Seq(Nat), due : Nat, lost : BOOLEAN],
               Gets(s, Len(published)), UNCHANGED <<pending, published>>
        PROVE  EventsInv'
    <3>1. StreamTypeOK'
      BY <2>a, <2>d DEF StreamTypeOK
    <3>2. \A q \in Streams : stream'[q] = IF q = r THEN s ELSE stream[q]
      BY <2>a, <2>d DEF StreamTypeOK
    <3>3. \A q \in Streams : Gets(stream'[q], Len(published'))
      BY <2>a, <2>d, <3>2
    <3> QED BY <2>a, <2>d, <3>1, <3>3 DEF EventsInv, RunIsLast
  <2>1. CASE StartRun
    <3>1. pending' = <<>> /\ UNCHANGED <<published, stream>>
      BY <2>1 DEF StartRun
    <3>2. RunIsLast'
      BY <2>a, <2>b, <3>1 DEF RunIsLast, Consecutive
    <3> QED BY <2>a, <3>1, <3>2 DEF EventsInv, StreamTypeOK
  <2>2. ASSUME NEW last \in BOOLEAN, Publish(last) PROVE EventsInv'
    <3> DEFINE n == Len(published)
    <3>1. /\ pending' = Append(pending, n + 1) /\ published' = Append(published, n + 1)
          /\ stream' = [r \in Streams |-> Offer(stream[r])]
      BY <2>2 DEF Publish, Event
    <3>2. Len(published') = n + 1 /\ Len(pending') = Len(pending) + 1
      BY <2>b, <3>1, OneMore
    <3>3. Consecutive(published', 1, n + 1)
      BY <2>a, <2>b, <3>1, OneMore DEF RunIsLast
    <3>4. Consecutive(pending', n - Len(pending) + 1, n + 1)
      <4>1. n - Len(pending) + 1 \in 1..(n + 1)
        BY <2>b
      <4> QED BY <2>a, <2>b, <3>1, <4>1, OneMore DEF RunIsLast
    <3>5. RunIsLast'
      <4>1. n + 1 - (Len(pending) + 1) + 1 = n - Len(pending) + 1 /\ Len(pending) + 1 <= n + 1
        BY <2>b
      <4> QED BY <3>2, <3>3, <3>4, <4>1 DEF RunIsLast
    <3>6. ASSUME NEW r \in Streams
          PROVE  /\ Offer(stream[r]) \in [on : BOOLEAN, chan : Seq(Nat), written : Seq(Nat), due : Nat,
                                          lost : BOOLEAN]
                 /\ Gets(Offer(stream[r]), n + 1)
      <4> DEFINE s == stream[r]
      <4>a. s \in [on : BOOLEAN, chan : Seq(Nat), written : Seq(Nat), due : Nat, lost : BOOLEAN]
        BY <2>a DEF StreamTypeOK
      <4>b. Gets(s, n) /\ n \in Nat
        BY <2>a, <2>b
      <4> HIDE DEF n, s
      <4>1. CASE ~s.on
        BY <4>1, <4>a DEF Offer, Gets, s
      <4>2. CASE s.on /\ Len(s.chan) < Capacity
        <5> DEFINE new == [s EXCEPT !.chan = Append(@, n + 1)]
        <5>1. Append(s.chan, n + 1) \in Seq(Nat)
          BY <4>a, <4>b, OneMore
        <5>2. new \in [on : BOOLEAN, chan : Seq(Nat), written : Seq(Nat), due : Nat, lost : BOOLEAN]
          BY <4>a, <5>1
        <5>3. /\ new.on = s.on /\ new.written = s.written /\ new.due = s.due /\ new.lost = s.lost
              /\ new.chan = Append(s.chan, n + 1)
          BY <4>a
        <5>4. s.written \o Append(s.chan, n + 1) = Append(s.written \o s.chan, n + 1)
          <6>1. s.written \in Seq(Nat) /\ s.chan \in Seq(Nat) /\ n + 1 \in Nat
            BY <4>a, <4>b
          <6> QED BY <6>1, Delivered
        <5>5. s.written \o s.chan \in Seq(Nat) /\ s.due \in 1..(n + 1)
          BY <4>2, <4>b DEF Gets, Ascending
        <5>6. Gets(new, n + 1)
          <6>1. Ascending(Append(s.written \o s.chan, n + 1), n + 1)
            BY <4>2, <4>b, <5>5, OneMore DEF Gets
          <6>2. ~s.lost => Consecutive(Append(s.written \o s.chan, n + 1), s.due, n + 1)
            BY <4>2, <4>b, <5>5, OneMore DEF Gets
          <6>3. s.due \in 1..(n + 1 + 1)
            BY <4>b, <5>5
          <6> HIDE DEF new
          <6> QED BY <5>3, <5>4, <6>1, <6>2, <6>3 DEF Gets
        <5>7. Offer(s) = new
          BY <4>2, <3>1 DEF Offer, Event, n
        <5> QED BY <5>2, <5>6, <5>7 DEF s
      <4>3. CASE s.on /\ ~(Len(s.chan) < Capacity)
        <5> DEFINE new == [s EXCEPT !.lost = TRUE]
        <5>1. new \in [on : BOOLEAN, chan : Seq(Nat), written : Seq(Nat), due : Nat, lost : BOOLEAN]
          BY <4>a
        <5>2. /\ new.on = s.on /\ new.written = s.written /\ new.due = s.due /\ new.lost
              /\ new.chan = s.chan
          BY <4>a
        <5>3. s.written \o s.chan \in Seq(Nat) /\ s.due \in 1..(n + 1) /\ s.due \in 1..(n + 1 + 1)
          BY <4>3, <4>b DEF Gets, Ascending
        <5>4. Ascending(s.written \o s.chan, n + 1)
          BY <4>3, <4>b, <5>3, OneMore DEF Gets
        <5> HIDE DEF new
        <5>5. Gets(new, n + 1)
          BY <5>2, <5>3, <5>4 DEF Gets
        <5>6. Offer(s) = new
          BY <4>3 DEF Offer, new
        <5> QED BY <5>1, <5>5, <5>6 DEF s
      <4> QED BY <4>1, <4>2, <4>3 DEF s
    <3>7. StreamTypeOK' /\ \A r \in Streams : Gets(stream'[r], Len(published'))
      BY <3>1, <3>2, <3>6 DEF StreamTypeOK
    <3> QED BY <3>5, <3>7 DEF EventsInv
  <2>3. CASE RunEnds
    BY <2>3, <2>a DEF RunEnds, EventsInv, StreamTypeOK, RunIsLast
  <2>4. ASSUME NEW r \in Streams, Subscribe(r) PROVE EventsInv'
    <3> DEFINE s == [Off EXCEPT !.on = TRUE, !.written = pending,
                                !.due = Len(published) - Len(pending) + 1]
    <3>1. stream' = [stream EXCEPT ![r] = s] /\ UNCHANGED <<pending, published>>
      BY <2>4 DEF Subscribe
    <3>0. /\ s.due = Len(published) - Len(pending) + 1 /\ s.written = pending /\ s.chan = <<>>
          /\ s.on /\ ~s.lost
      BY DEF Off
    <3>2. s.due \in 1..(Len(published) + 1)
      BY <2>b, <3>0
    <3>3. s \in [on : BOOLEAN, chan : Seq(Nat), written : Seq(Nat), due : Nat, lost : BOOLEAN]
      <4>1. Off \in [on : BOOLEAN, chan : Seq(Nat), written : Seq(Nat), due : Nat, lost : BOOLEAN]
        BY DEF Off
      <4>2. Len(published) - Len(pending) + 1 \in Nat
        BY <2>b
      <4> QED BY <2>b, <4>1, <4>2
    <3> HIDE DEF s
    <3>4. s.written \o s.chan = pending
      BY <2>b, <3>0, ConcatEmptySeq
    <3>5. Consecutive(pending, s.due, Len(published))
      BY <2>a, <3>0 DEF RunIsLast
    <3>6. Ascending(pending, Len(published))
      <4>1. /\ pending \in Seq(Nat) /\ Len(pending) = Len(published) - s.due + 1
            /\ \A k \in 1..Len(pending) : pending[k] = s.due + k - 1
        BY <3>5 DEF Consecutive
      <4>2. \A k \in 1..Len(pending) : pending[k] <= Len(published)
        BY <2>b, <3>2, <4>1
      <4>3. \A k, m \in 1..Len(pending) : k < m => pending[k] < pending[m]
        BY <2>b, <3>2, <4>1
      <4> QED BY <4>1, <4>2, <4>3 DEF Ascending
    <3>7. Gets(s, Len(published))
      BY <3>2, <3>4, <3>5, <3>6 DEF Gets
    <3> QED BY <2>d, <3>1, <3>3, <3>7
  <2>5. ASSUME NEW r \in Streams, WriteEvent(r) PROVE EventsInv'
    <3> DEFINE old == stream[r]
               s   == [old EXCEPT !.written = Append(@, Head(old.chan)), !.chan = Tail(@)]
    <3>1. stream' = [stream EXCEPT ![r] = s] /\ UNCHANGED <<pending, published>>
      BY <2>5 DEF WriteEvent
    <3>2. /\ Append(old.written, Head(old.chan)) \o Tail(old.chan) = old.written \o old.chan
          /\ Append(old.written, Head(old.chan)) \in Seq(Nat) /\ Tail(old.chan) \in Seq(Nat)
      BY <2>5, <2>c, Moved DEF WriteEvent
    <3>3. old \in [on : BOOLEAN, chan : Seq(Nat), written : Seq(Nat), due : Nat, lost : BOOLEAN]
      BY <2>a DEF StreamTypeOK
    <3>4. Gets(old, Len(published))
      BY <2>a
    <3> HIDE DEF old
    <3>5. s \in [on : BOOLEAN, chan : Seq(Nat), written : Seq(Nat), due : Nat, lost : BOOLEAN]
      BY <3>2, <3>3
    <3>6. s.on = old.on /\ s.due = old.due /\ s.lost = old.lost
          /\ s.written \o s.chan = old.written \o old.chan
      BY <3>2, <3>3
    <3> HIDE DEF s
    <3>7. Gets(s, Len(published))
      BY <3>4, <3>6 DEF Gets
    <3> QED BY <2>d, <3>1, <3>5, <3>7
  <2>6. ASSUME NEW r \in Streams, Unsubscribe(r) PROVE EventsInv'
    <3>1. Off \in [on : BOOLEAN, chan : Seq(Nat), written : Seq(Nat), due : Nat, lost : BOOLEAN]
      BY DEF Off
    <3>2. Gets(Off, Len(published))
      BY DEF Gets, Off
    <3> QED BY <2>6, <2>d, <3>1, <3>2 DEF Unsubscribe
  <2>7. CASE UNCHANGED eventVars
    BY <2>7, <2>a DEF eventVars, EventsInv, StreamTypeOK, RunIsLast
  <2> QED BY <2>1, <2>2, <2>3, <2>4, <2>5, <2>6, <2>7 DEF EventsNext
<1>3. EventsInv => StreamsInOrder
  <2> SUFFICES ASSUME EventsInv, NEW r \in Streams, stream[r].on
               PROVE  LET got == stream[r].written \o stream[r].chan
                          all == SubSeq(published, stream[r].due, Len(published))
                      IN  IF stream[r].lost
                          THEN \A i, j \in DOMAIN got : i < j => got[i] < got[j]
                          ELSE got = all
    BY DEF StreamsInOrder
  <2> DEFINE got == stream[r].written \o stream[r].chan
             due == stream[r].due
             n   == Len(published)
             all == SubSeq(published, due, n)
  <2>1. Gets(stream[r], n) /\ Consecutive(published, 1, n) /\ n \in Nat
    BY DEF EventsInv, RunIsLast, Consecutive
  <2>2. due \in 1..(n + 1) /\ Ascending(got, n) /\ (~stream[r].lost => Consecutive(got, due, n))
    BY <2>1 DEF Gets
  <2> HIDE DEF got, due, n
  <2>3. DOMAIN got = 1..Len(got) /\ \A i, j \in 1..Len(got) : i < j => got[i] < got[j]
    BY <2>2 DEF Ascending
  <2>4. ASSUME ~stream[r].lost PROVE got = all
    <3>1. \A k \in due..n : published[k] \in Nat
      BY <2>1, <2>2 DEF Consecutive, n
    <3>2. /\ all \in Seq(Nat) /\ Len(all) = IF due <= n THEN n - due + 1 ELSE 0
          /\ \A k \in 1..(n - due + 1) : all[k] = published[due + k - 1]
      BY <2>1, <2>2, <3>1, SubSeqProperties
    <3>3. /\ got \in Seq(Nat) /\ Len(got) = n - due + 1
          /\ \A k \in 1..Len(got) : got[k] = due + k - 1
      BY <2>2, <2>4 DEF Consecutive
    <3>4. Len(all) = Len(got)
      BY <2>1, <2>2, <3>2, <3>3
    <3>5. ASSUME NEW k \in 1..Len(got) PROVE got[k] = all[k]
      <4>1. due + k - 1 \in 1..n
        BY <2>1, <2>2, <3>3
      <4>2. published[due + k - 1] = 1 + (due + k - 1) - 1
        BY <2>1, <4>1 DEF Consecutive
      <4> QED BY <2>2, <3>2, <3>3, <4>1, <4>2
    <3> QED BY <3>2, <3>3, <3>4, <3>5, SeqEqual
  <2> QED BY <2>3, <2>4 DEF got, due, n
<1> QED BY <1>1, <1>2, <1>3, PTL DEF EventsSpec
=============================================================================
