----------------------------- MODULE MCServices -----------------------------
(***************************************************************************)
(* The parts around the analysis, checked in one run but each by itself:   *)
(* which is the part that moves, chosen before the first step, while the   *)
(* others stay in an initial state.  Where two parts touch the same row    *)
(* (SyncJobs and SyncFetch the progress row of a repository, in different  *)
(* columns), each has what the other does to it among its own actions.     *)
(***************************************************************************)
EXTENDS SyncJobs, SyncFetch, Budget, PRQueue, ResumeScheduler, ProgressEvents, GitHubCalls, Mirrors

CONSTANTS Parts,      \* the parts to check; SyncFetch is two, "fetch" with one
                      \* run at a time and "served" with a sync of serve beside
                      \* the command's, within smaller bounds and uncapped
          ServedTime  \* bound on the clock of "served"
VARIABLE which

partVars == <<which, jobVars, fetchVars, budgetVars, queueVars, schedVars, eventVars, callVars, mirrorVars>>

BudgetIdle == left = Min({5000, Limit}) /\ reserved = 0 /\ reserve = Min(Reserves)
CallsIdle ==
  /\ server = [merged |-> FALSE, empty |-> FALSE, open |-> TRUE, comments |-> 0, labelled |-> FALSE,
               required |-> 0, approvals |-> 0, ci |-> "pass"]
  /\ call = [op |-> "count", stage |-> 1, retries |-> 0, token |-> 1, outcome |-> "none"]
  /\ pr = [ci |-> "none", reviewed |-> FALSE, protection |-> "none"]
  /\ lost = 0
MirrorsIdle == MirrorsInit /\ legacy = [r \in Repos |-> Absent]

ServicesInit ==
  /\ which \in Parts
  /\ JobsInit /\ FetchInit /\ PRQueueInit /\ SchedulerInit /\ EventsInit
  /\ IF which = "budget" THEN BudgetInit ELSE BudgetIdle
  /\ IF which = "calls" THEN CallsInit ELSE CallsIdle
  /\ IF which = "mirrors" THEN MirrorsInit ELSE MirrorsIdle

ServicesNext ==
  /\ UNCHANGED which
  /\ \/ which = "jobs" /\ JobsNext
        /\ UNCHANGED <<fetchVars, budgetVars, queueVars, schedVars, eventVars, callVars, mirrorVars>>
     \/ which = "fetch" /\ FetchNext /\ (\A s \in Servers : ~Busy(s)')
        /\ UNCHANGED <<jobVars, budgetVars, queueVars, schedVars, eventVars, callVars, mirrorVars>>
     \/ which = "served" /\ FetchNext /\ clock' <= ServedTime /\ (\A s \in Syncers : run'[s].cap = 0)
        /\ UNCHANGED <<jobVars, budgetVars, queueVars, schedVars, eventVars, callVars, mirrorVars>>
     \/ which = "budget" /\ BudgetNext
        /\ UNCHANGED <<jobVars, fetchVars, queueVars, schedVars, eventVars, callVars, mirrorVars>>
     \/ which = "queue" /\ PRQueueNext
        /\ UNCHANGED <<jobVars, fetchVars, budgetVars, schedVars, eventVars, callVars, mirrorVars>>
     \/ which = "scheduler" /\ SchedulerNext
        /\ UNCHANGED <<jobVars, fetchVars, budgetVars, queueVars, eventVars, callVars, mirrorVars>>
     \/ which = "events" /\ EventsNext
        /\ UNCHANGED <<jobVars, fetchVars, budgetVars, queueVars, schedVars, callVars, mirrorVars>>
     \/ which = "calls" /\ CallsNext
        /\ UNCHANGED <<jobVars, fetchVars, budgetVars, queueVars, schedVars, eventVars, mirrorVars>>
     \/ which = "mirrors" /\ MirrorsNext
        /\ UNCHANGED <<jobVars, fetchVars, budgetVars, queueVars, schedVars, eventVars, callVars>>

\* JobsFairness of the part "jobs", and nothing of the others: which never
\* changes, so that J(A) is A in that part and FALSE in every other one.
J(A) == which = "jobs" /\ A
ServicesSpec ==
  /\ ServicesInit /\ [][ServicesNext]_partVars
  /\ SF_jobVars(J(RunCompletes \/ RunFails))
  /\ WF_jobVars(J(StartWorkflow)) /\ WF_jobVars(J(CommandStep))
  /\ WF_jobVars(J(ResumeTimePasses))
  /\ WF_jobVars(J(SchedulerLists)) /\ WF_jobVars(J(SchedulerResumes))

Pri == <<1, 1, 2>>   \* priorities of the items of the queue
=============================================================================
