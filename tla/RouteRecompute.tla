--------------------------- MODULE RouteRecompute ---------------------------
(***************************************************************************)
(* How the distance tables become the routes of getNextHop.  A table is    *)
(* stored (the own one in the memory of DistanceTableService, those of the *)
(* other cities in ReceivedTable) and a debounced timer of                 *)
(* RoutingOrchestratorService starts a recomputation: it builds the graph, *)
(* posts it as a job to jobs-service, and polls the job until a worker     *)
(* finished it.  One recomputation at a time; a timer that fires meanwhile *)
(* asks for another one after it.                                          *)
(*                                                                         *)
(* A table is the number of tables its sender sent, a graph and the routes *)
(* computed from it the tables they were built from.  BullMQ's queue and   *)
(* the worker are modelled by the states of a job.                         *)
(***************************************************************************)
EXTENDS Naturals, Sequences, FiniteSets

CONSTANTS
    Cities,       \* the other cities
    MaxTables,    \* bound: tables the central sends this city
    MaxPeerTables,  \* bound: tables another city sends
    MaxPolls,     \* maxRetries of pollJobResult
    MaxAttempts,  \* attempts of a job
    MaxFaults     \* bound: failed calls and attempts, crashes

ASSUME RouteRecomputeAssumption ==
    /\ IsFiniteSet(Cities)
    /\ MaxTables \in Nat \ {0}
    /\ MaxPeerTables \in Nat
    /\ MaxPolls \in Nat \ {0}
    /\ MaxAttempts \in Nat \ {0}
    /\ MaxFaults \in Nat

VARIABLES
    own,          \* distances; 0 is the empty map
    peers,        \* peers[c]: ReceivedTable; 0 before there is a row
    storing,      \* handlers between upsertTable and the scheduling
    timer,        \* debounceTimer is armed
    recomputing,  \* recomputing
    rerun,        \* rerunRequested
    step,         \* where the recomputation waits
    read,         \* what getAllTables returned to it
    jobs,         \* the jobs of the queue, in the order they were added
    polls,        \* polls[j]: polls of job j still to come; 0: not polled
    routes,       \* computedRoutes, by the tables they come from
    gaveUp,       \* the last recomputation ended without routes (observer)
    faults

vars == <<own, peers, storing, timer, recomputing, rerun, step,
          read, jobs, polls, routes, gaveUp, faults>>

tableVars == <<own, peers, storing>>
guardVars == <<timer, recomputing, rerun>>

Steps == {"idle", "read", "build", "poll"}
Graph == [own : 0..MaxTables, peers : [Cities -> 0..MaxPeerTables]]
Job == [state : {"waiting", "active", "completed", "failed"},
        attempts : 0..MaxAttempts, graph : Graph]

NoPeers == [c \in Cities |-> 0]
\* computedRoutes = null: no city has a next hop, as in the empty graph.
NoRoutes == [own |-> 0, peers |-> NoPeers]

\* The tables as they are stored now.
Tables == [own |-> own, peers |-> peers]

Init ==
    /\ own = 0
    /\ peers = NoPeers
    /\ storing = 0
    /\ timer = FALSE
    /\ recomputing = FALSE
    /\ rerun = FALSE
    /\ step = "idle"
    /\ read = NoPeers
    /\ jobs = <<>>
    /\ polls = <<>>
    /\ routes = NoRoutes
    /\ gaveUp = FALSE
    /\ faults = 0

Fault == faults < MaxFaults /\ faults' = faults + 1

-----------------------------------------------------------------------------
(* The tables.                                                             *)

\* applyOwnTable, up to its return: the map is replaced and the timer armed
\* anew.  The central sends a table when it changes and when the process that
\* starts asks for it.
ApplyOwnTable ==
    /\ own < MaxTables
    /\ own' \in (own + 1)..MaxTables
    /\ timer' = TRUE
    /\ UNCHANGED <<peers, storing, recomputing, rerun, step, read,
                   jobs, polls, routes, gaveUp, faults>>

\* applyPeerTable up to its await: the row is stored.
StorePeerTable(c) ==
    /\ peers[c] < MaxPeerTables
    /\ peers' = [peers EXCEPT ![c] = @ + 1]
    /\ storing' = storing + 1
    /\ UNCHANGED <<own, guardVars, step, read, jobs, polls, routes,
                   gaveUp, faults>>

\* ... and after it: scheduleRouteRecomputation.
ScheduleAfterStore ==
    /\ storing > 0
    /\ storing' = storing - 1
    /\ timer' = TRUE
    /\ UNCHANGED <<own, peers, recomputing, rerun, step, read, jobs,
                   polls, routes, gaveUp, faults>>

-----------------------------------------------------------------------------
(* RoutingOrchestratorService                                              *)

StartRun ==
    /\ recomputing' = TRUE
    /\ step' = "read"
    /\ gaveUp' = FALSE

\* Mutant of RunRecomputation: a timer that fires meanwhile is forgotten.
RunRecomputation_NoTrailing ==
    /\ timer
    /\ timer' = FALSE
    /\ \/ recomputing /\ UNCHANGED <<recomputing, step, gaveUp>>
       \/ ~recomputing /\ StartRun
    /\ UNCHANGED <<tableVars, rerun, read, jobs, polls, routes, faults>>

\* The timer fires: one recomputation at a time.
RunRecomputation ==
    /\ timer
    /\ timer' = FALSE
    /\ \/ recomputing /\ rerun' = TRUE /\ UNCHANGED <<recomputing, step, gaveUp>>
       \/ ~recomputing /\ StartRun /\ UNCHANGED rerun
    /\ UNCHANGED <<tableVars, read, jobs, polls, routes, faults>>

\* The finally clause of runRecomputation; lost tells how it ended.
EndRun(lost) ==
    /\ recomputing' = FALSE
    /\ rerun' = FALSE
    /\ timer' = (timer \/ rerun)
    /\ step' = "idle"
    /\ gaveUp' = lost

\* buildFullGraph up to its await.
ReadPeerTables ==
    /\ step = "read"
    /\ read' = peers
    /\ step' = "build"
    /\ UNCHANGED <<tableVars, guardVars, jobs, polls, routes, gaveUp, faults>>

NewJob(polled) ==
    /\ jobs' = Append(jobs, [state |-> "waiting", attempts |-> 0,
                             graph |-> [own |-> own, peers |-> read]])
    /\ polls' = Append(polls, polled)

\* Mutant of PostJob: the polling is not awaited, the guard is released.
PostJob_NotAwaited ==
    /\ step = "build"
    /\ NewJob(MaxPolls)
    /\ EndRun(FALSE)
    /\ UNCHANGED <<tableVars, read, routes, faults>>

\* The rest of buildFullGraph, with the own table as it is now, and POST /job.
PostJob ==
    /\ step = "build"
    /\ NewJob(MaxPolls)
    /\ step' = "poll"
    /\ UNCHANGED <<tableVars, guardVars, read, routes, gaveUp, faults>>

\* Mutant of PostFails: without the finally clause.
PostFails_NoFinally ==
    /\ step = "build"
    /\ Fault
    /\ step' = "idle"
    /\ gaveUp' = TRUE
    /\ UNCHANGED <<tableVars, guardVars, read, jobs, polls, routes>>

\* The call fails, before the job was added or after it: only a log.
PostFails ==
    /\ step = "build"
    /\ Fault
    /\ NewJob(0) \/ UNCHANGED <<jobs, polls>>
    /\ EndRun(TRUE)
    /\ UNCHANGED <<tableVars, read, routes>>

Polled(j) == j \in DOMAIN jobs /\ polls[j] > 0
StopPolling(j) == polls' = [polls EXCEPT ![j] = 0]

\* updateComputedRoutes with the result of the job.
PollCompleted(j) ==
    /\ Polled(j)
    /\ jobs[j].state = "completed"
    /\ routes' = jobs[j].graph
    /\ StopPolling(j)
    /\ EndRun(FALSE)
    /\ UNCHANGED <<tableVars, read, jobs, faults>>

PollFailed(j) ==
    /\ Polled(j)
    /\ jobs[j].state = "failed"
    /\ StopPolling(j)
    /\ EndRun(TRUE)
    /\ UNCHANGED <<tableVars, read, jobs, routes, faults>>

\* Not yet, or the call failed: wait a second, at most MaxPolls times.
PollAgain(j) ==
    /\ Polled(j)
    /\ \/ jobs[j].state \in {"waiting", "active"} /\ UNCHANGED faults
       \/ Fault
    /\ polls' = [polls EXCEPT ![j] = @ - 1]
    /\ \/ polls[j] > 1 /\ UNCHANGED <<guardVars, step, gaveUp>>
       \/ polls[j] = 1 /\ EndRun(TRUE)
    /\ UNCHANGED <<tableVars, read, jobs, routes>>

PollJobResult(j) == PollCompleted(j) \/ PollFailed(j) \/ PollAgain(j)

-----------------------------------------------------------------------------
(* jobs-service: one worker, one job at a time.                            *)

SetJob(j, state, attempts) ==
    /\ jobs' = [jobs EXCEPT ![j].state = state, ![j].attempts = attempts]
    /\ UNCHANGED <<tableVars, guardVars, step, read, polls, routes, gaveUp>>

TakeJob(j) ==
    /\ jobs[j].state = "waiting"
    /\ \A i \in DOMAIN jobs : jobs[i].state # "active"
    /\ SetJob(j, "active", jobs[j].attempts + 1)
    /\ UNCHANGED faults

CompleteJob(j) ==
    /\ jobs[j].state = "active"
    /\ SetJob(j, "completed", jobs[j].attempts)
    /\ UNCHANGED faults

\* Mutant of FailAttempt: one attempt too many.
FailAttempt_OneMore(j) ==
    /\ jobs[j].state = "active"
    /\ Fault
    /\ SetJob(j, IF jobs[j].attempts <= MaxAttempts THEN "waiting" ELSE "failed",
              jobs[j].attempts)

\* The attempt throws: the job waits for the next one, if there is one.
FailAttempt(j) ==
    /\ jobs[j].state = "active"
    /\ Fault
    /\ SetJob(j, IF jobs[j].attempts < MaxAttempts THEN "waiting" ELSE "failed",
              jobs[j].attempts)

Work(j) == TakeJob(j) \/ CompleteJob(j)

-----------------------------------------------------------------------------
\* The master dies, also when getAllTables throws: buildFullGraph is outside
\* the try, and nobody handles the promise of the timer's callback.  The jobs
\* and the tables of the other cities stay.
Crash ==
    /\ Fault
    /\ own' = 0
    /\ storing' = 0
    /\ timer' = FALSE
    /\ recomputing' = FALSE
    /\ rerun' = FALSE
    /\ step' = "idle"
    /\ read' = NoPeers
    /\ polls' = [j \in DOMAIN polls |-> 0]
    /\ routes' = NoRoutes
    /\ gaveUp' = FALSE
    /\ UNCHANGED <<peers, jobs>>

Next ==
    \/ ApplyOwnTable
    \/ \E c \in Cities : StorePeerTable(c)
    \/ ScheduleAfterStore
    \/ RunRecomputation
    \/ ReadPeerTables
    \/ PostJob
    \/ PostFails
    \/ \E j \in DOMAIN jobs : PollJobResult(j) \/ Work(j) \/ FailAttempt(j)
    \/ Crash

Spec == Init /\ [][Next]_vars

\* The broker delivers the own table the process asked for, the process goes
\* on, its timers fire, and the worker works.
FairSpec ==
    /\ Spec
    /\ WF_vars(ApplyOwnTable)
    /\ WF_vars(ScheduleAfterStore)
    /\ WF_vars(RunRecomputation)
    /\ WF_vars(ReadPeerTables)
    /\ WF_vars(PostJob)
    /\ WF_vars(\E j \in DOMAIN jobs : PollJobResult(j))
    /\ WF_vars(\E j \in DOMAIN jobs : Work(j))
=============================================================================
