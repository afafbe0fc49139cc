-------------------------- MODULE RecomputeProofs --------------------------
(***************************************************************************)
(* Proofs about RouteRecompute, for any number of cities, tables, polls,   *)
(* attempts and failures: the routes never go back to older tables, no     *)
(* table that was stored is forgotten, and RoutePromise is implemented.    *)
(***************************************************************************)
EXTENDS RecomputeProperties, TLAPS

\* No routes are routes.
LEMMA NullType == NoPeers \in [Cities -> 0..MaxPeerTables] /\ NoRoutes \in Graph
  BY RouteRecomputeAssumption DEF NoPeers, NoRoutes, Graph

\* The end of a recomputation keeps the flags flags.
LEMMA EndRunType ==
  ASSUME timer \in BOOLEAN, rerun \in BOOLEAN, NEW lost \in BOOLEAN, EndRun(lost)
  PROVE  /\ timer' \in BOOLEAN
         /\ recomputing' \in BOOLEAN
         /\ rerun' \in BOOLEAN
         /\ step' \in Steps
         /\ gaveUp' \in BOOLEAN
<1>1. (timer \/ rerun) \in BOOLEAN
  OBVIOUS
<1> QED
  BY <1>1 DEF EndRun, Steps

\* An element of a sequence over S is in S.
LEMMA ElementIn ==
  ASSUME NEW S, NEW s \in Seq(S), NEW i \in DOMAIN s
  PROVE  s[i] \in S
  OBVIOUS

\* The jobs that are there, with what a step of one of them needs.
LEMMA JobType ==
  ASSUME QueueOK, NEW j \in DOMAIN jobs
  PROVE  /\ jobs[j] \in Job
         /\ jobs[j].graph \in Graph
         /\ jobs[j].attempts \in 0..MaxAttempts
         /\ polls[j] \in 0..MaxPolls
<1>1. jobs \in Seq(Job) /\ polls \in Seq(0..MaxPolls) /\ Len(polls) = Len(jobs)
  BY DEF QueueOK
<1>2. jobs[j] \in Job
  BY <1>1
<1>3. j \in DOMAIN polls
  BY <1>1
<1>4. polls[j] \in 0..MaxPolls
  BY <1>1, <1>3, ElementIn, Zenon
<1> QED
  BY <1>2, <1>4 DEF Job

\* The initial state satisfies the invariant.
LEMMA InitInv == Init => IndInv
<1> SUFFICES ASSUME Init PROVE IndInv
  OBVIOUS
<1>1. QueueOK
  BY DEF Init, QueueOK
<1>2. TypeOK
  <2>1. {timer, recomputing, rerun, gaveUp} \subseteq BOOLEAN
    BY Zenon DEF Init
  <2>2. own \in 0..MaxTables /\ faults \in 0..MaxFaults
    BY RouteRecomputeAssumption DEF Init
  <2>3. storing \in Nat /\ step \in Steps
    BY DEF Init, Steps
  <2>4. peers \in [Cities -> 0..MaxPeerTables]
          /\ read \in [Cities -> 0..MaxPeerTables] /\ routes \in Graph
    BY NullType DEF Init
  <2> QED
    BY <1>1, <2>1, <2>2, <2>3, <2>4 DEF TypeOK
<1>3. DOMAIN jobs = {}
  BY DEF Init
<1>4. OnePolled /\ JobBetween /\ AttemptsLeft
  BY <1>3 DEF OnePolled, JobBetween, AttemptsLeft
<1>5. GuardHeld /\ ReadBetween
  BY DEF Init, GuardHeld, ReadBetween
<1>6. RoutesBehindTables
  BY DEF Init, RoutesBehindTables, AtLeastAsNew, Tables, NoRoutes, NoPeers
<1>7. SomeJobPolled /\ NoTableForgotten
  BY DEF Init, SomeJobPolled, NoTableForgotten, Scheduled
<1> QED
  BY <1>2, <1>4, <1>5, <1>6, <1>7 DEF IndInv

\* Adding a job keeps the queue and the polls well typed and equally long,
\* and leaves the older ones as they are.
LEMMA NewJobStep ==
  ASSUME TypeOK, NEW n \in 0..MaxPolls, NewJob(n)
  PROVE  /\ QueueOK'
         /\ Len(jobs') = Len(jobs) + 1
         /\ \A j \in DOMAIN jobs :
               jobs'[j] = jobs[j] /\ polls'[j] = polls[j]
         /\ polls'[Len(jobs')] = n
         /\ jobs'[Len(jobs')].graph = [own |-> own, peers |-> read]
<1> DEFINE new == [state |-> "waiting", attempts |-> 0,
                   graph |-> [own |-> own, peers |-> read]]
<1>1. new \in Job
  BY RouteRecomputeAssumption DEF TypeOK, Job, Graph
<1> HIDE DEF new
<1>2. jobs' = Append(jobs, new) /\ polls' = Append(polls, n)
  BY DEF NewJob, new
<1>3. jobs \in Seq(Job) /\ polls \in Seq(0..MaxPolls) /\ Len(polls) = Len(jobs)
  BY DEF TypeOK, QueueOK
<1>4. new.graph = [own |-> own, peers |-> read]
  BY DEF new
<1>5. jobs'[Len(jobs')] = new /\ polls'[Len(jobs')] = n
  BY <1>1, <1>2, <1>3
<1> QED
  BY <1>1, <1>2, <1>3, <1>4, <1>5 DEF QueueOK

\* A poll changes one number only.
LEMMA PollStep ==
  ASSUME QueueOK, NEW j \in DOMAIN jobs, NEW n \in 0..MaxPolls,
         polls' = [polls EXCEPT ![j] = n], UNCHANGED jobs
  PROVE  QueueOK'
  BY DEF QueueOK

\* The worker changes the state and the attempts of one job.
LEMMA SetJobStep ==
  ASSUME QueueOK, NEW j \in DOMAIN jobs, NEW n \in 0..MaxAttempts,
         NEW state \in {"waiting", "active", "completed", "failed"},
         SetJob(j, state, n)
  PROVE  /\ QueueOK'
         /\ Len(jobs') = Len(jobs)
         /\ \A i \in DOMAIN jobs : jobs'[i].graph = jobs[i].graph
<1> DEFINE new == [jobs[j] EXCEPT !.state = state, !.attempts = n]
<1>1. jobs \in Seq(Job) /\ jobs[j] \in Job
  BY DEF QueueOK
<1>2. new \in Job /\ new.graph = jobs[j].graph
  BY <1>1 DEF Job
<1>3. jobs' = [jobs EXCEPT ![j] = new] /\ UNCHANGED polls
  BY DEF SetJob
<1> HIDE DEF new
<1> QED
  BY <1>1, <1>2, <1>3 DEF QueueOK

\* A crash forgets the polls.
LEMMA CrashQueue == ASSUME QueueOK, Crash PROVE QueueOK'
<1>1. DOMAIN polls = 1..Len(polls) /\ Len(polls) \in Nat
  BY DEF QueueOK
<1>2. polls' = [j \in 1..Len(polls) |-> 0] /\ UNCHANGED jobs
  BY <1>1 DEF Crash
<1>3. 0 \in 0..MaxPolls
  BY RouteRecomputeAssumption
<1>4. polls' \in Seq(0..MaxPolls) /\ Len(polls') = Len(polls)
  BY <1>1, <1>2, <1>3
<1> QED
  BY <1>2, <1>4 DEF QueueOK

\* No step breaks the shape of the queue.
LEMMA QueueStep == ASSUME TypeOK, AttemptsLeft, [Next]_vars PROVE QueueOK'
<1>0. QueueOK
  BY DEF TypeOK
<1>1. CASE UNCHANGED <<jobs, polls>>
  BY <1>0, <1>1 DEF QueueOK
<1>2. CASE PostJob
  BY <1>2, NewJobStep, RouteRecomputeAssumption DEF PostJob
<1>3. CASE PostFails
  BY <1>1, <1>3, NewJobStep, RouteRecomputeAssumption DEF PostFails
<1>4. ASSUME NEW j \in DOMAIN jobs, PollJobResult(j) PROVE QueueOK'
  <2>1. polls[j] \in 0..MaxPolls
    BY <1>0, JobType
  <2>2. CASE StopPolling(j) /\ UNCHANGED jobs
    <3>1. 0 \in 0..MaxPolls
      BY RouteRecomputeAssumption
    <3> QED
      BY <1>0, <2>2, <3>1, PollStep DEF StopPolling
  <2>3. CASE PollAgain(j)
    <3>1. polls[j] - 1 \in 0..MaxPolls
      BY <2>1, <2>3, RouteRecomputeAssumption DEF PollAgain, Polled
    <3> QED
      BY <1>0, <2>3, <3>1, PollStep DEF PollAgain
  <2> QED
    BY <1>4, <2>2, <2>3 DEF PollJobResult, PollCompleted, PollFailed
<1>5. ASSUME NEW j \in DOMAIN jobs, Work(j) \/ FailAttempt(j) PROVE QueueOK'
  <2>1. jobs[j].attempts \in 0..MaxAttempts
    BY <1>0, JobType
  <2>2. CASE TakeJob(j)
    <3>1. jobs[j].attempts + 1 \in 0..MaxAttempts
      BY <2>1, <2>2, RouteRecomputeAssumption DEF TakeJob, AttemptsLeft
    <3> QED
      BY <1>0, <2>2, <3>1, SetJobStep DEF TakeJob
  <2> QED
    BY <1>0, <1>5, <2>1, <2>2, SetJobStep DEF Work, CompleteJob, FailAttempt
<1>6. CASE Crash
  BY <1>0, <1>6, CrashQueue
<1> QED
  BY <1>1, <1>2, <1>3, <1>4, <1>5, <1>6
  DEF Next, vars, tableVars, ApplyOwnTable, StorePeerTable, ScheduleAfterStore,
      RunRecomputation, ReadPeerTables

\* Types.
LEMMA TypeStep == ASSUME TypeOK, AttemptsLeft, [Next]_vars PROVE TypeOK'
<1>0. QueueOK /\ QueueOK'
  BY QueueStep DEF TypeOK
<1> USE <1>0, RouteRecomputeAssumption DEF TypeOK, tableVars, guardVars, Steps
<1>1. CASE ApplyOwnTable
  BY <1>1 DEF ApplyOwnTable
<1>2. ASSUME NEW c \in Cities, StorePeerTable(c) PROVE TypeOK'
  BY <1>2 DEF StorePeerTable
<1>3. CASE ScheduleAfterStore
  BY <1>3 DEF ScheduleAfterStore
<1>4. CASE RunRecomputation
  BY <1>4 DEF RunRecomputation, StartRun
<1>5. CASE ReadPeerTables
  BY <1>5 DEF ReadPeerTables
<1>6. CASE PostJob
  BY <1>6 DEF PostJob
<1>7. CASE PostFails
  <2>1. faults' \in 0..MaxFaults
    BY <1>7 DEF PostFails, Fault
  <2> QED
    BY <1>7, <2>1, EndRunType DEF PostFails
<1>8. ASSUME NEW j \in DOMAIN jobs, PollJobResult(j) PROVE TypeOK'
  <2>1. CASE PollCompleted(j)
    BY <2>1, JobType, EndRunType DEF PollCompleted
  <2>2. CASE PollFailed(j)
    BY <2>2, EndRunType DEF PollFailed
  <2>3. CASE PollAgain(j) /\ EndRun(TRUE)
    <3>1. faults' \in 0..MaxFaults
      BY <2>3 DEF PollAgain, Fault
    <3> QED
      BY <2>3, <3>1, EndRunType DEF PollAgain
  <2>4. CASE PollAgain(j) /\ UNCHANGED <<guardVars, step, gaveUp>>
    BY <2>4 DEF PollAgain, Fault
  <2> QED
    BY <1>8, <2>1, <2>2, <2>3, <2>4 DEF PollJobResult, PollAgain
<1>9. ASSUME NEW j \in DOMAIN jobs, Work(j) \/ FailAttempt(j) PROVE TypeOK'
  BY <1>9 DEF Work, TakeJob, CompleteJob, FailAttempt, SetJob, Fault
<1>10. CASE Crash
  <2>1. {timer', recomputing', rerun', gaveUp'} \subseteq BOOLEAN
    BY <1>10, Zenon DEF Crash
  <2>2. own' \in 0..MaxTables /\ faults' \in 0..MaxFaults
    BY <1>10 DEF Crash, Fault
  <2>3. /\ peers' \in [Cities -> 0..MaxPeerTables]
        /\ read' \in [Cities -> 0..MaxPeerTables]
        /\ routes' \in Graph
    BY <1>10, NullType DEF Crash
  <2> QED
    BY <1>10, <2>1, <2>2, <2>3 DEF Crash
<1>11. CASE UNCHANGED vars
  BY <1>11 DEF vars
<1> QED
  BY <1>1, <1>2, <1>3, <1>4, <1>5, <1>6, <1>7, <1>8, <1>9, <1>10, <1>11 DEF Next

-----------------------------------------------------------------------------
\* AtLeastAsNew is transitive on graphs.
LEMMA NewerTransitive ==
  ASSUME NEW f \in Graph, NEW g \in Graph, NEW h \in Graph,
         AtLeastAsNew(g, f), AtLeastAsNew(h, g)
  PROVE  AtLeastAsNew(h, f)
  BY RouteRecomputeAssumption DEF AtLeastAsNew, Graph

\* The stored tables are a graph, and only a crash makes them older.
LEMMA TablesGrow ==
  ASSUME TypeOK, TypeOK', [Next]_vars
  PROVE  /\ Tables \in Graph /\ Tables' \in Graph
         /\ Crash \/ AtLeastAsNew(Tables', Tables)
<1>1. Tables \in Graph /\ Tables' \in Graph
  BY DEF TypeOK, Tables, Graph
<1>2. own \in Nat /\ \A c \in Cities : peers[c] \in Nat
  BY RouteRecomputeAssumption DEF TypeOK
<1>3. CASE ApplyOwnTable
  <2>1. UNCHANGED peers /\ own' \in (own + 1)..MaxTables
    BY <1>3 DEF ApplyOwnTable
  <2>2. own' \in Nat /\ own' >= own
    BY <1>2, <2>1, RouteRecomputeAssumption
  <2> QED
    BY <1>1, <1>2, <2>1, <2>2 DEF AtLeastAsNew, Tables
<1>4. ASSUME NEW c \in Cities, StorePeerTable(c)
      PROVE  AtLeastAsNew(Tables', Tables)
  <2>1. /\ UNCHANGED own
        /\ peers' = [peers EXCEPT ![c] = @ + 1]
        /\ DOMAIN peers = Cities
    BY <1>4 DEF StorePeerTable, TypeOK
  <2>2. \A d \in Cities : peers'[d] >= peers[d]
    BY <1>2, <2>1
  <2> QED
    BY <1>2, <2>1, <2>2 DEF AtLeastAsNew, Tables
<1>5. CASE UNCHANGED <<own, peers>>
  BY <1>1, <1>2, <1>5 DEF AtLeastAsNew, Tables
<1>6. \/ Crash \/ ApplyOwnTable \/ (\E c \in Cities : StorePeerTable(c))
      \/ UNCHANGED <<own, peers>>
  BY DEF Next, vars, tableVars, ScheduleAfterStore, RunRecomputation,
      ReadPeerTables, PostJob, PostFails, PollJobResult, PollCompleted,
      PollFailed, PollAgain, Work, TakeJob, CompleteJob, FailAttempt, SetJob
<1> QED
  BY <1>1, <1>3, <1>4, <1>5, <1>6

\* The guard.
LEMMA GuardStep == ASSUME TypeOK, GuardHeld, OnePolled, [Next]_vars PROVE GuardHeld'
<1> USE DEF GuardHeld, tableVars, guardVars
<1>1. CASE UNCHANGED <<recomputing, step>>
  BY <1>1
<1>2. CASE RunRecomputation
  BY <1>1, <1>2 DEF RunRecomputation, StartRun
<1>3. CASE ReadPeerTables \/ PostJob
  BY <1>3 DEF ReadPeerTables, PostJob
<1>4. CASE PostFails \/ Crash
  BY <1>4 DEF PostFails, EndRun, Crash
<1>5. ASSUME NEW j \in DOMAIN jobs, PollJobResult(j) PROVE GuardHeld'
  BY <1>1, <1>5 DEF PollJobResult, PollCompleted, PollFailed, PollAgain, EndRun
<1> QED
  BY <1>1, <1>2, <1>3, <1>4, <1>5
  DEF Next, vars, ApplyOwnTable, StorePeerTable, ScheduleAfterStore,
      Work, TakeJob, CompleteJob, FailAttempt, SetJob

\* A waiting job keeps an attempt.
LEMMA AttemptsStep ==
  ASSUME TypeOK, TypeOK', AttemptsLeft, [Next]_vars
  PROVE  AttemptsLeft'
<1>1. CASE UNCHANGED jobs
  BY <1>1 DEF AttemptsLeft
<1>2. ASSUME NEW n \in 0..MaxPolls, NewJob(n) PROVE AttemptsLeft'
  <2>1. /\ jobs' = Append(jobs, [state |-> "waiting", attempts |-> 0,
                                 graph |-> [own |-> own, peers |-> read]])
        /\ jobs \in Seq(Job)
    BY <1>2 DEF NewJob, TypeOK, QueueOK
  <2>2. \A j \in DOMAIN jobs' :
           (j \in DOMAIN jobs /\ jobs'[j] = jobs[j]) \/ jobs'[j].attempts = 0
    BY <2>1
  <2> QED
    BY <2>2, RouteRecomputeAssumption DEF AttemptsLeft
<1>3. ASSUME NEW j \in DOMAIN jobs, NEW state, NEW n, SetJob(j, state, n),
             state = "waiting" => n < MaxAttempts
      PROVE  AttemptsLeft'
  <2>1. jobs \in Seq(Job) /\ jobs[j] \in Job
    BY JobType DEF TypeOK, QueueOK
  <2>2. jobs' = [jobs EXCEPT ![j].state = state, ![j].attempts = n]
    BY <1>3 DEF SetJob
  <2>3. DOMAIN jobs' = DOMAIN jobs
          /\ \A i \in DOMAIN jobs : i # j => jobs'[i] = jobs[i]
    BY <2>2
  <2>4. jobs'[j].state = state /\ jobs'[j].attempts = n
    BY <2>1, <2>2 DEF Job
  <2> QED
    BY <1>3, <2>3, <2>4 DEF AttemptsLeft
<1>4. ASSUME NEW j \in DOMAIN jobs, Work(j) \/ FailAttempt(j)
      PROVE  AttemptsLeft'
  <2>1. CASE TakeJob(j)
    BY <1>3, <2>1 DEF TakeJob
  <2>2. CASE CompleteJob(j)
    BY <1>3, <2>2 DEF CompleteJob
  <2>3. CASE FailAttempt(j)
    <3>1. CASE jobs[j].attempts < MaxAttempts
      BY <1>3, <2>3, <3>1 DEF FailAttempt
    <3>2. CASE ~(jobs[j].attempts < MaxAttempts)
      BY <1>3, <2>3, <3>2 DEF FailAttempt
    <3> QED
      BY <3>1, <3>2
  <2> QED
    BY <1>4, <2>1, <2>2, <2>3 DEF Work
<1>5. CASE PostJob \/ PostFails
  <2>1. MaxPolls \in 0..MaxPolls /\ 0 \in 0..MaxPolls
    BY RouteRecomputeAssumption
  <2> QED
    BY <1>1, <1>2, <1>5, <2>1 DEF PostJob, PostFails
<1>6. ASSUME NEW j \in DOMAIN jobs, PollJobResult(j) PROVE UNCHANGED jobs
  BY <1>6 DEF PollJobResult, PollCompleted, PollFailed, PollAgain
<1>7. CASE Crash
  BY <1>1, <1>7 DEF Crash
<1> QED
  BY <1>1, <1>4, <1>5, <1>6, <1>7
  DEF Next, vars, ApplyOwnTable, StorePeerTable, ScheduleAfterStore,
      RunRecomputation, ReadPeerTables


-----------------------------------------------------------------------------
\* A poll ends the polling of the only polled job, or it is one poll less and
\* the recomputation goes on waiting.
LEMMA PollEffect ==
  ASSUME TypeOK, OnePolled, NEW i \in DOMAIN jobs, PollJobResult(i)
  PROVE  /\ UNCHANGED <<own, peers, read, jobs>>
         /\ i = Len(jobs)
         /\ \A j \in DOMAIN jobs : polls'[j] > 0 => polls[j] > 0
         /\ \/ /\ \A j \in DOMAIN jobs : ~(polls'[j] > 0)
               /\ step' = "idle"
               /\ \/ UNCHANGED routes
                  \/ polls[i] > 0 /\ routes' = jobs[i].graph
            \/ UNCHANGED <<routes, step>>
<1> USE DEF tableVars, guardVars
<1>0. /\ DOMAIN polls = DOMAIN jobs
      /\ polls[i] \in 0..MaxPolls
      /\ ~(0 > 0)
      /\ \A j \in DOMAIN jobs : polls[j] > 0 => j = Len(jobs)
  BY JobType DEF TypeOK, QueueOK, OnePolled
<1>1. polls[i] > 0 /\ i = Len(jobs)
  BY <1>0 DEF PollJobResult, PollCompleted, PollFailed, PollAgain, Polled
<1>2. ASSUME StopPolling(i) PROVE \A j \in DOMAIN jobs : ~(polls'[j] > 0)
  BY <1>0, <1>1, <1>2 DEF StopPolling
<1>3. CASE PollCompleted(i)
  BY <1>0, <1>1, <1>2, <1>3 DEF PollCompleted, EndRun
<1>4. CASE PollFailed(i)
  BY <1>0, <1>1, <1>2, <1>4 DEF PollFailed, EndRun
<1>5. CASE PollAgain(i)
  <2>1. polls' = [polls EXCEPT ![i] = @ - 1] /\ UNCHANGED <<own, peers, read, jobs, routes>>
    BY <1>5 DEF PollAgain
  <2>2. \A j \in DOMAIN jobs : polls'[j] > 0 => polls[j] > 0
    BY <1>0, <1>1, <2>1
  <2>3. CASE polls[i] > 1 /\ UNCHANGED <<guardVars, step, gaveUp>>
    BY <1>1, <2>1, <2>2, <2>3
  <2>4. CASE polls[i] = 1 /\ EndRun(TRUE)
    <3>1. \A j \in DOMAIN jobs : ~(polls'[j] > 0)
      BY <1>0, <1>1, <2>1, <2>4
    <3> QED
      BY <1>1, <2>1, <2>2, <2>4, <3>1 DEF EndRun
  <2> QED
    BY <1>5, <2>3, <2>4 DEF PollAgain
<1> QED
  BY <1>3, <1>4, <1>5 DEF PollJobResult

\* The worker leaves the graphs, the polls and the recomputation alone.
LEMMA WorkEffect ==
  ASSUME TypeOK, NEW i \in DOMAIN jobs, Work(i) \/ FailAttempt(i)
  PROVE  /\ UNCHANGED <<own, peers, step, read, polls, routes>>
         /\ DOMAIN jobs' = DOMAIN jobs
         /\ Len(jobs') = Len(jobs)
         /\ \A j \in DOMAIN jobs : jobs'[j].graph = jobs[j].graph
<1>1. ASSUME NEW state, NEW n, SetJob(i, state, n)
      PROVE  /\ DOMAIN jobs' = DOMAIN jobs
             /\ Len(jobs') = Len(jobs)
             /\ \A j \in DOMAIN jobs : jobs'[j].graph = jobs[j].graph
  <2> DEFINE new == [jobs[i] EXCEPT !.state = state, !.attempts = n]
  <2>1. jobs \in Seq(Job) /\ jobs[i] \in Job
    BY JobType DEF TypeOK, QueueOK
  <2>2. new.graph = jobs[i].graph
    BY <2>1 DEF Job
  <2>3. jobs' = [jobs EXCEPT ![i] = new]
    BY <1>1 DEF SetJob
  <2> HIDE DEF new
  <2>4. DOMAIN jobs' = DOMAIN jobs /\ Len(jobs') = Len(jobs)
    BY <2>1, <2>3
  <2> QED
    BY <2>1, <2>2, <2>3, <2>4
<1>2. CASE TakeJob(i)
  BY <1>1, <1>2 DEF TakeJob, SetJob, tableVars
<1>3. CASE CompleteJob(i)
  BY <1>1, <1>3 DEF CompleteJob, SetJob, tableVars
<1>4. CASE FailAttempt(i)
  BY <1>1, <1>4 DEF FailAttempt, SetJob, tableVars
<1> QED
  BY <1>2, <1>3, <1>4 DEF Work

\* A job that is polled after a step was polled before it, and neither the
\* routes nor the job changed, or the step posted it.  In both cases a
\* recomputation waits for it.
OldPolled(j) ==
    /\ j \in DOMAIN jobs
    /\ polls[j] > 0
    /\ jobs'[j].graph = jobs[j].graph
    /\ Len(jobs') = Len(jobs)
    /\ UNCHANGED routes
    /\ ~Crash

NewPolled(j) ==
    /\ j = Len(jobs')
    /\ PostJob
    /\ jobs'[j].graph = [own |-> own, peers |-> read]

LEMMA PolledAfter ==
  ASSUME TypeOK, TypeOK', GuardHeld, OnePolled, [Next]_vars,
         NEW j \in DOMAIN jobs', polls'[j] > 0
  PROVE  step' = "poll" /\ (OldPolled(j) \/ NewPolled(j))
<1> USE DEF tableVars, guardVars
<1>0. /\ \A i \in DOMAIN jobs : polls[i] > 0 => i = Len(jobs) /\ step = "poll"
      /\ ~(0 > 0)
      /\ QueueOK
      /\ MaxPolls \in 0..MaxPolls /\ 0 \in 0..MaxPolls
  BY RouteRecomputeAssumption DEF OnePolled, TypeOK
<1>1. ~Crash
  <2> SUFFICES ASSUME Crash PROVE FALSE
    OBVIOUS
  <2>1. polls' = [i \in DOMAIN polls |-> 0] /\ jobs' = jobs
    BY DEF Crash
  <2>2. j \in DOMAIN polls
    BY <1>0, <2>1 DEF QueueOK
  <2> QED
    BY <1>0, <2>1, <2>2
<1>2. CASE UNCHANGED <<jobs, polls, routes, step>>
  BY <1>0, <1>1, <1>2 DEF OldPolled
<1>3. CASE RunRecomputation \/ ReadPeerTables
  <2>1. UNCHANGED <<jobs, polls, routes>>
    BY <1>3 DEF RunRecomputation, ReadPeerTables
  <2>2. step = "poll"
    BY <1>0, <2>1
  <2>3. UNCHANGED step
    BY <1>3, <2>2 DEF RunRecomputation, StartRun, ReadPeerTables, GuardHeld
  <2> QED
    BY <1>2, <2>1, <2>3
<1>4. ASSUME NEW n \in 0..MaxPolls, NewJob(n), step # "poll"
      PROVE  /\ j = Len(jobs')
             /\ polls'[j] = n
             /\ jobs'[j].graph = [own |-> own, peers |-> read]
  <2>1. DOMAIN jobs = 1..Len(jobs) /\ DOMAIN jobs' = 1..(Len(jobs) + 1)
          /\ Len(jobs) \in Nat
    BY <1>4, NewJobStep DEF QueueOK, TypeOK
  <2>2. j \in DOMAIN jobs \/ j = Len(jobs) + 1
    BY <2>1
  <2>3. j \notin DOMAIN jobs
    BY <1>0, <1>4, NewJobStep
  <2> QED
    BY <1>4, <2>2, <2>3, NewJobStep
<1>5. CASE PostJob
  BY <1>0, <1>4, <1>5 DEF PostJob, NewPolled
<1>6. CASE PostFails
  <2>1. CASE NewJob(0)
    BY <1>0, <1>4, <1>6, <2>1 DEF PostFails
  <2>2. CASE UNCHANGED <<jobs, polls>>
    BY <1>0, <1>6, <2>2 DEF PostFails
  <2> QED
    BY <1>6, <2>1, <2>2 DEF PostFails
<1>7. ASSUME NEW i \in DOMAIN jobs, PollJobResult(i)
      PROVE  step' = "poll" /\ OldPolled(j)
  BY <1>0, <1>1, <1>7, PollEffect DEF OldPolled
<1>8. ASSUME NEW i \in DOMAIN jobs, Work(i) \/ FailAttempt(i)
      PROVE  step' = "poll" /\ OldPolled(j)
  BY <1>0, <1>1, <1>8, WorkEffect DEF OldPolled
<1> QED
  BY <1>1, <1>2, <1>3, <1>5, <1>6, <1>7, <1>8
  DEF Next, vars, ApplyOwnTable, StorePeerTable, ScheduleAfterStore

\* At most one job is polled.
LEMMA OnePolledStep ==
  ASSUME TypeOK, TypeOK', GuardHeld, OnePolled, [Next]_vars
  PROVE  OnePolled'
<1> SUFFICES ASSUME NEW j \in DOMAIN jobs', polls'[j] > 0
             PROVE  j = Len(jobs') /\ step' = "poll"
  BY DEF OnePolled
<1> QED
  BY PolledAfter DEF OnePolled, OldPolled, NewPolled

\* The routes come from the only polled job, or from no job after a crash.
LEMMA RoutesStep ==
  ASSUME TypeOK, OnePolled, [Next]_vars
  PROVE  \/ UNCHANGED routes
         \/ Crash /\ routes' = NoRoutes
         \/ /\ \E j \in DOMAIN jobs : polls[j] > 0 /\ routes' = jobs[j].graph
            /\ step' = "idle"
            /\ UNCHANGED <<own, peers>>
<1>1. ASSUME NEW j \in DOMAIN jobs, PollJobResult(j)
      PROVE  \/ UNCHANGED routes
             \/ /\ polls[j] > 0 /\ routes' = jobs[j].graph
                /\ step' = "idle"
                /\ UNCHANGED <<own, peers>>
  BY <1>1, PollEffect
<1>2. ASSUME NEW j \in DOMAIN jobs, Work(j) \/ FailAttempt(j)
      PROVE  UNCHANGED routes
  BY <1>2, WorkEffect
<1>3. CASE Crash
  BY <1>3 DEF Crash
<1> QED
  BY <1>1, <1>2, <1>3
  DEF Next, vars, ApplyOwnTable, StorePeerTable, ScheduleAfterStore,
      RunRecomputation, ReadPeerTables, PostJob, PostFails

\* New routes are at least as new as the ones they replace, and no newer than
\* the tables.
LEMMA ForwardStep ==
  ASSUME TypeOK, TypeOK', OnePolled, RoutesBehindTables, JobBetween, [Next]_vars
  PROVE  RoutesGoForward /\ RoutesBehindTables'
<1>1. CASE UNCHANGED routes /\ ~Crash
  <2>1. AtLeastAsNew(Tables', routes')
    BY <1>1, TablesGrow, NewerTransitive DEF RoutesBehindTables, TypeOK
  <2> QED
    BY <1>1, <2>1 DEF RoutesGoForward, RoutesBehindTables
<1>2. CASE Crash
  <2>1. routes' = NoRoutes
    BY <1>2 DEF Crash
  <2>2. own' = 0 /\ peers' \in [Cities -> 0..MaxPeerTables]
    BY <1>2 DEF Crash, TypeOK
  <2>3. AtLeastAsNew(Tables', NoRoutes)
    BY <2>2, RouteRecomputeAssumption DEF AtLeastAsNew, Tables, NoRoutes, NoPeers
  <2> QED
    BY <2>1, <2>3 DEF RoutesGoForward, RoutesBehindTables
<1>3. CASE /\ \E j \in DOMAIN jobs : polls[j] > 0 /\ routes' = jobs[j].graph
           /\ UNCHANGED <<own, peers>>
  <2>1. PICK j \in DOMAIN jobs : polls[j] > 0 /\ routes' = jobs[j].graph
    BY <1>3
  <2>2. AtLeastAsNew(routes', routes) /\ AtLeastAsNew(Tables, routes')
    BY <2>1 DEF JobBetween
  <2>3. Tables' = Tables
    BY <1>3 DEF Tables
  <2> QED
    BY <2>2, <2>3 DEF RoutesGoForward, RoutesBehindTables
<1> QED
  BY <1>1, <1>2, <1>3, RoutesStep

\* What a recomputation has read is between the routes and the tables.
LEMMA ReadStep ==
  ASSUME TypeOK, TypeOK', OnePolled, GuardHeld, RoutesBehindTables, ReadBetween,
         [Next]_vars
  PROVE  ReadBetween'
<1> SUFFICES ASSUME step' = "build", NEW c \in Cities
             PROVE  routes'.peers[c] <= read'[c] /\ read'[c] <= peers'[c]
  BY DEF ReadBetween
<1>1. /\ routes.peers[c] \in Nat /\ read[c] \in Nat /\ peers[c] \in Nat
      /\ peers'[c] \in Nat
      /\ routes.peers[c] <= peers[c]
  BY RouteRecomputeAssumption
  DEF TypeOK, Graph, RoutesBehindTables, AtLeastAsNew, Tables
<1>2. CASE ReadPeerTables
  BY <1>1, <1>2 DEF ReadPeerTables, tableVars
<1>3. CASE UNCHANGED <<routes, read, step>> /\ ~Crash
  <2>1. AtLeastAsNew(Tables', Tables)
    BY <1>3, TablesGrow
  <2>2. peers'[c] >= peers[c]
    BY <2>1 DEF AtLeastAsNew, Tables
  <2> QED
    BY <1>1, <1>3, <2>2 DEF ReadBetween
<1>4. ~Crash
  BY DEF Crash
<1>5. ASSUME NEW i \in DOMAIN jobs, PollJobResult(i)
      PROVE  UNCHANGED <<routes, read, step>>
  BY <1>5, PollEffect
<1>6. ASSUME NEW i \in DOMAIN jobs, Work(i) \/ FailAttempt(i)
      PROVE  UNCHANGED <<routes, read, step>>
  BY <1>6, WorkEffect
<1> QED
  BY <1>2, <1>3, <1>4, <1>5, <1>6
  DEF Next, vars, guardVars, ApplyOwnTable, StorePeerTable, ScheduleAfterStore,
      RunRecomputation, StartRun, PostJob, PostFails, EndRun

\* The polled job is between the routes and the tables.
LEMMA JobStep ==
  ASSUME TypeOK, TypeOK', GuardHeld, OnePolled, RoutesBehindTables, ReadBetween,
         JobBetween, [Next]_vars
  PROVE  JobBetween'
<1> SUFFICES ASSUME NEW j \in DOMAIN jobs', polls'[j] > 0
             PROVE  /\ AtLeastAsNew(jobs'[j].graph, routes')
                    /\ AtLeastAsNew(Tables', jobs'[j].graph)
  BY DEF JobBetween
<1>1. CASE OldPolled(j)
  <2>1. jobs[j].graph \in Graph
    BY <1>1, JobType DEF OldPolled, TypeOK
  <2>2. AtLeastAsNew(jobs[j].graph, routes) /\ AtLeastAsNew(Tables, jobs[j].graph)
    BY <1>1 DEF JobBetween, OldPolled
  <2>3. AtLeastAsNew(Tables', jobs[j].graph)
    BY <1>1, <2>1, <2>2, TablesGrow, NewerTransitive DEF OldPolled
  <2> QED
    BY <1>1, <2>2, <2>3 DEF OldPolled
<1>2. CASE NewPolled(j)
  <2>1. /\ step = "build"
        /\ UNCHANGED <<own, peers, routes>>
    BY <1>2 DEF NewPolled, PostJob, tableVars
  <2>2. own \in Nat /\ routes.own <= own
    BY RouteRecomputeAssumption
    DEF TypeOK, RoutesBehindTables, AtLeastAsNew, Tables
  <2>3. \A c \in Cities : routes.peers[c] <= read[c] /\ read[c] <= peers[c]
    BY <2>1 DEF ReadBetween
  <2>4. jobs'[j].graph = [own |-> own, peers |-> read]
    BY <1>2 DEF NewPolled
  <2> QED
    BY <2>1, <2>2, <2>3, <2>4 DEF AtLeastAsNew, Tables
<1> QED
  BY <1>1, <1>2, PolledAfter

-----------------------------------------------------------------------------
(* Nothing is forgotten.                                                   *)

\* While it polls, the recomputation has a job to poll.
LEMMA PolledStep ==
  ASSUME TypeOK, TypeOK', OnePolled, SomeJobPolled, [Next]_vars
  PROVE  SomeJobPolled'
<1> SUFFICES ASSUME step' = "poll"
             PROVE  \E j \in DOMAIN jobs' : polls'[j] > 0
  BY DEF SomeJobPolled
<1>1. CASE PostJob
  <2>1. /\ QueueOK' /\ Len(jobs') = Len(jobs) + 1 /\ Len(jobs) \in Nat
        /\ polls'[Len(jobs')] = MaxPolls
    <3>1. NewJob(MaxPolls) /\ MaxPolls \in 0..MaxPolls
      BY <1>1, RouteRecomputeAssumption DEF PostJob
    <3>2. Len(jobs) \in Nat
      BY DEF TypeOK, QueueOK
    <3> QED
      BY <3>1, <3>2, NewJobStep
  <2>2. Len(jobs') \in DOMAIN jobs'
    BY <2>1 DEF QueueOK
  <2> QED
    BY <2>1, <2>2, RouteRecomputeAssumption
<1>2. CASE UNCHANGED <<step, jobs, polls>>
  BY <1>2 DEF SomeJobPolled
<1>3. ASSUME NEW i \in DOMAIN jobs, PollJobResult(i)
      PROVE  \E j \in DOMAIN jobs' : polls'[j] > 0
  <2>1. PollAgain(i) /\ polls[i] > 1
    BY <1>3 DEF PollJobResult, PollCompleted, PollFailed, PollAgain, EndRun
  <2>2. UNCHANGED jobs /\ polls' = [polls EXCEPT ![i] = @ - 1]
          /\ DOMAIN polls = DOMAIN jobs /\ polls[i] \in Nat
    BY <2>1, JobType, RouteRecomputeAssumption DEF PollAgain, TypeOK, QueueOK
  <2>3. polls'[i] > 0
    BY <2>1, <2>2
  <2> QED
    BY <2>2, <2>3
<1>4. ASSUME NEW i \in DOMAIN jobs, Work(i) \/ FailAttempt(i)
      PROVE  \E j \in DOMAIN jobs' : polls'[j] > 0
  BY <1>4, WorkEffect DEF SomeJobPolled
<1>5. ~(RunRecomputation /\ ~recomputing) /\ ~ReadPeerTables /\ ~PostFails /\ ~Crash
  BY DEF RunRecomputation, StartRun, ReadPeerTables, PostFails, EndRun, Crash
<1> QED
  BY <1>1, <1>2, <1>3, <1>4, <1>5
  DEF Next, vars, guardVars, ApplyOwnTable, StorePeerTable, ScheduleAfterStore,
      RunRecomputation

\* The end of a recomputation arms the timer again, if it fired meanwhile.
LEMMA EndRunSchedules ==
  ASSUME TypeOK, EndRun(TRUE) \/ EndRun(FALSE), UNCHANGED <<own, storing>>, Scheduled
  PROVE  Scheduled'
  BY Zenon DEF Scheduled, EndRun

\* A step of the worker, or one more poll, changes nothing of this.
LEMMA QuietStep ==
  ASSUME TypeOK, NoTableForgotten,
         UNCHANGED <<tableVars, guardVars, step, read, routes, gaveUp>>,
         \A j \in DOMAIN jobs' :
            polls'[j] > 0 => /\ j \in DOMAIN jobs /\ polls[j] > 0
                             /\ jobs'[j].graph = jobs[j].graph
  PROVE  NoTableForgotten'
<1>1. Scheduled' = Scheduled /\ Tables' = Tables
  BY DEF Scheduled, Tables, tableVars, guardVars
<1> QED
  BY <1>1, Zenon DEF NoTableForgotten, tableVars

\* No step forgets a table.
LEMMA NotForgottenStep ==
  ASSUME TypeOK, TypeOK', GuardHeld, OnePolled, SomeJobPolled, NoTableForgotten,
         [Next]_vars
  PROVE  NoTableForgotten'
<1> USE DEF tableVars, guardVars
<1>1. CASE Scheduled'
  BY <1>1 DEF NoTableForgotten
<1>2. CASE ApplyOwnTable \/ ScheduleAfterStore
  BY <1>1, <1>2 DEF ApplyOwnTable, ScheduleAfterStore, Scheduled
<1>3. CASE \E c \in Cities : StorePeerTable(c)
  <2>1. storing' = storing + 1 /\ storing \in Nat
    BY <1>3 DEF StorePeerTable, TypeOK
  <2> QED
    BY <1>1, <2>1 DEF Scheduled
<1>4. CASE RunRecomputation
  <2>1. CASE recomputing
    BY <1>1, <1>4, <2>1 DEF RunRecomputation, Scheduled
  <2>2. CASE ~recomputing
    BY <1>4, <2>2 DEF RunRecomputation, StartRun, NoTableForgotten
  <2> QED
    BY <2>1, <2>2
<1>5. CASE ReadPeerTables
  BY <1>5 DEF ReadPeerTables, NoTableForgotten
<1>6. CASE PostJob
  <2>1. ASSUME ~Scheduled', NEW j \in DOMAIN jobs', polls'[j] > 0
        PROVE  jobs'[j].graph = Tables'
    <3>1. ~Scheduled /\ step = "build" /\ Tables' = Tables
      BY <1>6, <2>1 DEF PostJob, Scheduled, Tables
    <3>2. read = peers
      BY <3>1 DEF NoTableForgotten
    <3>3. NewPolled(j)
      <4>1. OldPolled(j) \/ NewPolled(j)
        BY <2>1, PolledAfter
      <4>2. ~OldPolled(j)
        BY <3>1 DEF OldPolled, OnePolled
      <4> QED
        BY <4>1, <4>2
    <3> QED
      BY <3>1, <3>2, <3>3 DEF NewPolled, Tables
  <2>2. step' = "poll"
    BY <1>6 DEF PostJob
  <2> QED
    BY <2>1, <2>2 DEF NoTableForgotten
<1>7. CASE PostFails
  <2>1. step' = "idle" /\ gaveUp'
    BY <1>7 DEF PostFails, EndRun
  <2> QED
    BY <2>1 DEF NoTableForgotten
<1>8. ASSUME NEW i \in DOMAIN jobs, PollJobResult(i) PROVE NoTableForgotten'
  <2>1. CASE PollCompleted(i)
    <3>1. /\ polls[i] > 0 /\ step = "poll"
          /\ routes' = jobs[i].graph
          /\ EndRun(FALSE) /\ step' = "idle"
          /\ Tables' = Tables
      BY <2>1 DEF PollCompleted, Polled, OnePolled, EndRun, Tables
    <3>2. CASE Scheduled
      BY <1>1, <2>1, <3>1, <3>2, EndRunSchedules DEF PollCompleted
    <3>3. CASE ~Scheduled
      <4>1. jobs[i].graph = Tables
        BY <3>1, <3>3 DEF NoTableForgotten
      <4> QED
        BY <3>1, <4>1 DEF NoTableForgotten
    <3> QED
      BY <3>2, <3>3
  <2>2. CASE EndRun(TRUE)
    BY <2>2 DEF EndRun, NoTableForgotten
  <2>3. CASE PollAgain(i) /\ UNCHANGED <<guardVars, step, gaveUp>>
    <3>1. UNCHANGED <<tableVars, read, routes, jobs>>
      BY <2>3 DEF PollAgain
    <3>2. \A j \in DOMAIN jobs : polls'[j] > 0 => polls[j] > 0
      BY <1>8, PollEffect
    <3> QED
      BY <2>3, <3>1, <3>2, QuietStep
  <2> QED
    BY <1>8, <2>1, <2>2, <2>3 DEF PollJobResult, PollFailed, PollAgain
<1>9. ASSUME NEW i \in DOMAIN jobs, Work(i) \/ FailAttempt(i)
      PROVE  NoTableForgotten'
  <2>1. UNCHANGED <<tableVars, guardVars, step, read, routes, gaveUp>>
    BY <1>9 DEF Work, TakeJob, CompleteJob, FailAttempt, SetJob
  <2> QED
    BY <1>9, <2>1, WorkEffect, QuietStep
<1>10. CASE Crash
  BY <1>1, <1>10 DEF Crash, Scheduled
<1>11. CASE UNCHANGED vars
  BY <1>11, QuietStep DEF vars
<1> QED
  BY <1>2, <1>3, <1>4, <1>5, <1>6, <1>7, <1>8, <1>9, <1>10, <1>11 DEF Next

-----------------------------------------------------------------------------
\* IndInv holds initially and every step keeps it.
THEOREM RecomputeInductive == Spec => []IndInv
<1>1. ASSUME IndInv, [Next]_vars PROVE IndInv'
  <2>1. TypeOK'
    BY <1>1, TypeStep DEF IndInv
  <2> QED
    BY <1>1, <2>1, GuardStep, AttemptsStep, OnePolledStep, ForwardStep,
       ReadStep, JobStep, PolledStep, NotForgottenStep
    DEF IndInv
<1> QED
  BY InitInv, <1>1, PTL DEF Spec

\* Every variable keeps its shape.
THEOREM RecomputeTypes == Spec => []TypeOK
<1>1. IndInv => TypeOK
  BY DEF IndInv
<1> QED
  BY <1>1, RecomputeInductive, PTL

\* While the process lives its routes are never replaced by those of older
\* tables, however many tables, recomputations, polls, attempts and failures
\* there are.
THEOREM RoutesForward == Spec => RoutesNeverGoBack
<1>1. ASSUME IndInv, IndInv', [Next]_vars PROVE [RoutesGoForward]_vars
  BY <1>1, ForwardStep DEF IndInv
<1> QED
  BY <1>1, RecomputeInductive, PTL DEF Spec, RoutesNeverGoBack

\* However tables, timers, stores, recomputations and failures overlap: unless
\* another recomputation is to come, every table that was stored is in the
\* routes or on its way there, or the last recomputation gave up.
THEOREM TablesAreFollowed == Spec => [](SomeJobPolled /\ NoTableForgotten)
<1>1. IndInv => SomeJobPolled /\ NoTableForgotten
  BY DEF IndInv
<1> QED
  BY <1>1, RecomputeInductive, PTL

-----------------------------------------------------------------------------
(* The refinement of RoutePromise.                                         *)

\* The initial states are the promise's.
LEMMA PromiseInit == Init => Promise!Init
  BY DEF Init, Promise!Init, Promise!None, Tables, NoRoutes, NoPeers

\* Every step is one of the promise's, or a stutter.
LEMMA PromiseStep ==
  ASSUME IndInv, IndInv', [Next]_vars
  PROVE  [Promise!Next]_(Promise!promiseVars)
<1> USE DEF IndInv, tableVars, guardVars
<1>0. /\ own \in Nat /\ own' \in Nat
      /\ routes \in Graph /\ routes' \in Graph
      /\ Graph \subseteq Promise!Tables
  BY RouteRecomputeAssumption DEF TypeOK, Graph, Promise!Tables
<1>1. CASE ApplyOwnTable
  <2>1. own' > own /\ UNCHANGED <<peers, routes>>
    BY <1>0, <1>1, RouteRecomputeAssumption DEF ApplyOwnTable
  <2>2. Promise!StoreOwn
    BY <2>1 DEF Promise!StoreOwn, Tables
  <2> QED
    BY <2>2 DEF Promise!Next
<1>2. ASSUME NEW c \in Cities, StorePeerTable(c)
      PROVE  [Promise!Next]_(Promise!promiseVars)
  <2>1. Promise!StorePeer(c)
    BY <1>2 DEF StorePeerTable, Promise!StorePeer, Tables
  <2> QED
    BY <2>1 DEF Promise!Next
<1>3. CASE Crash
  <2>1. Promise!Restart
    BY <1>3 DEF Crash, Promise!Restart, Promise!None, Tables, NoRoutes, NoPeers
  <2> QED
    BY <2>1 DEF Promise!Next
<1>4. CASE UNCHANGED <<own, peers, routes>>
  BY <1>4 DEF Promise!promiseVars, Tables
<1>5. CASE /\ \E j \in DOMAIN jobs : polls[j] > 0 /\ routes' = jobs[j].graph
           /\ UNCHANGED <<own, peers>>
  <2>1. AtLeastAsNew(routes', routes) /\ AtLeastAsNew(Tables, routes')
    BY <1>5 DEF JobBetween
  <2>2. Promise!Recompute
    BY <1>0, <1>5, <2>1
    DEF Promise!Recompute, Promise!NotOlder, AtLeastAsNew, Tables
  <2> QED
    BY <2>2 DEF Promise!Next
<1>6. \/ ApplyOwnTable \/ (\E c \in Cities : StorePeerTable(c)) \/ Crash
      \/ UNCHANGED <<own, peers>>
  BY DEF Next, vars, ScheduleAfterStore, RunRecomputation,
      ReadPeerTables, PostJob, PostFails, PollJobResult, PollCompleted,
      PollFailed, PollAgain, Work, TakeJob, CompleteJob, FailAttempt, SetJob
<1> QED
  BY <1>1, <1>2, <1>3, <1>4, <1>5, <1>6, RoutesStep

\* RouteRecompute implements RoutePromise: a store of a table is the promise's,
\* the poll that finds the result a recomputation, a crash a restart, and
\* every other step a stutter.
THEOREM RoutesRefine == Spec => KeepsRoutes
  BY PromiseInit, PromiseStep, RecomputeInductive, PTL
  DEF Spec, KeepsRoutes, Promise!Spec
=============================================================================
