------------------------ MODULE RecomputeProperties ------------------------
(***************************************************************************)
(* What must hold of RouteRecompute.                                       *)
(***************************************************************************)
EXTENDS RouteRecompute

\* A job, and the polls still to come, for each number.
QueueOK ==
    /\ jobs \in Seq(Job)
    /\ polls \in Seq(0..MaxPolls)
    /\ Len(polls) = Len(jobs)

\* Every variable keeps the shape its field, table or job has.
TypeOK ==
    /\ own \in 0..MaxTables
    /\ peers \in [Cities -> 0..MaxPeerTables]
    /\ storing \in Nat
    /\ timer \in BOOLEAN
    /\ recomputing \in BOOLEAN
    /\ rerun \in BOOLEAN
    /\ step \in Steps
    /\ read \in [Cities -> 0..MaxPeerTables]
    /\ QueueOK
    /\ routes \in Graph
    /\ gaveUp \in BOOLEAN
    /\ faults \in 0..MaxFaults

\* g was built from tables at least as new as those of f.
AtLeastAsNew(g, f) ==
    g.own >= f.own /\ \A c \in Cities : g.peers[c] >= f.peers[c]

\* While the process lives its routes are never replaced by those of older
\* tables, although jobs are given up, finish late and out of order.
RoutesGoForward ==
    routes' # routes /\ routes' # NoRoutes => AtLeastAsNew(routes', routes)

RoutesNeverGoBack == [][RoutesGoForward]_vars

\* The timer, the guard, the job and its polling implement RoutePromise: the
\* routes are those of tables that were stored, and only go forward.
Promise == INSTANCE RoutePromise WITH tables <- Tables, routes <- routes

KeepsRoutes == Promise!Spec

\* The last table that came is in the routes in the end, however the tables,
\* the timer and the recomputations overlap, unless the last recomputation
\* itself failed or was given up.
RoutesFollowTables == <>[](routes = Tables \/ gaveUp)

\* A recomputation ends, whatever fails in it: the next one is not blocked.
RecomputationEnds == recomputing ~> ~recomputing

-----------------------------------------------------------------------------
(* The inductive invariant of RecomputeProofs, in parts.                   *)

\* The guard is closed exactly while a recomputation is under way.
GuardHeld == recomputing = (step # "idle")

\* A job that waits for the worker has an attempt left.
AttemptsLeft ==
    \A j \in DOMAIN jobs :
        jobs[j].state = "waiting" => jobs[j].attempts < MaxAttempts

\* Only the last job is polled, and only by the recomputation that posted it.
OnePolled ==
    \A j \in DOMAIN jobs : polls[j] > 0 => j = Len(jobs) /\ step = "poll"

\* The routes, what a recomputation has read, the job it waits for and the
\* tables follow each other: each was built from tables at least as new.
RoutesBehindTables == AtLeastAsNew(Tables, routes)

ReadBetween ==
    step = "build"
      => \A c \in Cities : routes.peers[c] <= read[c] /\ read[c] <= peers[c]

JobBetween ==
    \A j \in DOMAIN jobs :
        polls[j] > 0 => /\ AtLeastAsNew(jobs[j].graph, routes)
                        /\ AtLeastAsNew(Tables, jobs[j].graph)

\* While a recomputation polls there is a job that it polls.
SomeJobPolled == step = "poll" => \E j \in DOMAIN jobs : polls[j] > 0

\* Another recomputation is to come: the own table was asked for, a handler is
\* about to schedule one, the timer is armed or has fired meanwhile.
Scheduled == own = 0 \/ storing > 0 \/ timer \/ rerun

\* Unless another recomputation is to come, the tables that are stored are all
\* in the routes, or are all on their way there with the one in progress, or the
\* last one was given up: no table is forgotten, whenever it comes.
NoTableForgotten ==
    ~Scheduled =>
        /\ step = "build" => read = peers
        /\ step = "poll" => \A j \in DOMAIN jobs :
                               polls[j] > 0 => jobs[j].graph = Tables
        /\ step = "idle" => routes = Tables \/ gaveUp

IndInv ==
    /\ TypeOK
    /\ GuardHeld
    /\ AttemptsLeft
    /\ OnePolled
    /\ RoutesBehindTables
    /\ ReadBetween
    /\ JobBetween
    /\ SomeJobPolled
    /\ NoTableForgotten
=============================================================================
