--------------------------- MODULE ChannelLimiter ---------------------------
(***************************************************************************)
(* The actor ChannelLimiter of Sources/SwiftSSH/StressSupport.swift and the*)
(* way remoteMD5 of Stress.swift uses it: a worker acquires a permit, runs *)
(* a command on a channel of its own, and gives the permit back from a task*)
(* it starts and does not wait for.  So a worker can be asking for its next*)
(* permit before the last one was returned.  sshd refuses a channel over   *)
(* its MaxSessions, which is what the limiter is for.                      *)
(***************************************************************************)
EXTENDS Integers, Sequences, FiniteSets

CONSTANTS Worker, Limit

ASSUME LimiterAssumption == IsFiniteSet(Worker) /\ Limit \in Nat \ {0}

VARIABLES
    available,  \* `available`
    waiters,    \* `waiters`: the workers whose continuations are queued
    running,    \* workers whose acquire returned; each has a channel open
    releases    \* tasks that have yet to call release

vars == <<available, waiters, running, releases>>

Waiting == {waiters[i] : i \in DOMAIN waiters}

-----------------------------------------------------------------------------

\* Mutant: the queue is looked at instead of the pool.
acquireUnlessQueued(w) ==
    /\ w \notin running \cup Waiting
    /\ waiters = <<>>
    /\ available' = available - 1
    /\ running' = running \cup {w}
    /\ UNCHANGED <<waiters, releases>>

acquire(w) ==
    /\ w \notin running \cup Waiting
    /\ IF available > 0
       THEN /\ available' = available - 1
            /\ running' = running \cup {w}
            /\ UNCHANGED waiters
       ELSE /\ waiters' = Append(waiters, w)
            /\ UNCHANGED <<available, running>>
    /\ UNCHANGED releases

\* The command ended, or failed: its channel is closed and the deferred task
\* is on its way to the limiter.
remoteMD5Returns(w) ==
    /\ w \in running
    /\ running' = running \ {w}
    /\ releases' = releases + 1
    /\ UNCHANGED <<available, waiters>>

returnPermit ==
    /\ available' = available + 1
    /\ UNCHANGED <<waiters, running>>

\* Mutant: the worker that waits since the shortest time is resumed.
resumeLast ==
    /\ running' = running \cup {waiters[Len(waiters)]}
    /\ waiters' = SubSeq(waiters, 1, Len(waiters) - 1)
    /\ UNCHANGED available

\* Mutant: the permit is returned as well.
resumeAndReturn ==
    /\ running' = running \cup {Head(waiters)}
    /\ waiters' = Tail(waiters)
    /\ available' = available + 1

\* The worker that waits longest gets the permit.
resumeFirst ==
    /\ running' = running \cup {Head(waiters)}
    /\ waiters' = Tail(waiters)
    /\ UNCHANGED available

\* Mutant: nobody is resumed.
releaseToPool == releases > 0 /\ releases' = releases - 1 /\ returnPermit

release ==
    /\ releases > 0
    /\ releases' = releases - 1
    /\ IF waiters = <<>> THEN returnPermit ELSE resumeFirst

-----------------------------------------------------------------------------

Init ==
    /\ available = Limit
    /\ waiters = <<>>
    /\ running = {}
    /\ releases = 0

Next ==
    \/ \E w \in Worker : acquire(w) \/ remoteMD5Returns(w)
    \/ release

\* Commands end and started tasks run; no worker has to start a command.
Fairness ==
    /\ \A w \in Worker : WF_vars(remoteMD5Returns(w))
    /\ WF_vars(release)

Spec == Init /\ [][Next]_vars /\ Fairness

-----------------------------------------------------------------------------

TypeOK ==
    /\ available \in 0 .. Limit
    /\ waiters \in Seq(Worker)
    /\ running \subseteq Worker
    /\ releases \in 0 .. Limit

\* Every permit is in the pool, with a worker, or on its way back: handing a
\* permit over neither loses nor duplicates one (StressSupport.swift:297-303).
PermitsConserved == available + Cardinality(running) + releases = Limit

\* The server never sees more commands at a time than the limit.
WithinLimit == Cardinality(running) <= Limit

\* No worker waits while a permit lies in the pool, and none that waits also
\* runs or waits twice.
NoLostWakeup ==
    /\ waiters # <<>> => available = 0
    /\ Waiting \cap running = {}
    /\ \A i, j \in DOMAIN waiters : waiters[i] = waiters[j] => i = j

\* Permits are handed out in the order they were asked for: while workers
\* wait, the next to run is the one that waits longest, and none that has
\* just come (StressSupport.swift:289-303).
ServedInOrder == [][waiters # <<>> => running' \ running \subseteq {Head(waiters)}]_vars

=============================================================================
