---------------------------- MODULE StressProofs ----------------------------
(***************************************************************************)
(* What the stress command concludes is true for every number of workers,  *)
(* permits and iterations, and of every failure.                           *)
(*                                                                         *)
(* The argument: the steps of the command are built from the limiter's, so *)
(* that what is proved of the limiter can be cited (Uses).  A worker has   *)
(* verified what its step says (Due) unless something was counted, a       *)
(* worker whose result was collected has made all its iterations or has    *)
(* thrown, and while main is not among its task groups no worker is on its *)
(* way.                                                                    *)
(***************************************************************************)
EXTENDS StressWorkers, FiniteSetTheorems, TLAPS

-----------------------------------------------------------------------------
(* The limiter alone: it keeps its promises for every number of workers and *)
(* permits.                                                                 *)

\* Everything but the bounds, which follow from it.
IInv ==
    /\ available \in Nat /\ releases \in Nat
    /\ waiters \in Seq(Worker)
    /\ running \subseteq Worker
    /\ PermitsConserved
    /\ NoLostWakeup

LEMMA InitIInv == Init => IInv
  BY LimiterAssumption, FS_EmptySet DEF Init, IInv, PermitsConserved, NoLostWakeup, Waiting

\* The number of running workers, as one joins and as one leaves.
LEMMA RunningCounts ==
  ASSUME running \subseteq Worker, NEW w \in Worker
  PROVE  /\ Cardinality(running) \in Nat
         /\ w \notin running => Cardinality(running \cup {w}) = Cardinality(running) + 1
         /\ w \in running => Cardinality(running \ {w}) = Cardinality(running) - 1
<1>1. IsFiniteSet(running)
  BY LimiterAssumption, FS_Subset
<1> QED BY <1>1, FS_CardinalityType, FS_AddElement, FS_RemoveElement

\* Taking the first waiter off the queue.
LEMMA Dequeued ==
  ASSUME IInv, waiters # <<>>, waiters' = Tail(waiters), running' = running \cup {Head(waiters)}
  PROVE  /\ Head(waiters) \in Worker /\ Head(waiters) \notin running
         /\ waiters' \in Seq(Worker)
         /\ Waiting' \cap running' = {}
         /\ \A i, j \in DOMAIN waiters' : waiters'[i] = waiters'[j] => i = j
<1>1. /\ waiters \in Seq(Worker) /\ Len(waiters) \in Nat \ {0}
      /\ Head(waiters) = waiters[1] /\ 1 \in DOMAIN waiters
  BY DEF IInv
<1>2. \A i \in DOMAIN waiters' : i + 1 \in DOMAIN waiters /\ waiters'[i] = waiters[i + 1] /\ i \in Nat \ {0}
  BY <1>1
<1>3. \A i, j \in DOMAIN waiters : waiters[i] = waiters[j] => i = j
  BY DEF IInv, NoLostWakeup
<1>4. \A i \in DOMAIN waiters : waiters[i] \notin running
  BY DEF IInv, NoLostWakeup, Waiting
<1>5. \A i, j \in DOMAIN waiters' : waiters'[i] = waiters'[j] => i = j
  BY <1>2, <1>3
<1>6. \A i \in DOMAIN waiters' : waiters'[i] # Head(waiters)
  BY <1>1, <1>2, <1>3
<1>7. Waiting' \cap running' = {}
  BY <1>2, <1>4, <1>6 DEF Waiting
<1> QED BY <1>1, <1>4, <1>5, <1>7

\* A worker that is neither running nor waiting joins the queue.
LEMMA Queued ==
  ASSUME IInv, NEW w \in Worker, w \notin running \cup Waiting, waiters' = Append(waiters, w),
         running' = running
  PROVE  /\ waiters' \in Seq(Worker)
         /\ Waiting' \cap running' = {}
         /\ \A i, j \in DOMAIN waiters' : waiters'[i] = waiters'[j] => i = j
<1>1. waiters \in Seq(Worker) /\ Len(waiters) \in Nat
  BY DEF IInv
<1>2. /\ DOMAIN waiters' = DOMAIN waiters \cup {Len(waiters) + 1}
      /\ waiters'[Len(waiters) + 1] = w
      /\ \A i \in DOMAIN waiters : waiters'[i] = waiters[i]
  BY <1>1
<1>3. \A i \in DOMAIN waiters : waiters[i] # w /\ waiters[i] \notin running
  BY DEF Waiting, IInv, NoLostWakeup
<1>4. \A i, j \in DOMAIN waiters' : waiters'[i] = waiters'[j] => i = j
  BY <1>2, <1>3 DEF IInv, NoLostWakeup
<1>5. Waiting' \cap running' = {}
  BY <1>2, <1>3 DEF Waiting
<1> QED BY <1>1, <1>4, <1>5

LEMMA NextIInv == IInv /\ [Next]_vars => IInv'
<1> SUFFICES ASSUME IInv, [Next]_vars PROVE IInv'
  OBVIOUS
<1>1. CASE UNCHANGED vars
  BY <1>1 DEF vars, IInv, PermitsConserved, NoLostWakeup, Waiting
<1>2. ASSUME NEW w \in Worker, acquire(w) PROVE IInv'
  <2>1. CASE available > 0
    <3>1. waiters = <<>> /\ waiters' = <<>> /\ running' = running \cup {w} /\ w \notin running
      BY <1>2, <2>1 DEF acquire, IInv, NoLostWakeup
    <3>2. NoLostWakeup'
      BY <3>1 DEF NoLostWakeup, Waiting
    <3>3. PermitsConserved'
      BY <1>2, <2>1, <3>1, RunningCounts DEF acquire, IInv, PermitsConserved
    <3> QED BY <1>2, <2>1, <3>1, <3>2, <3>3 DEF acquire, IInv
  <2>2. CASE ~(available > 0)
    <3>1. available = 0
      BY <2>2 DEF IInv
    <3>2. NoLostWakeup'
      BY <1>2, <2>2, <3>1, Queued DEF acquire, NoLostWakeup
    <3> QED BY <1>2, <2>2, <3>2, Queued DEF acquire, IInv, PermitsConserved
  <2> QED BY <2>1, <2>2
<1>3. ASSUME NEW w \in Worker, remoteMD5Returns(w) PROVE IInv'
  <2>1. PermitsConserved'
    <3>1. /\ running \subseteq Worker /\ w \in running
          /\ running' = running \ {w} /\ releases' = releases + 1 /\ available' = available
      BY <1>3 DEF remoteMD5Returns, IInv
    <3>2. /\ Cardinality(running) \in Nat
          /\ Cardinality(running') = Cardinality(running) - 1
      BY <3>1, RunningCounts
    <3> QED BY <3>1, <3>2 DEF IInv, PermitsConserved
  <2>2. NoLostWakeup'
    BY <1>3 DEF remoteMD5Returns, IInv, NoLostWakeup, Waiting
  <2> QED BY <1>3, <2>1, <2>2 DEF remoteMD5Returns, IInv
<1>4. ASSUME release PROVE IInv'
  <2>1. CASE waiters = <<>>
    <3>1. waiters' = <<>> /\ running' = running /\ available' = available + 1 /\ releases' = releases - 1
             /\ releases > 0
      BY <1>4, <2>1 DEF release, returnPermit
    <3>2. Cardinality(running) \in Nat
      BY LimiterAssumption, FS_Subset, FS_CardinalityType DEF IInv
    <3> QED BY <3>1, <3>2, <2>1 DEF IInv, PermitsConserved, NoLostWakeup, Waiting
  <2>2. CASE waiters # <<>>
    <3>1. /\ waiters' = Tail(waiters) /\ running' = running \cup {Head(waiters)}
          /\ available' = available /\ releases' = releases - 1 /\ releases > 0
      BY <1>4, <2>2 DEF release, resumeFirst
    <3>2. available = 0
      BY <2>2 DEF IInv, NoLostWakeup
    <3>3. NoLostWakeup'
      BY <2>2, <3>1, <3>2, Dequeued DEF NoLostWakeup
    <3>4. PermitsConserved'
      <4>1. running \subseteq Worker /\ Head(waiters) \in Worker /\ Head(waiters) \notin running
        BY <2>2, <3>1, Dequeued DEF IInv
      <4>2. /\ Cardinality(running) \in Nat
            /\ Cardinality(running') = Cardinality(running) + 1
        BY <3>1, <4>1, RunningCounts
      <4> QED BY <3>1, <4>2 DEF IInv, PermitsConserved
    <3> QED BY <2>2, <3>1, <3>3, <3>4, Dequeued DEF IInv
  <2> QED BY <2>1, <2>2
<1> QED BY <1>1, <1>2, <1>3, <1>4 DEF Next

THEOREM Inductive == Spec => []IInv
  BY InitIInv, NextIInv, PTL DEF Spec

\* A permit is never lost nor duplicated, for every number of workers.
THEOREM Conserved == Spec => []PermitsConserved
<1>1. IInv => PermitsConserved
  BY DEF IInv
<1> QED BY <1>1, Inductive, PTL

\* No worker waits for a permit that lies in the pool.
THEOREM Woken == Spec => []NoLostWakeup
<1>1. IInv => NoLostWakeup
  BY DEF IInv
<1> QED BY <1>1, Inductive, PTL

\* The server never sees more checksum commands at a time than the limit,
\* although permits come back from tasks that nobody waits for.
THEOREM Limited == Spec => [](TypeOK /\ WithinLimit)
<1>1. IInv => TypeOK /\ WithinLimit
  <2> SUFFICES ASSUME IInv PROVE TypeOK /\ WithinLimit
    OBVIOUS
  <2>1. Cardinality(running) \in Nat
    BY LimiterAssumption, FS_Subset, FS_CardinalityType DEF IInv
  <2> QED BY <2>1, LimiterAssumption DEF IInv, PermitsConserved, TypeOK, WithinLimit
<1> QED BY <1>1, Inductive, PTL

\* Permits are handed out in the order they were asked for, since nobody can
\* take one from the pool while others wait.
THEOREM InOrder == Spec => ServedInOrder
<1>1. ASSUME IInv, [Next]_vars, waiters # <<>>
      PROVE  running' \ running \subseteq {Head(waiters)}
  <2>1. available = 0
    BY <1>1 DEF IInv, NoLostWakeup
  <2>2. ASSUME NEW w \in Worker, acquire(w) PROVE running' = running
    BY <2>1, <2>2 DEF acquire
  <2>3. ASSUME NEW w \in Worker, remoteMD5Returns(w) PROVE running' \subseteq running
    BY <2>3 DEF remoteMD5Returns
  <2>4. ASSUME release PROVE running' = running \cup {Head(waiters)}
    BY <1>1, <2>4 DEF release, resumeFirst
  <2>5. CASE UNCHANGED vars
    BY <2>5 DEF vars
  <2> QED BY <1>1, <2>2, <2>3, <2>4, <2>5 DEF Next
<1>2. IInv /\ [Next]_vars => [waiters # <<>> => running' \ running \subseteq {Head(waiters)}]_vars
  BY <1>1
<1> QED BY <1>2, Inductive, PTL DEF Spec, ServedInOrder

-----------------------------------------------------------------------------
(* The limiter. *)

\* The steps of a worker that leave the limiter alone.
LEMMA OwnSteps ==
  ASSUME NEW w \in Worker,
         \/ withWorkerContext(w) \/ checkCancellation(w) \/ abort(w) \/ upload(w)
         \/ download(w) \/ removeFile(w) \/ closeContext(w)
  PROVE  UNCHANGED vars
  BY DEF withWorkerContext, checkCancellation, abort, upload, download, removeFile, closeContext

LEMMA RunSteps == run \/ report => UNCHANGED vars
  BY DEF run, report, connectWithSftp, createDirectoryRecursively, withShared, nextResult,
         leaveWorkers, unshare, leaveGroup, cleanup, close

LEMMA StepOfLimiter == [StressNext]_stressVars => [Next]_vars
<1> SUFFICES ASSUME [StressNext]_stressVars PROVE [Next]_vars
  OBVIOUS
<1>1. ASSUME NEW w \in Worker, runWorker(w) PROVE Next \/ UNCHANGED vars
  <2>1. awaitPermit(w) => acquire(w)
    BY DEF awaitPermit
  <2>2. remoteMD5(w) => remoteMD5Returns(w)
    BY DEF remoteMD5
  <2> QED BY <1>1, <2>1, <2>2, OwnSteps DEF runWorker, Next
<1>2. CASE returnsPermit
  BY <1>2 DEF returnsPermit, Next
<1>3. CASE UNCHANGED stressVars
  BY <1>3 DEF stressVars
<1> QED BY <1>1, <1>2, <1>3, RunSteps DEF StressNext

\* The behaviours of the command are behaviours of its limiter, by the way the
\* steps of StressNext are put together, so that the limiter's invariant holds.
LEMMA Uses == StressSpec => Init /\ [][Next]_vars
<1>1. StressInit => Init
  BY DEF StressInit
<1> QED BY <1>1, StepOfLimiter, PTL DEF StressSpec

LEMMA LimiterIsSound == StressSpec => []IInv
  BY Uses, InitIInv, NextIInv, PTL

\* The server never refuses a verification.
THEOREM NeverRefused == StressSpec => []VerificationNeverRefused
<1>1. IInv => VerificationNeverRefused
  <2> SUFFICES ASSUME IInv PROVE VerificationNeverRefused
    OBVIOUS
  <2>1. Cardinality(running) \in Nat
    BY LimiterAssumption, FS_Subset, FS_CardinalityType DEF IInv
  <2> QED BY <2>1, LimiterAssumption, StressAssumption
          DEF IInv, PermitsConserved, VerificationNeverRefused
<1> QED BY <1>1, LimiterIsSound, PTL

\* Who has to do with the limiter, as the limiter steps.
LEMMA LimiterOf ==
  ASSUME IInv, NEW w \in Worker
  PROVE  /\ acquire(w) => running' \cup Waiting' \subseteq running \cup Waiting \cup {w}
         /\ remoteMD5Returns(w) => running' \cup Waiting' \subseteq (running \cup Waiting) \ {w}
         /\ release => running' \cup Waiting' \subseteq running \cup Waiting
         /\ UNCHANGED vars => running' \cup Waiting' = running \cup Waiting
<1>0. waiters \in Seq(Worker)
  BY DEF IInv
<1>1. ASSUME acquire(w) PROVE running' \cup Waiting' \subseteq running \cup Waiting \cup {w}
  <2>1. CASE waiters' = waiters
    BY <1>1, <2>1 DEF acquire, Waiting
  <2>2. CASE waiters' = Append(waiters, w)
    <3>1. /\ DOMAIN waiters' = DOMAIN waiters \cup {Len(waiters) + 1}
          /\ waiters'[Len(waiters) + 1] = w
          /\ \A i \in DOMAIN waiters : waiters'[i] = waiters[i]
      BY <1>0, <2>2
    <3>2. Waiting' \subseteq Waiting \cup {w}
      BY <3>1 DEF Waiting
    <3> QED BY <1>1, <3>2 DEF acquire
  <2> QED BY <1>1, <2>1, <2>2 DEF acquire
<1>2. ASSUME remoteMD5Returns(w)
      PROVE  running' \cup Waiting' \subseteq (running \cup Waiting) \ {w}
  BY <1>2 DEF remoteMD5Returns, Waiting, IInv, NoLostWakeup
<1>3. ASSUME release PROVE running' \cup Waiting' \subseteq running \cup Waiting
  <2>1. CASE waiters = <<>>
    BY <1>3, <2>1 DEF release, returnPermit, Waiting
  <2>2. CASE waiters # <<>>
    <3>1. waiters' = Tail(waiters) /\ running' = running \cup {Head(waiters)}
      BY <1>3, <2>2 DEF release, resumeFirst
    <3>2. /\ Head(waiters) = waiters[1] /\ 1 \in DOMAIN waiters
          /\ \A i \in DOMAIN waiters' : i + 1 \in DOMAIN waiters /\ waiters'[i] = waiters[i + 1]
      BY <1>0, <2>2, <3>1
    <3> QED BY <3>1, <3>2 DEF Waiting
  <2> QED BY <2>1, <2>2
<1>4. UNCHANGED vars => running' \cup Waiting' = running \cup Waiting
  BY DEF vars, Waiting
<1> QED BY <1>1, <1>2, <1>3, <1>4

-----------------------------------------------------------------------------
(* The inductive invariant. *)

\* Neither started nor on its way any more.
Resting(w) == step[w] \in {"new"} \cup Ended

\* The digests that a worker has compared.
Due(w) ==
    IF step[w] \in {"abort", "upload", "verify"} THEN 2 * iteration[w] - 2
    ELSE IF step[w] = "download" THEN 2 * iteration[w] - 1
    ELSE 2 * iteration[w]

WorkersOK ==
    /\ step \in [Worker -> WorkerStep]
    /\ iteration \in [Worker -> 0 .. Iterations]
    /\ context \subseteq Worker
    /\ remote \in [Worker -> {"absent", "part", "whole"}]
    /\ errors \in Nat /\ mismatches \in Nat
    /\ verified \in [Worker -> Nat]
    /\ faults \in 0 .. Faults

TaskOK ==
    /\ options \in Options
    /\ main \in RunStep /\ connections \subseteq {"control", "shared"} /\ failure \in BOOLEAN
    /\ collected \subseteq Worker
    /\ reporter \in {"none", "running", "ended"}
    /\ exit \in {"none", "success", "failure"}

WorkerInv(w) ==
    /\ step[w] \in {"returning", "returned"} => iteration[w] = Iterations
    /\ step[w] \in {"abort", "upload", "verify", "download", "remove"} => iteration[w] > 0
    /\ verified[w] <= Due(w)
    /\ errors = 0 /\ mismatches = 0 => verified[w] = Due(w)
    /\ step[w] \in {"verify", "download"} => remote[w] = "whole"
    /\ w \in context => ~Resting(w)
    /\ w \in running \cup Waiting => step[w] = "verify"

\* The connections that run has open at each of its steps.
Opened ==
    CASE main = "connect" -> {}
      [] main \in {"workers", "leave"} /\ options.topology # "perWorkerSession" ->
            {"control", "shared"}
      [] OTHER -> {"control"}

TaskInv ==
    /\ main \notin {"workers", "leave"} => \A w \in Worker : Resting(w)
    /\ main \in {"connect", "mkdir", "share", "workers"} => ~failure
    /\ main = "leave" => failure
    /\ \A w \in collected : step[w] \in Ended /\ (step[w] = "threw" => failure)
    /\ main \in {"unshare", "report", "cleanup", "close"} /\ ~failure => collected = Worker
    /\ exit # "none" => main = "ended"
    /\ exit = "success" => collected = Worker /\ ~failure /\ errors = 0 /\ mismatches = 0
    /\ main \in {"connect", "mkdir"} => reporter = "none"
    /\ main \notin {"unshare", "ended"} => connections = Opened
    /\ main = "unshare" => connections \ {"shared"} = {"control"}
    /\ main = "ended" /\ reporter # "none" => connections = {}

SInv ==
    /\ WorkersOK
    /\ TaskOK
    /\ \A w \in Worker : WorkerInv(w)
    /\ TaskInv
    /\ CountedIsReal

LEMMA InitSInv == StressInit => SInv
<1> SUFFICES ASSUME StressInit PROVE SInv
  OBVIOUS
<1> USE StressAssumption DEF StressInit
<1>1. WorkersOK
  BY DEF WorkersOK, WorkerStep, Ended
<1>2. TaskOK
  BY DEF TaskOK, RunStep
<1>3. running = {} /\ Waiting = {}
  BY DEF Init, Waiting
<1>4. ASSUME NEW w \in Worker PROVE WorkerInv(w)
  BY <1>3 DEF WorkerInv, Resting, Ended, Due
<1>5. TaskInv
  BY DEF TaskInv, Resting, Ended, Opened
<1>6. CountedIsReal
  BY DEF CountedIsReal
<1> QED BY <1>1, <1>2, <1>4, <1>5, <1>6 DEF SInv

-----------------------------------------------------------------------------
(* The steps of a worker. *)

\* The task that runs the command is among its groups while a worker works.
LEMMA Working ==
  ASSUME SInv, NEW w \in Worker, step[w] # "new", step[w] \notin Ended
  PROVE  main \in {"workers", "leave"} /\ w \notin collected
  BY DEF SInv, TaskInv, TaskOK, Resting

\* A step of one worker that keeps what is true of that worker, and of the
\* counters, keeps everything.
LEMMA OneWorker ==
  ASSUME IInv, SInv, NEW w \in Worker, main \in {"workers", "leave"}, w \notin collected,
         WorkersOK', UNCHANGED <<options, task>>, WorkerInv(w)', CountedIsReal',
         errors' >= errors, mismatches' >= mismatches,
         \A v \in Worker \ {w} :
             /\ step'[v] = step[v] /\ iteration'[v] = iteration[v] /\ remote'[v] = remote[v]
             /\ verified'[v] = verified[v] /\ (v \in context' => v \in context)
             /\ (v \in running' \cup Waiting' => v \in running \cup Waiting)
  PROVE  SInv'
<1> USE DEF SInv
<1>1. TaskOK'
  BY DEF TaskOK, task
<1>2. ASSUME NEW v \in Worker \ {w} PROVE WorkerInv(v)'
  <2>1. WorkerInv(v)
    OBVIOUS
  <2>2. errors' = 0 /\ mismatches' = 0 => errors = 0 /\ mismatches = 0
    BY DEF WorkersOK
  <2> QED BY <2>1, <2>2 DEF WorkerInv, Due, Resting
<1>3. TaskInv'
  BY DEF TaskInv, task, TaskOK, Resting, Opened
<1> QED BY <1>1, <1>2, <1>3

LEMMA StepOfWorker ==
  ASSUME IInv, SInv, NEW w \in Worker, runWorker(w)
  PROVE  SInv'
<1>1. main \in {"workers", "leave"} /\ w \notin collected
  BY Working DEF runWorker, withWorkerContext, checkCancellation, abort, upload, awaitPermit,
     remoteMD5, download, removeFile, closeContext, Ended, SInv, TaskInv
<1>2. WorkersOK /\ WorkerInv(w) /\ CountedIsReal /\ StressAssumption
  BY StressAssumption DEF SInv
<1> DEFINE Frame == \A v \in Worker \ {w} :
             /\ step'[v] = step[v] /\ iteration'[v] = iteration[v] /\ remote'[v] = remote[v]
             /\ verified'[v] = verified[v] /\ (v \in context' => v \in context)
           Kept == WorkersOK' /\ Frame /\ errors' >= errors /\ mismatches' >= mismatches
                       /\ UNCHANGED <<options, task>>
<1>3. UNCHANGED vars => running' \cup Waiting' = running \cup Waiting
  BY LimiterOf
<1>4. CASE withWorkerContext(w)
  <2>1. UNCHANGED vars
    BY <1>4, OwnSteps
  <2>2. Kept
    BY <1>4, <1>2
       DEF withWorkerContext, Fault, Go, WorkersOK, WorkerStep, Ended, Cancelled, StressAssumption
  <2>3. WorkerInv(w)'
    BY <1>4, <1>2, <1>3, <2>1
       DEF withWorkerContext, Fault, Go, WorkersOK, WorkerStep, Ended, WorkerInv, Due,
           Resting, StressAssumption
  <2>4. CountedIsReal'
    BY <1>4, <1>2
       DEF withWorkerContext, Fault, Go, WorkersOK, WorkerInv, CountedIsReal, CutShort,
           Cancelled, task, StressAssumption
  <2> QED BY <1>1, <1>3, <2>1, <2>2, <2>3, <2>4, OneWorker
<1>5. CASE checkCancellation(w)
  <2>1. UNCHANGED vars
    BY <1>5, OwnSteps
  <2>2. Kept
    BY <1>5, <1>2
       DEF checkCancellation, Go, WorkersOK, WorkerStep, Ended, Cancelled, StressAssumption
  <2>3. WorkerInv(w)'
    BY <1>5, <1>2, <1>3, <2>1
       DEF checkCancellation, Go, WorkersOK, WorkerStep, Ended, WorkerInv, Due, Resting,
           StressAssumption
  <2>4. CountedIsReal'
    BY <1>5, <1>2
       DEF checkCancellation, Go, WorkersOK, WorkerInv, CountedIsReal, CutShort,
           Cancelled, task, StressAssumption
  <2> QED BY <1>1, <1>3, <2>1, <2>2, <2>3, <2>4, OneWorker
<1>6. CASE abort(w)
  <2>1. UNCHANGED vars
    BY <1>6, OwnSteps
  <2>2. Kept
    BY <1>6, <1>2 DEF abort, Fault, Go, WorkersOK, WorkerStep, Ended, Cancelled, StressAssumption
  <2>3. WorkerInv(w)'
    BY <1>6, <1>2, <1>3, <2>1
       DEF abort, Fault, Go, WorkersOK, WorkerStep, Ended, WorkerInv, Due, Resting, StressAssumption
  <2>4. CountedIsReal'
    BY <1>6, <1>2
       DEF abort, Fault, Go, WorkersOK, WorkerInv, CountedIsReal, CutShort, Cancelled,
           task, StressAssumption
  <2> QED BY <1>1, <1>3, <2>1, <2>2, <2>3, <2>4, OneWorker
<1>7. CASE upload(w)
  <2>1. UNCHANGED vars
    BY <1>7, OwnSteps
  <2>2. Kept
    BY <1>7, <1>2
       DEF upload, Fault, Catch, Go, WorkersOK, WorkerStep, Ended, Cancelled, StressAssumption
  <2>3. WorkerInv(w)'
    BY <1>7, <1>2, <1>3, <2>1
       DEF upload, Fault, Catch, Go, WorkersOK, WorkerStep, Ended, WorkerInv, Due,
           Resting, StressAssumption
  <2>4. CountedIsReal'
    BY <1>7, <1>2
       DEF upload, Fault, Catch, Go, WorkersOK, WorkerInv, CountedIsReal, CutShort,
           Cancelled, task, StressAssumption
  <2> QED BY <1>1, <1>3, <2>1, <2>2, <2>3, <2>4, OneWorker
<1>8. CASE download(w)
  <2>1. UNCHANGED vars
    BY <1>8, OwnSteps
  <2>2. Kept
    BY <1>8, <1>2
       DEF download, Fault, Catch, Compare, Go, WorkersOK, WorkerStep, Ended, Cancelled,
           StressAssumption
  <2>3. WorkerInv(w)'
    BY <1>8, <1>2, <1>3, <2>1
       DEF download, Fault, Catch, Compare, Go, WorkersOK, WorkerStep, Ended, WorkerInv,
           Due, Resting, StressAssumption
  <2>4. CountedIsReal'
    BY <1>8, <1>2
       DEF download, Fault, Catch, Compare, Go, WorkersOK, WorkerInv, CountedIsReal,
           CutShort, Cancelled, task, StressAssumption
  <2> QED BY <1>1, <1>3, <2>1, <2>2, <2>3, <2>4, OneWorker
<1>9. CASE removeFile(w)
  <2>1. UNCHANGED vars
    BY <1>9, OwnSteps
  <2>2. Kept
    BY <1>9, <1>2
       DEF removeFile, Fault, Catch, Go, WorkersOK, WorkerStep, Ended, Cancelled, StressAssumption
  <2>3. WorkerInv(w)'
    BY <1>9, <1>2, <1>3, <2>1
       DEF removeFile, Fault, Catch, Go, WorkersOK, WorkerStep, Ended, WorkerInv, Due,
           Resting, StressAssumption
  <2>4. CountedIsReal'
    BY <1>9, <1>2
       DEF removeFile, Fault, Catch, Go, WorkersOK, WorkerInv, CountedIsReal, CutShort,
           Cancelled, task, StressAssumption
  <2> QED BY <1>1, <1>3, <2>1, <2>2, <2>3, <2>4, OneWorker
<1>10. CASE closeContext(w)
  <2>1. UNCHANGED vars
    BY <1>10, OwnSteps
  <2>2. Kept
    BY <1>10, <1>2
       DEF closeContext, ClosesContext, Go, WorkersOK, WorkerStep, Ended, Cancelled,
           StressAssumption
  <2>3. WorkerInv(w)'
    BY <1>10, <1>2, <1>3, <2>1
       DEF closeContext, ClosesContext, Go, WorkersOK, WorkerStep, Ended, WorkerInv, Due,
           Resting, StressAssumption
  <2>4. CountedIsReal'
    BY <1>10, <1>2
       DEF closeContext, ClosesContext, Go, WorkersOK, WorkerInv, CountedIsReal,
           CutShort, Cancelled, task, StressAssumption
  <2> QED BY <1>1, <1>3, <2>1, <2>2, <2>3, <2>4, OneWorker
<1>11. CASE awaitPermit(w)
  <2>1. running' \cup Waiting' \subseteq running \cup Waiting \cup {w}
    BY <1>11, LimiterOf DEF awaitPermit
  <2>2. Kept
    BY <1>11, <1>2 DEF awaitPermit, stress, worker, task, WorkersOK
  <2>3. WorkerInv(w)' /\ CountedIsReal'
    BY <1>11, <1>2
       DEF awaitPermit, stress, worker, task, WorkerInv, Due, Resting, CountedIsReal, Cancelled
  <2> QED BY <1>1, <2>1, <2>2, <2>3, OneWorker
<1>12. CASE remoteMD5(w)
  <2>1. running' \cup Waiting' \subseteq (running \cup Waiting) \ {w}
    BY <1>12, LimiterOf DEF remoteMD5
  <2>2. Kept
    BY <1>12, <1>2
       DEF remoteMD5, Fault, Catch, Compare, Go, WorkersOK, WorkerStep, Ended, StressAssumption
  <2>3. WorkerInv(w)'
    BY <1>12, <1>2, <2>1
       DEF remoteMD5, Fault, Catch, Compare, Go, WorkersOK, WorkerStep, Ended, WorkerInv,
           Due, Resting, StressAssumption
  <2>4. CountedIsReal'
    BY <1>12, <1>2
       DEF remoteMD5, Fault, Catch, Compare, Go, WorkersOK, WorkerInv, CountedIsReal,
           CutShort, Cancelled, task, StressAssumption
  <2> QED BY <1>1, <2>1, <2>2, <2>3, <2>4, OneWorker
<1> QED BY <1>4, <1>5, <1>6, <1>7, <1>8, <1>9, <1>10, <1>11, <1>12 DEF runWorker

-----------------------------------------------------------------------------
(* The steps of the task that runs the command, of its reporter and of the *)
(* permits.                                                                *)

\* A step that leaves the workers alone.
LEMMA WorkersUntouched ==
  ASSUME IInv, SInv, UNCHANGED <<vars, worker>>, faults' \in 0 .. Faults, faults' >= faults,
         failure => failure'
  PROVE  WorkersOK' /\ (\A w \in Worker : WorkerInv(w)') /\ CountedIsReal'
<1>1. WorkersOK'
  BY DEF SInv, WorkersOK, worker
<1>2. ASSUME NEW w \in Worker PROVE WorkerInv(w)'
  <2>1. WorkerInv(w) /\ running' = running /\ Waiting' = Waiting
    BY DEF SInv, vars, Waiting
  <2> QED BY <2>1 DEF WorkerInv, Due, Resting, worker
<1>3. CountedIsReal'
  BY StressAssumption DEF SInv, CountedIsReal, Cancelled, worker, WorkersOK
<1> QED BY <1>1, <1>2, <1>3

LEMMA StepOfRun ==
  ASSUME IInv, SInv, run \/ report
  PROVE  SInv'
<1>1. WorkersOK /\ TaskOK /\ TaskInv /\ StressAssumption
  BY StressAssumption DEF SInv
<1>2. UNCHANGED vars
  BY RunSteps
<1>3. ASSUME ~cleanup PROVE SInv'
  <2>1. UNCHANGED worker
    BY <1>3 DEF run, report, connectWithSftp, createDirectoryRecursively, withShared, nextResult,
       leaveWorkers, unshare, leaveGroup, close
  <2>2. /\ faults' \in 0 .. Faults /\ faults' >= faults
        /\ failure => failure'
    BY <1>1, <1>3 DEF WorkersOK, run, report, connectWithSftp, createDirectoryRecursively,
       withShared, nextResult, leaveWorkers, unshare, leaveGroup, close, Fault
  <2>3. WorkersOK' /\ (\A w \in Worker : WorkerInv(w)') /\ CountedIsReal'
    BY <1>2, <2>1, <2>2, WorkersUntouched
  <2>4. /\ step' = step /\ errors' = errors /\ mismatches' = mismatches
        /\ \A w \in Worker : Resting(w)' = Resting(w)
    BY <2>1 DEF worker, Resting
  <2> USE DEF TaskOK, TaskInv, Opened, RunStep
  <2>5. TaskOK' /\ TaskInv'
    <3>1. CASE connectWithSftp
      BY <1>1, <2>4, <3>1 DEF connectWithSftp
    <3>2. CASE createDirectoryRecursively
      BY <1>1, <2>4, <3>2 DEF createDirectoryRecursively
    <3>3. CASE withShared
      BY <1>1, <2>4, <3>3 DEF withShared
    <3>4. ASSUME NEW w \in Worker, nextResult(w) PROVE TaskOK' /\ TaskInv'
      BY <1>1, <2>4, <3>4 DEF nextResult
    <3>5. CASE leaveWorkers
      <4>1. \A w \in Worker : step[w] \in Ended
        BY <1>1, <3>5 DEF leaveWorkers, LeavesAfterLast
      <4>2. Opened \ {"shared"} = {"control"}
        BY <3>5 DEF leaveWorkers, LeavesAfterLast
      <4> QED BY <1>1, <2>4, <3>5, <4>1, <4>2 DEF leaveWorkers, LeavesAfterLast, Resting
    <3>6. CASE unshare
      BY <1>1, <2>4, <3>6 DEF unshare
    <3>7. CASE report
      BY <1>1, <2>4, <3>7 DEF report
    <3>8. CASE leaveGroup
      BY <1>1, <2>4, <3>8 DEF leaveGroup
    <3>9. CASE close
      BY <1>1, <2>4, <3>9 DEF close, WorkersOK
    <3> QED BY <1>3, <3>1, <3>2, <3>3, <3>4, <3>5, <3>6, <3>7, <3>8, <3>9 DEF run
  <2> QED BY <2>3, <2>5 DEF SInv
<1>4. ASSUME cleanup PROVE SInv'
  <2>1. WorkersOK'
    BY <1>1, <1>4 DEF cleanup, WorkersOK, Fault
  <2>2. ASSUME NEW w \in Worker PROVE WorkerInv(w)'
    <3>1. WorkerInv(w) /\ Resting(w) /\ running' = running /\ Waiting' = Waiting
      BY <1>1, <1>2, <1>4 DEF SInv, cleanup, TaskInv, vars, Waiting
    <3> QED BY <1>4, <3>1 DEF cleanup, WorkerInv, Resting, Due, Ended
  <2>3. TaskOK' /\ TaskInv'
    BY <1>1, <1>4 DEF cleanup, TaskOK, TaskInv, Opened, RunStep, Resting
  <2>4. CountedIsReal'
    BY <1>1, <1>4 DEF SInv, cleanup, Fault, WorkersOK, CountedIsReal, Cancelled
  <2> QED BY <2>1, <2>2, <2>3, <2>4 DEF SInv
<1> QED BY <1>3, <1>4

LEMMA StepOfPermit ==
  ASSUME IInv, SInv, returnsPermit
  PROVE  SInv'
<1>1. UNCHANGED stress
  BY DEF returnsPermit
<1>2. WorkersOK' /\ TaskOK' /\ TaskInv' /\ CountedIsReal'
  BY <1>1 DEF SInv, WorkersOK, TaskOK, TaskInv, CountedIsReal, Cancelled, Opened, Resting,
     stress, worker, task
<1>3. ASSUME NEW w \in Worker PROVE WorkerInv(w)'
  <2>1. WorkerInv(w) /\ running' \cup Waiting' \subseteq running \cup Waiting
    BY LimiterOf DEF SInv, returnsPermit
  <2> QED BY <1>1, <2>1 DEF WorkerInv, Due, Resting, stress, worker, task
<1> QED BY <1>2, <1>3 DEF SInv

LEMMA NextSInv == IInv /\ SInv /\ [StressNext]_stressVars => SInv'
<1> SUFFICES ASSUME IInv, SInv, [StressNext]_stressVars PROVE SInv'
  OBVIOUS
<1>1. CASE UNCHANGED stressVars
  <2>1. WorkersOK' /\ TaskOK' /\ TaskInv' /\ CountedIsReal'
    BY <1>1 DEF SInv, WorkersOK, TaskOK, TaskInv, CountedIsReal, Cancelled, Opened, Resting,
       stressVars, stress, worker, task
  <2>2. ASSUME NEW w \in Worker PROVE WorkerInv(w)'
    BY <1>1 DEF SInv, WorkerInv, Due, Resting, Waiting, stressVars, vars, stress, worker
  <2> QED BY <2>1, <2>2 DEF SInv
<1> QED BY <1>1, StepOfWorker, StepOfRun, StepOfPermit DEF StressNext

LEMMA StressInductive == StressSpec => [](IInv /\ SInv)
<1>1. StressSpec => []SInv
  BY LimiterIsSound, InitSInv, NextSInv, PTL DEF StressSpec
<1> QED BY <1>1, LimiterIsSound, PTL

-----------------------------------------------------------------------------

\* Types.
THEOREM StressTypeCorrect == StressSpec => []StressTypeOK
<1>1. IInv /\ SInv => StressTypeOK
  <2> SUFFICES ASSUME IInv, SInv PROVE StressTypeOK
    OBVIOUS
  <2>1. TypeOK
    <3>1. Cardinality(running) \in Nat
      BY LimiterAssumption, FS_Subset, FS_CardinalityType DEF IInv
    <3> QED BY <3>1, LimiterAssumption DEF IInv, PermitsConserved, TypeOK
  <2>2. \A w \in Worker : verified[w] \in 0 .. 2 * Iterations
    BY StressAssumption DEF SInv, WorkersOK, WorkerInv, Due
  <2>3. verified \in [Worker -> 0 .. 2 * Iterations]
    BY <2>2 DEF SInv, WorkersOK
  <2> QED BY <2>1, <2>3 DEF SInv, WorkersOK, TaskOK, StressTypeOK
<1> QED BY <1>1, StressInductive, PTL

\* A command that ends with success has verified everything.
THEOREM SuccessIsVerified == StressSpec => []CleanExitMeansVerified
<1>1. SInv => CleanExitMeansVerified
  <2> SUFFICES ASSUME SInv, exit = "success", NEW w \in Worker PROVE verified[w] = 2 * Iterations
    BY DEF CleanExitMeansVerified
  <2>1. step[w] = "returned"
    BY DEF SInv, TaskInv, Ended
  <2>2. iteration[w] = Iterations /\ verified[w] = Due(w)
    BY <2>1 DEF SInv, TaskInv, WorkerInv
  <2> QED BY <2>1, <2>2 DEF Due
<1> QED BY <1>1, StressInductive, PTL

\* What is counted is real, unless the workers were cancelled.
THEOREM CountsAreReal == StressSpec => []CountedIsReal
<1>1. SInv => CountedIsReal
  BY DEF SInv
<1> QED BY <1>1, StressInductive, PTL

\* The cleanup comes after the last worker, and leaves nothing open.
THEOREM CleansUpLast == StressSpec => []CleanupAlone
<1>1. IInv /\ SInv => CleanupAlone
  <2> SUFFICES ASSUME IInv, SInv PROVE CleanupAlone
    OBVIOUS
  <2>1. ASSUME NEW w \in Worker, step[w] \notin {"new"} \cup Ended
        PROVE  /\ "control" \in connections
               /\ options.topology # "perWorkerSession" => "shared" \in connections
    <3>1. main \in {"workers", "leave"} /\ connections = Opened
      BY <2>1 DEF SInv, TaskInv, Resting
    <3> QED BY <3>1 DEF Opened
  <2>2. ASSUME main \in {"cleanup", "close"}
        PROVE  /\ \A w \in Worker : step[w] \in {"new"} \cup Ended
               /\ context = {} /\ running = {} /\ waiters = <<>>
               /\ connections = {"control"}
    <3>1. \A w \in Worker : Resting(w)
      BY <2>2 DEF SInv, TaskInv
    <3>2. context = {}
      BY <3>1 DEF SInv, WorkersOK, WorkerInv
    <3>3. \A w \in Worker : w \notin running \cup Waiting
      BY <3>1 DEF SInv, WorkerInv, Resting, Ended
    <3>4. waiters = <<>>
      <4>1. waiters \in Seq(Worker)
        BY DEF IInv
      <4>2. ASSUME waiters # <<>> PROVE FALSE
        <5>1. 1 \in DOMAIN waiters /\ waiters[1] \in Worker
          BY <4>1, <4>2
        <5> QED BY <3>3, <5>1 DEF Waiting
      <4> QED BY <4>2
    <3>5. running = {}
      BY <3>3 DEF IInv
    <3>6. connections = {"control"}
      BY <2>2 DEF SInv, TaskInv, Opened
    <3> QED BY <3>1, <3>2, <3>4, <3>5, <3>6 DEF Resting
  <2>3. main = "ended" /\ reporter # "none" => connections = {}
    BY DEF SInv, TaskInv
  <2> QED BY <2>1, <2>2, <2>3 DEF CleanupAlone
<1> QED BY <1>1, StressInductive, PTL

=============================================================================
