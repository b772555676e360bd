--------------------------- MODULE StressWorkers ---------------------------
(***************************************************************************)
(* The command stress (Sources/SwiftSSH/Stress.swift and StressSupport     *)
(* .swift): workers that upload a file, have the server compute its digest *)
(* on a control connection, download it again and compare, a reporter that *)
(* runs until it is cancelled, and the task that starts them all, collects *)
(* them and cleans up.                                                     *)
(*                                                                         *)
(* The command composes the library with ChannelLimiter.  What is at stake *)
(* here is what the command concludes: cancellation makes the library's    *)
(* streams end early without an error, it does not reach a worker that     *)
(* waits for a permit, and the permits are given back by tasks nobody      *)
(* waits for.  A transfer is one step with every outcome it can have (its  *)
(* own steps are SFTPTransfer's).  The files are not kept (--keep-files).  *)
(***************************************************************************)
EXTENDS ChannelLimiter

CONSTANTS
    Iterations,     \* --iterations
    MaxSessions,    \* channels the server allows on a connection
    Options,        \* the command lines: topology and stopOnError
    Faults          \* bound: how often a server or a local file fails

StressTopology == {"sharedSftp", "perWorkerSftp", "perWorkerSession"}

ASSUME StressAssumption ==
    /\ Iterations \in Nat \ {0}
    /\ MaxSessions \in Nat /\ Limit < MaxSessions
    /\ Options \subseteq [topology : StressTopology, stopOnError : BOOLEAN]
    /\ Faults \in Nat

VARIABLES
    options,    \* of the command line
    main,       \* the next step of run
    connections,\* the connections run has open
    failure,    \* run leaves its task groups with an error
    collected,  \* workers whose results the loop over the group has seen
    reporter,   \* the reporter's task
    exit,       \* how the command ends
    step,       \* the next step of each worker
    iteration,  \* iterations each worker has begun
    context,    \* workers with an SFTP client or a connection of their own
    remote,     \* what is at each worker's remote path
    errors, mismatches,     \* the counters of StressStats that decide
    verified,   \* history: digests of each worker that were as expected
    faults      \* history: failures and corruptions so far

task == <<main, connections, failure, collected, reporter, exit>>
worker == <<step, iteration, context, remote, errors, mismatches, verified>>
stress == <<options, task, worker, faults>>
stressVars == <<vars, stress>>

\* A worker on its way out closes its context: returning or throwing.
Ended == {"returned", "threw"}
WorkerStep ==
    {"new", "check", "abort", "upload", "verify", "download", "remove", "returning", "throwing"}
        \cup Ended

RunStep ==
    {"connect", "mkdir", "share", "workers", "leave", "unshare", "report", "cleanup", "close", "ended"}

Fault == faults < Faults /\ faults' = faults + 1

\* The first error cancels the group of the workers.
Cancelled == failure

-----------------------------------------------------------------------------
(* A worker. *)

Go(w, next) == step' = [step EXCEPT ![w] = next]

\* Mutant: an error is counted only where it is thrown on.
CatchWhenStopping(w) ==
    /\ errors' = IF options.stopOnError THEN errors + 1 ELSE errors
    /\ Go(w, IF options.stopOnError THEN "throwing" ELSE "check")
    /\ UNCHANGED <<mismatches, verified>>

\* An error of roundTrip is counted; it ends the worker if the run is to stop
\* on errors, and the iteration otherwise.
Catch(w) ==
    /\ errors' = errors + 1
    /\ Go(w, IF options.stopOnError THEN "throwing" ELSE "check")
    /\ UNCHANGED <<mismatches, verified>>

\* A digest other than the expected one is counted; the iteration goes on.
Compare(w, matches, next) ==
    /\ IF matches
       THEN verified' = [verified EXCEPT ![w] = @ + 1] /\ UNCHANGED mismatches
       ELSE mismatches' = mismatches + 1 /\ UNCHANGED verified
    /\ Go(w, next)
    /\ UNCHANGED errors

\* Mutant: a transfer that was aborted before is cut short as well.
CutAnyTime == TRUE

\* The streams of the library answer nil to a task that is cancelled, as if
\* there was nothing more to read.
CutShort == Cancelled

\* The server refuses a channel too many on the connection the workers share.
Refused ==
    /\ options.topology = "perWorkerSftp"
    /\ Cardinality(context) >= MaxSessions

\* What the worker does not share it opens for itself.
withWorkerContext(w) ==
    /\ step[w] = "new"
    /\ main \in {"workers", "leave"}
    /\ IF options.topology = "sharedSftp"
       THEN Go(w, "check") /\ UNCHANGED <<context, faults>>
       ELSE \/ /\ ~Refused
               /\ context' = context \cup {w}
               /\ Go(w, "check")
               /\ UNCHANGED faults
            \/ /\ IF Refused THEN UNCHANGED faults ELSE Fault
               /\ Go(w, "threw")
               /\ UNCHANGED context
    /\ UNCHANGED <<vars, options, task, iteration, remote, errors, mismatches, verified>>

\* The head of the loop over the iterations.
checkCancellation(w) ==
    /\ step[w] = "check"
    /\ IF iteration[w] = Iterations
       THEN Go(w, "returning") /\ UNCHANGED iteration
       ELSE IF Cancelled
       THEN Go(w, "throwing") /\ UNCHANGED iteration
       ELSE /\ \E next \in {"abort", "upload"} : Go(w, next)
            /\ iteration' = [iteration EXCEPT ![w] = @ + 1]
    /\ UNCHANGED <<vars, options, task, context, remote, errors, mismatches, verified, faults>>

\* An upload that is cancelled and waited for, whatever becomes of it.  (That
\* of a download leaves nothing but a local file, which the next one creates
\* anew.)  No step of an upload looks at the cancellation, so it is cut short
\* only where it fails.
abort(w) ==
    /\ step[w] = "abort"
    /\ \/ remote' = [remote EXCEPT ![w] = "whole"] /\ UNCHANGED faults
       \/ Fault /\ (UNCHANGED remote \/ remote' = [remote EXCEPT ![w] = "part"])
    /\ Go(w, "upload")
    /\ UNCHANGED <<vars, options, task, iteration, context, errors, mismatches, verified>>

upload(w) ==
    /\ step[w] = "upload"
    /\ \/ /\ remote' = [remote EXCEPT ![w] = "whole"]
          /\ Go(w, "verify")
          /\ UNCHANGED <<errors, mismatches, verified, faults>>
       \/ /\ Fault
          /\ UNCHANGED remote \/ remote' = [remote EXCEPT ![w] = "part"]
          /\ Catch(w)
    /\ UNCHANGED <<vars, options, task, iteration, context>>

\* remoteMD5: the call of acquire, which cancellation does not end.
awaitPermit(w) ==
    /\ step[w] = "verify"
    /\ acquire(w)
    /\ UNCHANGED stress

\* remoteMD5: the digest, or the error of a command that failed or of one
\* whose output a cancelled worker did not read.
remoteMD5(w) ==
    /\ step[w] = "verify"
    /\ \/ /\ remoteMD5Returns(w)
          /\ \/ Compare(w, remote[w] = "whole", "download") /\ UNCHANGED faults
             \/ Compare(w, FALSE, "download") /\ Fault
       \/ /\ remoteMD5Returns(w)
          /\ Catch(w)
          /\ Fault \/ (CutShort /\ UNCHANGED faults)
    /\ UNCHANGED <<options, task, iteration, context, remote>>

\* Part of a file is digested like a whole one.
download(w) ==
    /\ step[w] = "download"
    /\ \/ Compare(w, remote[w] = "whole", "remove") /\ UNCHANGED faults
       \/ Compare(w, FALSE, "remove") /\ CutShort /\ UNCHANGED faults
       \/ Compare(w, FALSE, "remove") /\ Fault
       \/ Catch(w) /\ Fault
    /\ UNCHANGED <<vars, options, task, iteration, context, remote>>

removeFile(w) ==
    /\ step[w] = "remove"
    /\ \/ /\ remote' = [remote EXCEPT ![w] = "absent"]
          /\ Go(w, "check")
          /\ UNCHANGED <<errors, mismatches, verified, faults>>
       \/ Catch(w) /\ Fault /\ UNCHANGED remote
    /\ UNCHANGED <<vars, options, task, iteration, context>>

\* Mutant: a body that threw leaves its context open.
ClosesReturned(w) == step[w] = "returning"

ClosesContext(w) == step[w] \in {"returning", "throwing"}

\* The end of withWorkerContext.
closeContext(w) ==
    /\ step[w] \in {"returning", "throwing"}
    /\ context' = IF ClosesContext(w) THEN context \ {w} ELSE context
    /\ Go(w, IF step[w] = "returning" THEN "returned" ELSE "threw")
    /\ UNCHANGED <<vars, options, task, iteration, remote, errors, mismatches, verified, faults>>

runWorker(w) ==
    \/ withWorkerContext(w) \/ checkCancellation(w) \/ abort(w) \/ upload(w)
    \/ awaitPermit(w) \/ remoteMD5(w) \/ download(w) \/ removeFile(w) \/ closeContext(w)

-----------------------------------------------------------------------------
(* The task that runs the command, and its reporter. *)

\* The control connection; the command ends if there is none.
connectWithSftp ==
    /\ main = "connect"
    /\ \/ /\ connections' = {"control"}
          /\ main' = "mkdir"
          /\ UNCHANGED <<exit, faults>>
       \/ /\ Fault
          /\ main' = "ended"
          /\ exit' = "failure"
          /\ UNCHANGED connections
    /\ UNCHANGED <<vars, options, worker, failure, collected, reporter>>

\* Outside of the do block: an error leaves the control connection open.
createDirectoryRecursively ==
    /\ main = "mkdir"
    /\ \/ /\ reporter' = "running"
          /\ main' = "share"
          /\ UNCHANGED <<exit, faults>>
       \/ /\ Fault
          /\ main' = "ended"
          /\ exit' = "failure"
          /\ UNCHANGED reporter
    /\ UNCHANGED <<vars, options, worker, connections, failure, collected>>

\* What the workers share is opened before the first of them starts.
withShared ==
    /\ main = "share"
    /\ IF options.topology = "perWorkerSession"
       THEN main' = "workers" /\ UNCHANGED <<connections, failure, faults>>
       ELSE \/ /\ connections' = connections \cup {"shared"}
               /\ main' = "workers"
               /\ UNCHANGED <<failure, faults>>
            \/ /\ Fault
               /\ failure' = TRUE
               /\ main' = "report"
               /\ UNCHANGED connections
    /\ UNCHANGED <<vars, options, worker, collected, reporter, exit>>

\* The loop over the group rethrows the first error.
nextResult(w) ==
    /\ main = "workers"
    /\ step[w] \in Ended /\ w \notin collected
    /\ collected' = collected \cup {w}
    /\ IF step[w] = "threw"
       THEN failure' = TRUE /\ main' = "leave"
       ELSE UNCHANGED <<failure, main>>
    /\ UNCHANGED <<vars, options, worker, connections, reporter, exit, faults>>

\* A task group is left when all its tasks ended.
LeavesAfterLast == main = "leave" /\ \A w \in Worker : step[w] \in Ended

leaveWorkers ==
    /\ LeavesAfterLast \/ (main = "workers" /\ collected = Worker)
    /\ main' = "unshare"
    /\ UNCHANGED <<vars, options, worker, connections, failure, collected, reporter, exit, faults>>

\* The end of withShared; the outer group is cancelled on both ways out.
unshare ==
    /\ main = "unshare"
    /\ connections' = connections \ {"shared"}
    /\ main' = "report"
    /\ UNCHANGED <<vars, options, worker, failure, collected, reporter, exit, faults>>

\* Mutant: the reporter is cancelled by an error only.
ReporterCancelledByError == main = "report" /\ failure

ReporterCancelled == main = "report"

\* The reporter's loop ends when its task is cancelled.
report ==
    /\ reporter = "running"
    /\ ReporterCancelled
    /\ reporter' = "ended"
    /\ UNCHANGED <<vars, options, worker, main, connections, failure, collected, exit, faults>>

leaveGroup ==
    /\ main = "report"
    /\ reporter = "ended"
    /\ main' = "cleanup"
    /\ UNCHANGED <<vars, options, worker, connections, failure, collected, reporter, exit, faults>>

\* What is left of the workers' files is removed, if that succeeds.
cleanup ==
    /\ main = "cleanup"
    /\ main' = "close"
    /\ \/ remote' = [w \in Worker |-> "absent"] /\ UNCHANGED faults
       \/ Fault /\ UNCHANGED remote
    /\ UNCHANGED <<vars, options, connections, failure, collected, reporter, exit>>
    /\ UNCHANGED <<step, iteration, context, errors, mismatches, verified>>

close ==
    /\ main = "close"
    /\ main' = "ended"
    /\ connections' = {}
    /\ exit' = IF failure \/ mismatches > 0 \/ errors > 0 THEN "failure" ELSE "success"
    /\ UNCHANGED <<vars, options, worker, failure, collected, reporter, faults>>

run ==
    \/ connectWithSftp \/ createDirectoryRecursively \/ withShared
    \/ \E w \in Worker : nextResult(w)
    \/ leaveWorkers \/ unshare \/ leaveGroup \/ cleanup \/ close

-----------------------------------------------------------------------------

StressInit ==
    /\ Init
    /\ options \in Options
    /\ main = "connect" /\ connections = {} /\ failure = FALSE
    /\ collected = {} /\ reporter = "none" /\ exit = "none"
    /\ step = [w \in Worker |-> "new"]
    /\ iteration = [w \in Worker |-> 0]
    /\ context = {}
    /\ remote = [w \in Worker |-> "absent"]
    /\ errors = 0 /\ mismatches = 0
    /\ verified = [w \in Worker |-> 0]
    /\ faults = 0

\* A permit on its way back arrives whatever became of the worker.
returnsPermit == release /\ UNCHANGED stress

StressNext ==
    \/ \E w \in Worker : runWorker(w)
    \/ run
    \/ report
    \/ returnsPermit

\* Every task runs on when it can: calls of the library return, commands end.
StressFairness ==
    /\ \A w \in Worker : WF_stressVars(runWorker(w))
    /\ WF_stressVars(run)
    /\ WF_stressVars(report)
    /\ WF_stressVars(returnsPermit)

StressSpec == StressInit /\ [][StressNext]_stressVars /\ StressFairness

-----------------------------------------------------------------------------

StressTypeOK ==
    /\ TypeOK
    /\ options \in Options
    /\ main \in RunStep /\ connections \subseteq {"control", "shared"} /\ failure \in BOOLEAN
    /\ collected \subseteq Worker
    /\ reporter \in {"none", "running", "ended"}
    /\ exit \in {"none", "success", "failure"}
    /\ step \in [Worker -> WorkerStep]
    /\ iteration \in [Worker -> 0 .. Iterations]
    /\ context \subseteq Worker
    /\ remote \in [Worker -> {"absent", "part", "whole"}]
    /\ errors \in Nat /\ mismatches \in Nat
    /\ verified \in [Worker -> 0 .. 2 * Iterations]
    /\ faults \in 0 .. Faults

\* The server never refuses a verification: with the SFTP client of the
\* control connection, the commands stay within MaxSessions
\* (StressSupport.swift:275-280).
VerificationNeverRefused == 1 + Cardinality(running) <= MaxSessions

\* A command that ends with success has verified every upload and every
\* download of every worker: no error and no cancellation lets an iteration
\* pass unverified (Stress.swift:154-160, 165-187).
CleanExitMeansVerified ==
    exit = "success" => \A w \in Worker : verified[w] = 2 * Iterations

\* As long as no worker threw, a counted error or mismatch is one the server
\* or a file is to blame for.  Once the workers are cancelled this is not so:
\* what they were reading is cut short without an error and digested as it is
\* (Stress.swift:241-252, 309-323).
CountedIsReal == errors + mismatches > faults => Cancelled

\* What the workers use is there while they run, and the files are removed
\* under none of them: the cleanup starts when every worker has ended, closed
\* its context and has no command running, and it leaves nothing open.
\* (Stress.swift:122-153, StressSupport.swift:52-87).
CleanupAlone ==
    /\ \A w \in Worker : step[w] \notin {"new"} \cup Ended =>
        /\ "control" \in connections
        /\ options.topology # "perWorkerSession" => "shared" \in connections
    /\ main \in {"cleanup", "close"} =>
        /\ \A w \in Worker : step[w] \in {"new"} \cup Ended
        /\ context = {} /\ running = {} /\ waiters = <<>>
        /\ connections = {"control"}
    /\ main = "ended" /\ reporter # "none" => connections = {}

\* The command ends, whoever throws and whoever waits for a permit then.
RunEnds == <>(main = "ended")

=============================================================================
