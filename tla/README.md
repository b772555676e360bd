# SwiftLibSSH in TLA+

A model of `kosolabs/swift-libssh`: a Swift package that wraps the C library libssh in an
actor (`SSHSession`), offers client, SFTP, file, directory and channel handles over it,
pipelines SFTP transfers, and ships a small command-line tool (`swift-ssh`).  The modules
here are written from the code under `Sources/` and from the repository's patch of libssh
under `patches/`; where a definition stands for libssh itself it is written from what the
Swift code relies on and is marked external in `PROJECT.json`.

Paths below are relative to the repository; `LibSSH.swift` and the other library files are
in `Sources/SwiftLibSSH/`, the tool's in `Sources/SwiftSSH/`.

## 1. The system and its parts

| component | state it keeps | operations | talks to |
|---|---|---|---|
| `SSHSession` actor (`LibSSH.swift`) | the `ssh_session` pointer and dictionaries of channels, SFTP sessions, files with their aio slots, directories | options, connect, authenticate, open/use/close of each object, begin/wait of requests, `free`, `close` | libssh |
| handles (`SSHClient`, `SFTPClient`, `SFTPFile`, `SFTPDirectory`, `SSHSessionChannel`, `SFTPAioContext`) | an identifier and the actor | forward to the actor, scopes `with...` that open, run a body, close | `SSHSession` |
| `SSHClient` life cycle (`SSHClient.swift`) | the session of one call | `connect`, `hostKey`, `withAuthenticatedClient`, `close` | `SSHSession` |
| transfers (`SFTPFile.swift`) | per transfer: queue of requests, bytes begun; shared: the channel window, libssh's answers | `SFTPReader` iterator, `SFTPWriter` write/flush, `download`, `upload`, the blocking loops `read` and `write` | `SSHSession`, the server |
| libssh connection patch (`patches/libssh/0001-...`) | address list, next address, descriptor | loop over addresses, poll callback, free | sockets |
| `ChannelLimiter` (`StressSupport.swift`, used by `Stress.swift`) | permits, queue of continuations | `acquire`, `release` | `remoteMD5` |
| `SFTPClient` path and tree operations | none | `createDirectoryRecursively`, `removeDirectoryRecursively`, `stat`, `setStat`, `symlink`, ... | `SSHSession` |
| commands (`SSHSessionChannel`, `SSHClient.execute`) | channel identifier | run, exit status, read | `SSHSession` |
| stress command (`Stress.swift`, `StressSupport.swift`) | topology, connections, workers, counters | share, round trip, verify, report, clean up, exit | everything above |
| second stress command (`StressTree.swift`) | remote trees of each round | build, list, rename, tear down | path and tree operations |
| conversions (`SFTPAttributes`, `SFTPLimits`, `SSHExitStatus`), keys, speedometer, command line | none or immutable | - | - |

How they interact.  Any number of tasks call methods of the same actor.  No method of
`SSHSession` suspends, so each runs as one step; the scopes around it do suspend, so
between the opening and the closing of an object any other task may close the object, its
SFTP session, or the whole session.  A handle that a body lets escape stays callable.
Requests begun on different files share the channel window of their SFTP session, and
whoever waits for an answer takes everyone else's answers off the socket on the way.

What is hard here, and what makes each part correct:

- **Ownership.** Files, directories and SFTP sessions must be released before what they
  were opened through and before `ssh_disconnect`, which frees the channels under them; a
  failing open must free what it made; a double close must find nothing.  Correct means:
  libssh never gets a dangling pointer, and never holds an object the actor has forgotten.
- **Handles.** Closing a handle closes everything below it, at once and for good, and any
  later call is answered "closed".
- **Errors.** libssh's error code and the SFTP status are sticky.  Correct means that a
  call after the loss of the connection is answered by the loss, and that what an earlier
  call left with libssh is the only other answer it can get.
- **Client calls.** Each step may fail; the credentials must go to the expected server only
  and a call that ended must have freed its session.
- **Transfers.** Answers out of order, short, failed or taken by others; a window that may
  be full; cancellation and loss of the connection at any point.  Correct means data in
  order and complete, an upload that returned is stored, and every transfer ends.
- **Connecting.** An address fails late, from a callback, when the loop over the addresses
  has long been left.  Correct means that no descriptor is leaked and that the attempt
  fails only when every address refused.
- **Attributes and links.** `setStat` and `symlink` are two requests each.  The actor is
  held between them, but clients of other sessions are not.  Correct means that the clients
  of one session never undo each other's changes, that attributes go to the file they were
  read from, and that a refusal is explained by what was in the way.
- **Remote trees.** Recursive creation and removal are many requests, and other clients act
  between any two.  Correct means that a removal that returned left nothing, that nothing
  behind a link is touched, and that a creation that returned left its directory there.
- **Limiter.** A permit comes back from a task nobody waits for.  Correct means that none
  is lost or duplicated and that workers are served in order.
- **Stress command.** Workers fail, are refused and are cancelled while they transfer or
  wait for a permit, and cancellation makes streams end early without an error.  Correct
  means that success is only reported of a run that verified everything, that what is
  counted is real, that the cleanup waits for the last worker, and that the command ends.

`PROJECT.json` lists each hazard at its line with the properties that cover it.

## 2. Modules

| module | models | builds on |
|---|---|---|
| `HandleTree` | abstract specification of the handles | - |
| `CLibSSH` | libssh's functions and the objects they make and free | - |
| `SSHSession` | the actor and libssh's objects | extends `CLibSSH`, implements `HandleTree` |
| `SSHClient` | one call of `SSHClient` and the tasks that share its client | extends `SSHSession` |
| `SFTPTransfer` | readers and writers, pipelined or blocking, that share a window, and the server | - |
| `ChannelLimiter` | the limiter and its worker tasks | - |
| `StressWorkers` | the stress command: workers, reporter, the task that runs them | extends `ChannelLimiter` |
| `SSHConnect` | trying the addresses of a host | - |
| `RemoteTree` | recursive creation and removal of directories, and the remote tree | - |
| `PathOperations` | attributes, links, renames and removals by several sessions on one server | - |
| `MC...` | instances for TLC | the module of that name |
| `HandleTreeProofs`, `SSHSessionProofs`, `SSHClientProofs`, `StressProofs`, `SSHConnectProofs`, `PathOperationsProofs`, `SFTPTransferProofs`, `RemoteTreeProofs` | theorems | the module of that name; `SSHSessionProofs` has the refinement of `HandleTree`, `StressProofs` the theorems about `ChannelLimiter` |

### HandleTree

Handles form a tree given by the constant `Ancestors`.  `Open`, `Use`, `Close` and
`Consume` are the four things a call can do to it; the state is which handles are open,
which are known to callers, and how the latest call was answered.  It promises that no
handle outlives one it was opened through (`OwnersOpen`), that a closed one stays closed
(`ClosedForGood`), and that a call on a closed handle is answered "closed".

### SSHSession

One action per method of the actor, named as in the source.  The dictionaries are the sets
of their keys (`channels`, `sftps`, `files`, `directories`, `aios`); `held` is the
identifiers callers have received.  An identifier carries the one of the object it was
opened through, as in the source, and is a fresh UUID, so no action opens a known one.

The C side is the record `heap`: for each kind of object, which are allocated.  Each libssh
function is an operator of `CLibSSH` on heaps, with the name it has in libssh's headers and
from what they say of it, whose `Call` notes a misuse when a pointer it reaches is
gone.  `pipes` are the channels inside the SFTP sessions: `ssh_disconnect` and `ssh_free`
free them, so closing a file afterwards would be a misuse.  `slots` are the heap cells of
`beginRead`/`beginWrite`, `garbage` those not yet initialised, `requests` those with a
libssh request in flight.

Calls succeed or fail by choice.  A failing call (`Fails`) leaves the transport and the
error code in any state libssh may leave them, including an old code, and the class of
error is computed by `error` in the order of `LibSSH.swift:259-286`.  Whether the SFTP
session it asks for the status is still there only matters in `createSftp` (`statusRead`):
elsewhere the session is registered and no method of the actor suspends.  What a path operation
or a read does to the remote file is left out.

### SSHClient

Composition: the variables of `SSHSession` and those of one call (`entry`, `pc`,
`expected`, `presented`, `credentials`, `outcome`).  Each step of the call conjoins an
action of `SSHSession` with the control of `SSHClient.swift:32-123`, its error paths
included; `Use` is any task that got hold of the client or a handle through it, while the
body runs and after.  The server's key is chosen when the connection is made.

### SFTPTransfer

Each transfer works on a file of its own, and `blocking` says which of them are the loops
of `SFTPFile.read` and `SFTPFile.write` (chosen at the start, so a run has all mixtures).

A pipelined reader is `SFTPReader.Iterator.next` in the loop of its consumer, split at every
await into `StartNext`, `Fill` (one iteration of the loop that fills the queue) and `Take`;
a pipelined writer is `SFTPWriter.write` and `flush` split into `Write` and `Flush`.  `Fill`
and `Write` that find no room with an empty queue only yield, which is a stutter: the
transfer stays enabled only by what others do.

A loop makes one `Call` after another.  `sftp_read` and `sftp_write` wait inside the actor,
for room (`Resume`) and for the answer (`CallReturns`); until then `busy` is the transfer
that holds the actor and every other action of a transfer is disabled by `ActorFree`.

The server answers with what there is or an error (`Serve`), gives window back in batches,
and may reorder; `inbound` is the socket, `replies` what libssh has taken off it for others.
A file being read may grow once (`Grow`); the connection may be lost (`LoseConnection`) or
the SFTP session closed by another task (`CloseSftp`) at any point.  `Leave` is the end of
`withSftpFile`: the requests nobody waited for go with the file, and the close takes answers
off the socket like any other wait.

Two assumptions come from outside the source: a request costs a positive overhead in the
window (`Overhead`), and the server's threshold for returning window leaves room for a
request (`WindowAssumption`), as OpenSSH's does by far.  Data is the position of each
byte in its file, so order, gaps and repetition are visible.

### ChannelLimiter

`acquire`, `release` and the detached task between a command's end and its `release`.

### StressWorkers

Composition: the variables of `ChannelLimiter`, and those of the command.  `step` is where
each worker is in `withWorkerContext`, `runWorker` and `roundTrip`, `main` where the task of
`run` is; `report` is the reporter's end.  A worker's verification takes `acquire` and
`remoteMD5Returns` of the limiter, and the release is a task of its own (`returnsPermit`).
A transfer is one step with every outcome that `SFTPTransfer` gives it: whole, failed, or,
once the workers are cancelled (`Cancelled`), cut short without an error (`CutShort`).  An
upload that `abort` gives up leaves a file that is absent, partial or whole.

Failures and corruptions (`Fault`) are counted in `faults`, which is history: it is what a
counted error or mismatch is compared with.  The command line is `options`, one of those in
the constant `Options`.  The server refuses channels beyond `MaxSessions` on a connection
that workers share; for the commands on the control connection this is the property
`VerificationNeverRefused`, since the limiter is what should prevent it.

### SSHConnect

The addresses are `1 .. Count`.  One step is one iteration of the loop in
`ssh_connect_host_nonblocking`; `Settle` leaves it, and `PollError` is the branch of the
poll callback that goes on with the next address while the failed descriptor is open.

### RemoteTree

A path is a sequence of names (`Name`).  `tree` is what exists on the server, path by path, each
a directory, a file or a link to `Elsewhere`.  A creation (`createDirectory`, one step per
prefix) remembers how many prefixes are done.  A removal is the recursion of
`removeDirectoryRecursively` written as its stack: each scope of `withDirectory` is an entry
with the names the server has listed and those of the latest reply, and `stage` is the request
that comes next.  The loop over the entries is `readDirectory`, which hands each to `unlink` or,
if it was listed as a directory, to `openDirectory`; after the last one comes `rmdir`.  A
failing request leaves all scopes at once, as the error does in the source.

The server lists in replies of any size and order.  What was there when the directory was
opened and has not gone since (`due`) must be listed; what came since may be.  Opening a
path follows links, removing it does not, so a removal that is given a link empties the
directory it leads to and then fails on `rmdir`: `RemovesOnlyBelow` is stated of the
directory that the first path leads to (`base`).  `excused` holds the calls that a change
made by somebody else, or a refused request, got in the way of (a creation's only when a prefix is
removed that it was done with); it is history only, and
what a call promises is promised to those not in it.  Other clients upload files.

### PathOperations

The other path operations that change the server.  `tree` is the file that each path names;
a file has a `target` if it is a link, and attributes, whose value is the call that chose
it.  `setStat` and `symlink` are split at their second request (`setStatWrites`,
`symlinkExplains`); `ActorFree` keeps the other calls of the session out in between, and a
call of another session that changes something then marks the call as `overtaken`.
Attributes are written in groups, one for each flag of SFTP version 3, and a write that
fails may have set some groups.  `latest` and `changed` are history: the call that last
asked for the value of an attribute, and the one that last gave it another value.

## 3. Runs

All runs that pass explore the whole state space of their instance.  The instance of
`session` is bounded by the constraint `MCOneSibling`, and its view `MCView` leaves out
whether the error of a freed SFTP session was read, which no action depends on and no
property of that run tells apart.

| run | instance | distinct states | shows |
|---|---|---|---|
| `handle_tree` | session, channel, SFTP session, directory, file, request | 2 215 | `OwnersOpen`, `ClosedForGood` |
| `session` | 2 SFTP sessions, 2 files, a directory, a request, a channel (see below) | 73 387 | `TypeOK`, `NothingDangles`, `NothingLeaks`, `LostLinkIsReported`, `ImplementsHandleTree` |
| `session_waits` | a file with a request | - | violates `RequestsWaitedBeforeClose` (section 6) |
| `session_open` | an SFTP session alone | - | violates `ErrorReadBeforeFree` (section 6) |
| `client` | one SFTP session with a file and a request, 2 host keys | 23 626 | `ClientTypeOK`, `CredentialsToExpected`, `EndedIsFreed`, `CallArrives` |
| `transfer` | a reader and a writer, each pipelined or blocking, window 6, reordering, growth | 187 548 | `TypeOK`, `DeliveredInOrder`, `EndedReadIsWhole`, `ReturnedUploadIsStored`, `TransfersEnd`, `LossWithRoomEndsTransfers` |
| `transfer_spin` | the same without growth and reordering | - | violates `LossEndsTransfers` (section 6) |
| `stress` | 3 workers of 2 iterations, 1 permit, `MaxSessions` 2, 1 failure, every topology | 689 249 | `PermitsConserved`, `NoLostWakeup`, `VerificationNeverRefused`, `CleanExitMeansVerified`, `CountedIsReal`, `CleanupAlone`, `ServedInOrder`, `RunEnds` |
| `connect_addresses` | 4 addresses | 394 | `TypeOK`, `OneDescriptor`, `AddressesLive`, `FailsOnlyWhenRefused`, `AttemptEnds` |
| `remote_tree` | 6 paths, a creation, 2 removals, uploads | 348 522 | `TypeOK`, `UndisturbedRemovalIsWhole`, `CreatedExists`, `RemovesOnlyBelow` |
| `path_operations` | 3 callers of 2 sessions, 2 paths, 2 files, 3 attributes in 2 groups | 851 513 (symmetry) | `TypeOK`, `LostOnlyToOvertaken`, `ExistsIsTrue`, `WritesWhatItRead` |
| `created_directory` | 6 paths, a creation alone | - | violates `CreatedIsDirectory` (section 6) |

Why the bounds are enough.

- *Session.* Every action concerns one object and the objects it was opened through or
  that were opened through it.  Two siblings at a level show that closing one spares the
  other; the constraint `MCOneSibling` leaves either a second file or a second SFTP session
  and directories beside the first file, since siblings at two levels add no new case.  Each
  identifier is used once, so every dictionary can be full, half empty and empty again.
  The theorems of section 5 remove the bound.
- *Client.* The life of a call does not depend on how many handles its body opens; the
  theorems hold for all.  Two keys are needed for a mismatch.
- *Transfers.* Pieces of two bytes over a file of three or four give a short last piece,
  a range that starts inside the file and ends past it, and two requests in flight.  A window
  of 6 with 1 of overhead takes one write (3) and three reads, or two writes, so each waits
  for the other's room; the smallest that `WindowAssumption` allows with a threshold of 4,
  at which the server keeps up to 3 back.  `Window`, `Threshold`, `QueueSize`, `BufferSize`,
  `Size`, `From`, `Length` and `Growth` are the bounds.  Two appended bytes reach past the
  short piece and into the next.  `transfer` checks liveness with reordering as well: a
  transfer sends finitely many requests, so that the server cannot pass one over for ever.
- *Stress.* With one permit, one of three workers holds it while two wait, so the order of
  the queue matters and a permit on its way back meets a queue and a running command.
  `MaxSessions` 2 leaves room for the control client and one command, and refuses the third
  worker of `perWorkerSftp`.  One failure is enough to cancel the others at every step; the
  second iteration is reached after a failed and after a good one.  `Iterations` and
  `Faults` are the bounds; `StressProofs` removes them.
- *Path operations.* Two callers of one session and one of another: calls that exclude and
  calls that overtake each other.  Two attributes that share a flag and one alone.  Two
  paths, either of which may lead to the other, and every assignment of files and links.
- *Connecting.* With four addresses one can be refused, one be waited for, one be given up
  and one remain.
- *Remote tree.* Three levels and two entries in one directory: a reply may hold one entry
  or both, a removal recurses twice, and there is a directory outside with an entry that a
  link leads to.  Runs start from each of the 155 trees over the six paths in which only
  directories have entries and links do not lead to or around themselves.  The creation is
  below the first removal, the second removal is below the first and above the creation, so
  that each can get in the way of the others.

`OwnersRegistered`, `StressTypeOK` and the types of `HandleTree` are proved (section 5) and not run
as well: no change in the Swift code, whose handles and results are of different types, could
break the last.

Every property has a mutant: a plausible bug in one definition under which the run finds
the property violated.  The mutated forms stand before their originals in the modules.

`CHECK_DEADLOCK FALSE` is set where the system may stop: when every transfer is done, when
a client's call ended without a client given out, when the socket was freed, when all
creations and removals or all path operations have returned, when the stress command ended.

## 4. Fairness

- `SFTPTransfer`: a transfer that can take a step does (`Read`, `Upload` or `Loop`, with
  `Leave`: they are Swift tasks, and the actor serves its callers), and the server handles
  what it receives (`Serve`).  A reader counts on its consumer calling `next` again, as the loop in
  `download` does.  Cancelling, closing and losing the connection are not fair.
- `SSHClient`: the task of the call runs; `Configure` happens a bounded number of times
  (three options), hence fairness on leaving it.  A body may run for ever, so `CallArrives`
  ends at it.
- `StressWorkers`: every task runs on when it can (a worker, the task of `run`, the
  reporter, the tasks that return permits), which includes that calls of the library return
  (`TransfersEnd`; the findings of section 6 are the exception) and that `md5sum` ends.
  `RunEnds` needs no strong fairness, since the queue of the limiter is first in, first out
  (`ServedInOrder`) and the iterations are bounded.
- `SSHConnect`: the loop runs, and waiting ends by an answer or by the timeout that
  `SSHClient` sets.
- `SSHSession`, `HandleTree`, `RemoteTree` and `PathOperations` assume none: nobody has to call
  anything, and only safety is stated of a call.

## 5. Proofs

Every safety invariant, action property and refinement that the passing runs check is a
theorem, for every value of the constants under the assumptions named in the modules:

| assumption | says | why the code justifies it |
|---|---|---|
| `KindsAreDisjoint` | identifiers of different kinds differ | they are different Swift types |
| `HandleTreeAssumption` | `Ancestors` is a strict order | each handle is opened through one that was there |
| `NoKeyAssumption` | that no key was seen yet is not a key | it stands for nil |
| `LimiterAssumption` | finitely many workers, a positive limit | the command line |
| `StressAssumption` | the limit lies below `MaxSessions` | their defaults do |
| `CountAssumption` | a host has an address | `getaddrinfo` succeeded |
| `PathOperationsAssumption` | each call has a session, each attribute a group | the types of the constants |
| `TransferAssumption`, `WindowAssumption` | positive buffers, queues and overhead; the server keeps back less than leaves room for a request | the limits come from the server, and OpenSSH's threshold is far smaller |
| `TreeAssumption` | paths are sequences of names, and `Path` has the parents of what it has | the shape of a file system |

- **SSHSessionProofs**: `TypeCorrect`, `NoDanglingPointer`, `NoLeak`, `OwnedByOpen`.  None of
  the invariants is inductive alone: that a close is legal follows from the heap having what the
  registries say, and that only from every earlier call having been legal.  `IInv` says it at
  once: the heap is the `Mirror` of the registries with no garbage and no misuse but the one of
  section 6, a request is in flight for each registered slot whose identifier a caller has, and
  each object has its owners.  One lemma per libssh function says what it does to a mirrored
  heap, one per group of actions that `IInv` survives it. Its second part is `Refinement` (`Spec
  => Tree!Spec` with the registries as the open handles), and `LossReported`: under `IInv` every
  action of the actor is one of `Open`, `Use`, `Close`, `Consume` or a stutter.
- **HandleTreeProofs**: `TreeTypeCorrect`, `NoOrphans` and `ClosedStaysClosed` of the
  abstract tree; with `Refinement` they hold of the actor.
- **SSHClientProofs**: the lemma `Uses` makes the session's theorems available
  (`SessionIsSound`); it holds by the way the steps of a client are put together from those of
  its session, and says nothing of its own about the code.  `ClientTypeCorrect` and
  `OnlyToExpected` rest on `CInv`, which remembers that a call past the verification has the
  expected key. `FreedAtTheEnd` adds that a session once freed stays so.
- **StressProofs**: first the limiter alone: `Conserved`, `Woken`, `Limited`, `InOrder`. The
  bounds of the type invariant are not inductive; they follow from conservation. `InOrder` holds
  because the pool is empty while anybody waits.  Then the command, whose steps are put together
  from the limiter's (the lemma `Uses`), so that the limiter's invariant holds under it, and
  with it `NeverRefused`. `StressTypeCorrect`, `SuccessIsVerified`, `CountsAreReal` and
  `CleansUpLast` rest on `SInv`.  That success means verified is not inductive: `WorkerInv` says
  how many digests a worker must have compared at each of its steps (`Due`), and that as long as
  nothing was counted they all matched; `TaskInv` that the task of `run` goes past its workers
  only when they rest, which connections it then has, and that without a failure it has
  collected every one of them.
- **PathOperationsProofs**: `TypeCorrect`, `OnlyOvertakenUndo`, `ExistsTold`, `WritesBack`.
  `Held` says that of the calls of one session at most one is between its requests, so that
  whatever changes on the server meanwhile comes from another session and overtakes it;
  `ReadIsCurrent` and `FoundIsCurrent` that a call that was not overtaken finds at its
  second request what it found at its first.
- **SSHConnectProofs**: `SocketTypeCorrect`, `NoDescriptorLeaks`, `EveryAddressRefused` and
  `AddressesOutliveLoop`.  `LoopInv` says that all addresses before `itr` were refused, up
  to the first that is in progress; `ConnectingInv` that those before the descriptor's were.
- **SFTPTransferProofs**: `TransferTypeCorrect`, `ReadsInOrder`, `EndedReadsAreWhole`,
  `ReturnedUploadsAreStored`.  None is inductive, since what a reader delivers is what an
  answer said, and that passed through the server, the socket and another task's wait.
  `NetworkInv` follows a request on this way: each answer, wherever it is, is `Accurate`
  about the file or is an error (`AnswersInv`), and the room in the window, what the server
  owes and the cost of what is in flight never exceed `Window` (`WindowInv`).  `QueueInv`
  says that the requests in a transfer's queue ask for one stretch of its file without a
  gap, which ends at libssh's offset; `ReaderInv` and `WriterInv` that what lies before the
  oldest of them is delivered or stored, except that an answer which came short, or an
  error, ends the transfer.  `BusyInv` says who may hold the actor.  The room that arrives
  with the answers is a sum over a sequence (`Total`, a recursive function); its lemmas are
  proved by taking the least counterexample (`NatLessThanWellFounded`), since the
  library's induction theorems cannot be used.
- **RemoteTreeProofs**: `RemoteTypeCorrect`, `CreatedDirectoriesExist`,
  `UndisturbedRemovalsAreWhole`, `RemovalsStayBelow`.  The lemmas on paths come first: in a
  well-formed tree at most one prefix of a path is a link (`OnlyLink`) and what exists is
  found where its path says (`FoundExisting`).  `IInv` then has, for each removal: `Stacked`,
  the directories it reads lie one in another, each one name longer; `Straight`, there is no
  link on the way from the path it was given to any of them, so that it went down into real
  directories only; `Based`, it began where its path leads as long as that path has a link,
  and once the link is gone, it is some removal that took it, and with it everything behind;
  `Whole`, as long as nobody gets in its way, whatever lies in a directory that it reads is
  due, listed and not handled yet, or being handled (`Faithful`).  `Based` is what
  `RemovalsStayBelow` needs: a path may lead somewhere else after a link on it is removed,
  and what is then removed behind it still lies in a directory that a removal was given.
  `TreeStep` says what any step does to the tree as far as other calls notice it; each
  action is shown to satisfy it, and one lemma (`KeptRemoving`) that such a step leaves
  the invariant of every other removal.

TLC checked each inductive invariant on the instance of the run before it was proved.

Only model-checked: liveness (`TransfersEnd`, `LossWithRoomEndsTransfers`, `RunEnds`,
`CallArrives`, `AttemptEnds`), which needs `ENABLED` and so is out of this prover's reach.
The runs that end in a violation (section 6) are TLC's too.

## 6. Where the code and its documents disagree

- **A file is closed with requests in flight** (`session_waits`).  `closeFile`
  (`LibSSH.swift:654-660`) closes the file and then frees the slots of requests that were
  begun and never waited for, as happens when a stream is left early or a transfer throws.
  libssh's `sftp.h:675-677` says the file "must not be closed before the corresponding call
  to sftp_aio_wait_read()".  No pointer dangles in it (`NothingDangles`).
- **A transfer may spin after the connection is lost** (`transfer_spin`).  `beginRead` and
  `beginWrite` look at the channel window before libssh looks at the connection
  (`LibSSH.swift:785, 820`); a transfer with nothing in flight answers nil by yielding and
  asking again (`SFTPFile.swift:50-54, 83-91`).  If the connection is lost while the window
  is full, nobody reads the socket any more and it asks for ever.  A test says that an
  operation on a file after the connection dropped throws.  `LossWithRoomEndsTransfers`
  shows that with room in the window it does.
- **A failed `createSftp` reads the status of a freed session** (`session_open`).
  `validate` runs its clean-up before `error(sftp:)` (`LibSSH.swift:304-320`), and the
  clean-up `createSftp` passes when `sftp_init` or `sftp_limits` fails is `sftp_free`
  (`LibSSH.swift:490-491`).  Unless the session's error code is `SSH_FATAL`,
  `sftp_get_error` is then given the session that was deallocated (`sftp.h:285, 310`), and
  the error that is thrown depends on what it finds there: the model lets it find a status
  or none.  It is the one call with a dangling pointer, and `NothingDangles` excepts it by
  name.
- **A created directory may be a file** (`created_directory`). `createDirectoryRecursively`
  takes `fileAlreadyExists` for success at every level, the last included
  (`SFTPClient.swift:32`), so it returns when its path is a regular file. The tests take the
  return to mean that a directory is there (`SFTPClientTests.swift:527`, of a path that was a
  directory before; none is given a file).  On the way down the same mistake is harmless: the
  next level then fails.

These behaviours are modelled as they are and contradict no document: a stream counts what it
asks for (`SFTPFile.swift:55`) and libssh moves its offset by as much, so that when a file grows
after a request at its end was answered short, the stream goes on behind the bytes that came
(`DeliveredInOrder` excepts it; `SFTPFile.read`, which counts what it got, has no gap); a
removal that is given a link to a directory empties that directory; a call on an SFTP session,
or any call after a refusal, that finds the connection gone may report the earlier status or
refusal, unless libssh recorded the loss as fatal (`LostLinkIsReported` names the two cases); a
cancelled `download` returns normally with part of the file, so that the cancelled workers of a
stress run may count mismatches that are none (`CountedIsReal` excepts them); an address that
never answers uses up the whole timeout of `ssh_connect`, so that the addresses after it are not
tried; a `setStat` that another session overtakes writes back what it had read; and no step of
an upload looks at cancellation, so that `abort` of an upload in `Stress.swift:217` waits for
the whole file.

## 7. Not modelled

- Argument parsing, progress and rates: nothing depends on them.  Key parsing and the
  conversions of `SFTPAttributes` and `SSHExitStatus`: no state.
- `stress-tree` (`StressTree.swift`), whose workers call the operations that `RemoteTree`,
  `PathOperations` and `SFTPTransfer` model, each in directories of its own; its `run` and
  its handling of errors are those of `StressWorkers`.  The stress command also leaves the
  control connection open when the remote directory cannot be made (`Stress.swift:120`),
  which `CleanupAlone` excepts; the process ends there.
- The inside of libssh apart from the patch: it is a prebuilt library.  The largest part of
  its headers is an interface that the Swift code never calls (the server side, callbacks,
  agent and port forwarding, known hosts, asynchronous SFTP of other kinds), so that only a
  small share of their lines is modelled.
- The order of exit status and output in `SSHClient.execute`: whether a command with more
  output than the window ever exits depends on how libssh grows a channel's window, which
  its headers do not say.
- Several transfers on one `SFTPFile`: they share libssh's offset, and nothing says what
  they may expect of each other.
- Idealised in the environment: the request that closes a file takes no room in the window
  of `SFTPTransfer` (`Leave`), and a server of `PathOperations` changes no attribute but those
  it is asked to (a change of the size that touches the time, of the owner that clears mode
  bits).  No property depends on either.
- `RemoteTree` has no links made while a removal runs (an entry listed as a directory could
  then be replaced by a link before it is opened).  `RemoteTree` and `PathOperations` are
  separate: nothing is renamed while directories are removed, and attributes have no effect
  on what is allowed.

## 8. Plan

The modules came in this order, the most important behaviour first: `HandleTree`,
`SSHSession` and their refinement; `SFTPTransfer`; `ChannelLimiter`; `SSHConnect`;
`SSHClient` over `SSHSession`; `RemoteTree`; the blocking loops and the growing file in
`SFTPTransfer`; `PathOperations`; `StressWorkers` over `ChannelLimiter`; each with its proofs
where section 5 has them.  All the safety properties of the runs are proved.  What is left:

1. An abstract specification of a transfer (a file whose bytes are delivered or stored in
   order) that `SFTPTransfer` implements, with the refinement proved from its `IInv`.
2. Links that are made while a removal runs, in `RemoteTree`: `RemovesOnlyBelow` then fails
   where an entry is replaced between its listing and its opening, and the question is what
   still holds.
3. The rest of `SSHClient.execute`, once libssh's part in it can be stated from a document.
