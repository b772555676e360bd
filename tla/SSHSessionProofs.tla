-------------------------- MODULE SSHSessionProofs --------------------------
(***************************************************************************)
(* Proofs about SSHSession, for every set of identifiers.                  *)
(***************************************************************************)
EXTENDS SSHSession, TLAPS

\* A heap without further misuse: sftp sessions P, their pipes W, channels C,
\* files F, directories D, slots A with requests Q.
Objects(S, C, P, W, F, D, A, Q) ==
    [session |-> S, channels |-> C, sftps |-> P, pipes |-> W, files |-> F, directories |-> D,
     slots |-> A, garbage |-> {}, requests |-> Q, misuse |-> heap.misuse]

\* Every sftp session has its pipe.
Libssh(S, C, P, F, D, A, Q) == Objects(S, C, P, P, F, D, A, Q)

Mirror(Q) == Libssh(session, channels, sftps, files, directories, aios, Q)

\* What the types of the other variables are.
TypesOK ==
    /\ session \in BOOLEAN
    /\ channels \subseteq SSHChannelID /\ sftps \subseteq SFTPClientID
    /\ files \subseteq SFTPFileID /\ directories \subseteq SFTPDirectoryID
    /\ aios \subseteq SFTPAioID
    /\ held \subseteq Handle
    /\ link \in {"idle", "up", "down"}
    /\ code \in {"ok", "denied", "fatal"}
    /\ last \in [handle : Handle, result : Result]

\* The inductive invariant: the heap mirrors the registries, a request is in
\* flight for each slot whose identifier a caller has, and each registered
\* object has its owners.
IInv ==
    /\ TypesOK
    /\ heap = Mirror(heap.requests)
    /\ heap.requests \subseteq aios
    /\ aios \cap held \subseteq heap.requests
    /\ OwnersRegistered
    /\ NothingDangles

-----------------------------------------------------------------------------
(* What libssh does with live pointers. *)

LEMMA Requests == ASSUME NEW S, NEW C, NEW P, NEW F, NEW D, NEW A, NEW Q
  PROVE Libssh(S, C, P, F, D, A, Q).requests = Q
  BY DEF Libssh, Objects

LEMMA NewChannel ==
  ASSUME NEW S, NEW C, NEW P, NEW F, NEW D, NEW A, NEW Q, NEW id
  PROVE ssh_channel_new(Libssh(S, C, P, F, D, A, Q), id)
            = Libssh(S, C \cup {id}, P, F, D, A, Q)
<1> DEFINE h == Libssh(S, C, P, F, D, A, Q)
           X == C \cup {id}
<1>1. h.channels = C
  BY DEF Libssh, Objects
<1>3. [h EXCEPT !.channels = X] = Libssh(S, X, P, F, D, A, Q)
  <2> HIDE DEF X
  <2> QED BY DEF Libssh, Objects
<1> QED BY <1>1, <1>3 DEF ssh_channel_new

LEMMA NewFile ==
  ASSUME NEW S, NEW C, NEW P, NEW F, NEW D, NEW A, NEW Q, NEW id, id.sftpId \in P
  PROVE sftp_open(Libssh(S, C, P, F, D, A, Q), id)
            = Libssh(S, C, P, F \cup {id}, D, A, Q)
<1> DEFINE h == Libssh(S, C, P, F, D, A, Q)
           X == F \cup {id}
<1>1. h.sftps = P /\ h.pipes = P /\ h.files = F
  BY DEF Libssh, Objects
<1>2. Call(h, "sftp_open", SftpAlive(h, {id.sftpId})) = h
  BY <1>1 DEF Call, SftpAlive
<1>3. [h EXCEPT !.files = X] = Libssh(S, C, P, X, D, A, Q)
  <2> HIDE DEF X
  <2> QED BY DEF Libssh, Objects
<1> QED BY <1>1, <1>2, <1>3 DEF sftp_open

LEMMA NewDirectory ==
  ASSUME NEW S, NEW C, NEW P, NEW F, NEW D, NEW A, NEW Q, NEW id, id.sftpId \in P
  PROVE sftp_opendir(Libssh(S, C, P, F, D, A, Q), id)
            = Libssh(S, C, P, F, D \cup {id}, A, Q)
<1> DEFINE h == Libssh(S, C, P, F, D, A, Q)
           X == D \cup {id}
<1>1. h.sftps = P /\ h.pipes = P /\ h.directories = D
  BY DEF Libssh, Objects
<1>2. Call(h, "sftp_opendir", SftpAlive(h, {id.sftpId})) = h
  BY <1>1 DEF Call, SftpAlive
<1>3. [h EXCEPT !.directories = X] = Libssh(S, C, P, F, X, A, Q)
  <2> HIDE DEF X
  <2> QED BY DEF Libssh, Objects
<1> QED BY <1>1, <1>2, <1>3 DEF sftp_opendir

LEMMA NewSlot ==
  ASSUME NEW S, NEW C, NEW P, NEW F, NEW D, NEW A, NEW Q, NEW id
  PROVE newSlot(Libssh(S, C, P, F, D, A, Q), id)
            = Libssh(S, C, P, F, D, A \cup {id}, Q)
<1> DEFINE h == Libssh(S, C, P, F, D, A, Q)
           X == A \cup {id}
           G == {id}
           unset == [session |-> S, channels |-> C, sftps |-> P, pipes |-> P, files |-> F,
                     directories |-> D, slots |-> X, garbage |-> G, requests |-> Q,
                     misuse |-> heap.misuse]
<1>1. h.slots = A /\ h.garbage \cup {id} = G
  BY DEF Libssh, Objects
<1>2. [h EXCEPT !.slots = X, !.garbage = G] = unset
  <2> HIDE DEF X, G
  <2>1. [h EXCEPT !.slots = X] = Libssh(S, C, P, F, D, X, Q)
    BY DEF Libssh, Objects
  <2>2. [Libssh(S, C, P, F, D, X, Q) EXCEPT !.garbage = G] = unset
    BY DEF Libssh, Objects
  <2>3. [h EXCEPT !.slots = X, !.garbage = G] = [[h EXCEPT !.slots = X] EXCEPT !.garbage = G]
    OBVIOUS
  <2> QED BY <2>1, <2>2, <2>3
<1>3. allocate(h, id) = unset
  BY <1>1, <1>2 DEF allocate
<1>4. unset.garbage \ {id} = {}
  OBVIOUS
<1>5. [unset EXCEPT !.garbage = {}] = Libssh(S, C, P, F, D, X, Q)
  <2> HIDE DEF X, G
  <2> QED BY DEF Libssh, Objects
<1>6. initialize(unset, id) = Libssh(S, C, P, F, D, X, Q)
  <2> HIDE DEF unset
  <2> QED BY <1>4, <1>5 DEF initialize
<1> QED BY <1>3, <1>6 DEF newSlot

LEMMA SendRequest ==
  ASSUME NEW S, NEW C, NEW P, NEW F, NEW D, NEW A, NEW Q, NEW id
  PROVE sendRequest(Libssh(S, C, P, F, D, A, Q), id)
            = Libssh(S, C, P, F, D, A, Q \cup {id})
<1> DEFINE h == Libssh(S, C, P, F, D, A, Q)
           X == Q \cup {id}
<1>1. h.requests = Q
  BY DEF Libssh, Objects
<1>3. [h EXCEPT !.requests = X] = Libssh(S, C, P, F, D, A, X)
  <2> HIDE DEF X
  <2> QED BY DEF Libssh, Objects
<1> QED BY <1>1, <1>3 DEF sendRequest

LEMMA EndRequest ==
  ASSUME NEW S, NEW C, NEW P, NEW F, NEW D, NEW A, NEW Q, NEW id,
         NEW fn, id \in Q, id.fileId \in F, id.fileId.sftpId \in P
  PROVE awaitRequest(Libssh(S, C, P, F, D, A, Q), id, fn)
            = Libssh(S, C, P, F, D, A, Q \ {id})
<1> DEFINE h == Libssh(S, C, P, F, D, A, Q)
           X == Q \ {id}
<1>1. h.sftps = P /\ h.pipes = P /\ h.requests = Q /\ h.files = F
  BY DEF Libssh, Objects
<1>2. Call(h, fn, FileAlive(h, id.fileId) /\ id \in h.requests) = h
  BY <1>1 DEF Call, SftpAlive, FileAlive
<1>3. [h EXCEPT !.requests = X] = Libssh(S, C, P, F, D, A, X)
  <2> HIDE DEF X
  <2> QED BY DEF Libssh, Objects
<1> QED BY <1>1, <1>2, <1>3 DEF awaitRequest

LEMMA SftpNew == ASSUME NEW S, NEW C, NEW P, NEW F, NEW D, NEW A, NEW Q, NEW id
  PROVE sftp_new(Libssh(S, C, P, F, D, A, Q), id) = Libssh(S, C, P \cup {id}, F, D, A, Q)
<1> DEFINE h == Objects(S, C, P, P, F, D, A, Q)
           X == P \cup {id}
<1>1. h.sftps = P /\ h.pipes = P
  BY DEF Objects
<1> HIDE DEF X
<1>2. [h EXCEPT !.sftps = X] = Objects(S, C, X, P, F, D, A, Q)
  BY DEF Objects
<1>3. [Objects(S, C, X, P, F, D, A, Q) EXCEPT !.pipes = X] = Objects(S, C, X, X, F, D, A, Q)
  BY DEF Objects
<1>4. [h EXCEPT !.sftps = X, !.pipes = X] = [[h EXCEPT !.sftps = X] EXCEPT !.pipes = X]
  OBVIOUS
<1> QED BY <1>1, <1>2, <1>3, <1>4 DEF sftp_new, Libssh, X

LEMMA SftpFree == ASSUME NEW S, NEW C, NEW P, NEW F, NEW D, NEW A, NEW Q, NEW ids, ids \subseteq P
  PROVE sftp_free(Libssh(S, C, P, F, D, A, Q), ids) = Libssh(S, C, P \ ids, F, D, A, Q)
<1> DEFINE h == Objects(S, C, P, P, F, D, A, Q)
           X == P \ ids
<1>1. h.sftps = P /\ h.pipes = P
  BY DEF Objects
<1> HIDE DEF X
<1>2. Call(h, "sftp_free", SftpAlive(h, ids)) = h
  BY <1>1 DEF Call, SftpAlive
<1>3. [h EXCEPT !.sftps = X] = Objects(S, C, X, P, F, D, A, Q)
  BY DEF Objects
<1>4. [Objects(S, C, X, P, F, D, A, Q) EXCEPT !.pipes = X] = Objects(S, C, X, X, F, D, A, Q)
  BY DEF Objects
<1>5. [h EXCEPT !.sftps = X, !.pipes = X] = [[h EXCEPT !.sftps = X] EXCEPT !.pipes = X]
  OBVIOUS
<1> QED BY <1>1, <1>2, <1>3, <1>4, <1>5 DEF sftp_free, Libssh, X

LEMMA ChannelFree == ASSUME NEW S, NEW C, NEW P, NEW F, NEW D, NEW A, NEW Q, NEW ids, ids \subseteq C
  PROVE ssh_channel_free(Libssh(S, C, P, F, D, A, Q), ids) = Libssh(S, C \ ids, P, F, D, A, Q)
  BY DEF Libssh, Objects, ssh_channel_free, Call

LEMMA SftpClosedir ==
  ASSUME NEW S, NEW C, NEW P, NEW F, NEW D, NEW A, NEW Q, NEW ids,
         ids \subseteq D, SftpsOf(ids) \subseteq P
  PROVE sftp_closedir(Libssh(S, C, P, F, D, A, Q), ids) = Libssh(S, C, P, F, D \ ids, A, Q)
<1> DEFINE h == Libssh(S, C, P, F, D, A, Q)
           X == D \ ids
<1>1. h.sftps = P /\ h.pipes = P /\ h.directories = D
  BY DEF Libssh, Objects
<1>2. Call(h, "sftp_closedir", SftpAlive(h, SftpsOf(ids)) /\ ids \subseteq h.directories) = h
  BY <1>1 DEF Call, SftpAlive
<1>3. [h EXCEPT !.directories = X] = Libssh(S, C, P, F, X, A, Q)
  <2> HIDE DEF X
  <2> QED BY DEF Libssh, Objects
<1> QED BY <1>1, <1>2, <1>3 DEF sftp_closedir

LEMMA FreeAio == ASSUME NEW S, NEW C, NEW P, NEW F, NEW D, NEW A, NEW Q, NEW as, as \subseteq A
  PROVE freeAio(Libssh(S, C, P, F, D, A, Q), as) = Libssh(S, C, P, F, D, A \ as, Q \ as)
<1> DEFINE h == Objects(S, C, P, P, F, D, A, Q)
           X == A \ as
           Y == Q \ as
<1>1. h.slots = A /\ h.requests = Q /\ h.garbage = {}
  BY DEF Objects
<1>2. Call(h, "sftp_aio_free", as \subseteq h.slots /\ as \cap h.garbage = {}) = h
  BY <1>1 DEF Call
<1> HIDE DEF X, Y
<1>3. sftp_aio_free(h, as) = Objects(S, C, P, P, F, D, A, Y)
  <2>1. [h EXCEPT !.requests = Y] = Objects(S, C, P, P, F, D, A, Y)
    BY DEF Objects
  <2> QED BY <1>2, <2>1, <1>1 DEF sftp_aio_free, Y
<1>4. [Objects(S, C, P, P, F, D, A, Y) EXCEPT !.slots = X] = Objects(S, C, P, P, F, D, X, Y)
  BY DEF Objects
<1>5. Objects(S, C, P, P, F, D, A, Y).slots \ as = X
  BY DEF Objects, X
<1>6. freeAio(h, as) = Objects(S, C, P, P, F, D, X, Y)
  BY <1>3, <1>4, <1>5 DEF freeAio
<1> QED BY <1>6 DEF Libssh, X, Y

LEMMA CloseFiles ==
  ASSUME NEW S, NEW C, NEW P, NEW F, NEW D, NEW Q, NEW ids,
         ids \subseteq F, SftpsOf(ids) \subseteq P
  PROVE closeFiles(Libssh(S, C, P, F, D, aios, Q), ids)
            = Libssh(S, C, P, F \ ids, D, aios \ AiosOf(ids), Q \ AiosOf(ids))
<1>1. sftp_close(Libssh(S, C, P, F, D, aios, Q), ids) = Libssh(S, C, P, F \ ids, D, aios, Q)
  BY DEF Libssh, Objects, sftp_close, Call, SftpAlive
<1>2. AiosOf(ids) \subseteq aios
  BY DEF AiosOf
<1>3. freeAio(Libssh(S, C, P, F \ ids, D, aios, Q), AiosOf(ids))
            = Libssh(S, C, P, F \ ids, D, aios \ AiosOf(ids), Q \ AiosOf(ids))
  BY <1>2, FreeAio
<1> QED BY <1>1, <1>3 DEF closeFiles

LEMMA Disconnect == ASSUME NEW S, S \in BOOLEAN
  PROVE ssh_disconnect(Libssh(S, {}, {}, {}, {}, {}, {})) = Libssh(S, {}, {}, {}, {}, {}, {})
<1> DEFINE h == Objects(S, {}, {}, {}, {}, {}, {}, {})
<1>1. h.session = S
  BY DEF Objects
<1>2. [h EXCEPT !.channels = {}] = h /\ [h EXCEPT !.pipes = {}] = h
  BY DEF Objects
<1>3. [h EXCEPT !.channels = {}, !.pipes = {}] = [[h EXCEPT !.channels = {}] EXCEPT !.pipes = {}]
  OBVIOUS
<1> QED BY <1>1, <1>2, <1>3 DEF ssh_disconnect, Libssh

LEMMA SshFree == ASSUME NEW S, S \in BOOLEAN
  PROVE ssh_free(Libssh(S, {}, {}, {}, {}, {}, {})) = Libssh(FALSE, {}, {}, {}, {}, {}, {})
<1> DEFINE X == FALSE
<1>1. [Libssh(S, {}, {}, {}, {}, {}, {}) EXCEPT !.session = X] = Libssh(X, {}, {}, {}, {}, {}, {})
  <2> HIDE DEF X
  <2> QED BY DEF Libssh, Objects
<1> QED BY <1>1, Disconnect DEF ssh_free

-----------------------------------------------------------------------------
(* What a reply leaves. *)

LEMMA Replies ==
  ASSUME NEW handle \in Handle, NEW result \in Result, Replied(handle, result)
  PROVE  last' \in [handle : Handle, result : Result]
  BY DEF Replied

LEMMA Failing ==
  ASSUME TypesOK, NEW handle \in Handle, NEW sftp, NEW opening, Fails(handle, sftp, opening)
  PROVE  /\ link' \in {"idle", "up", "down"} 
         /\ code' \in {"ok", "denied", "fatal"}
         /\ last' \in [handle : Handle, result : Result]
  BY DEF Fails, TypesOK, Replied, error, Result

LEMMA Unreporting ==
  ASSUME TypesOK, NEW handle \in Handle, NEW asked, Unreported(handle, asked)
  PROVE  /\ link' \in {"idle", "up", "down"}
         /\ code' \in {"ok", "denied", "fatal"}
         /\ last' \in [handle : Handle, result : Result]
  BY DEF Unreported, TypesOK, Replied, Result

\* How every step is shown to preserve the invariant: by naming the requests
\* it leaves in flight.
LEMMA Preserved ==
  ASSUME IInv, NEW Q, TypesOK',
         heap' = Libssh(session', channels', sftps', files', directories', aios', Q),
         Q \subseteq aios', aios' \cap held' \subseteq Q, OwnersRegistered'
  PROVE IInv'
<1>1. heap'.requests = Q /\ heap'.misuse = heap.misuse
  BY DEF Libssh, Objects
<1>2. heap' = Mirror(heap.requests)'
  BY <1>1 DEF Mirror, Libssh, Objects
<1> QED BY <1>1, <1>2 DEF IInv, NothingDangles

\* The objects behind registered identifiers are alive.
LEMMA Alive ==
  ASSUME IInv
  PROVE  /\ heap.channels = channels
         /\ heap.directories = directories
         /\ heap.slots = aios
         /\ \A id \in sftps : SftpAlive(heap, {id})
         /\ \A f \in files : FileAlive(heap, f)
         /\ \A d \in directories : SftpAlive(heap, {d.sftpId})
<1>1. heap.channels = channels /\ heap.sftps = sftps /\ heap.pipes = sftps /\ heap.files = files
        /\ heap.directories = directories /\ heap.slots = aios
  BY DEF IInv, Mirror, Libssh, Objects
<1> QED BY <1>1 DEF IInv, OwnersRegistered, SftpAlive, FileAlive

LEMMA Quiet ==
  ASSUME IInv, UNCHANGED <<registry, held, heap>>,
         link' \in {"idle", "up", "down"}, code' \in {"ok", "denied", "fatal"},
         last' \in [handle : Handle, result : Result]
  PROVE  IInv'
  BY DEF IInv, TypesOK, registry, Mirror, Libssh, Objects, OwnersRegistered, NothingDangles

\* A call that changes no object.
LEMMA Answering ==
  ASSUME IInv, UNCHANGED <<registry, held, heap>>, NEW handle \in Handle, NEW sftp, NEW opening,
         NEW result \in Result,
         \/ Succeeds(handle, result)
         \/ Fails(handle, sftp, opening)
         \/ Locally(handle, result)
  PROVE  IInv'
<1>1. TypesOK
  BY DEF IInv
<1>2. /\ link' \in {"idle", "up", "down"}
      /\ code' \in {"ok", "denied", "fatal"}
      /\ last' \in [handle : Handle, result : Result]
  BY <1>1, Replies, Failing DEF Succeeds, Locally, TypesOK
<1> QED BY <1>2, Quiet

LEMMA Closed ==
  ASSUME IInv, NEW handle \in Handle, RepliedClosed(handle)
  PROVE  IInv'
<1>1. "closed" \in Result
  BY DEF Result
<1> QED BY <1>1, Answering DEF RepliedClosed, Locally

-----------------------------------------------------------------------------
(* One lemma per action, or group of actions alike. *)

LEMMA SessionKept ==
  ASSUME IInv, LoseConnection \/ setOption \/ connect \/ serverHostKey \/ authenticate
  PROVE  IInv'
<1>0. Session \in Handle /\ {"ok", "invalidState", "connectionFailed", "closed"} \subseteq Result
  BY DEF Handle, Result
<1>1. CASE LoseConnection
  BY <1>1, Quiet DEF LoseConnection, IInv, TypesOK
<1>2. CASE setOption
  BY <1>0, <1>2, Answering DEF setOption, Locally
<1>3. CASE connect
  <2>1. CASE code' = code
    BY <1>0, <1>3, <2>1, Quiet, Replies DEF connect, IInv, TypesOK, error, Result
  <2>2. CASE code' # code
    BY <1>0, <1>3, <2>2, Quiet, Replies DEF connect, IInv, TypesOK, error, Result
  <2> QED BY <2>1, <2>2
<1>4. CASE serverHostKey
  BY <1>0, <1>4, Answering DEF serverHostKey
<1>5. CASE authenticate
  BY <1>0, <1>5, Answering, Closed DEF authenticate
<1> QED BY <1>1, <1>2, <1>3, <1>4, <1>5

LEMMA UseKept ==
  ASSUME IInv,
         \/ \E id \in SSHChannelID : useChannel(id)
         \/ \E id \in SFTPClientID : pathOperation(id)
         \/ \E id \in SFTPFileID : useFile(id) \/ seekFile(id)
         \/ \E id \in SFTPDirectoryID : readDirectory(id)
  PROVE  IInv'
<1>0. {"ok", "none", "done"} \subseteq Result
  BY DEF Result
<1>1. ASSUME NEW id \in SSHChannelID, useChannel(id) PROVE IInv'
  <2>1. id \in Handle
    BY DEF Handle
  <2>2. CASE Lookup(id, channels)
    <3>1. heap' = heap
      BY <1>1, <2>2, Alive DEF useChannel, Call, Lookup
    <3> QED BY <1>0, <1>1, <2>1, <2>2, <3>1, Answering DEF useChannel
  <2> QED BY <1>1, <2>1, <2>2, Closed DEF useChannel
<1>2. ASSUME NEW id \in SFTPClientID, pathOperation(id) PROVE IInv'
  <2>1. id \in Handle
    BY DEF Handle
  <2>2. CASE Lookup(id, sftps)
    <3>1. heap' = heap
      BY <1>2, <2>2, Alive DEF pathOperation, Call, Lookup
    <3> QED BY <1>0, <1>2, <2>1, <2>2, <3>1, Answering DEF pathOperation
  <2> QED BY <1>2, <2>1, <2>2, Closed DEF pathOperation
<1>3. ASSUME NEW id \in SFTPFileID, useFile(id) PROVE IInv'
  <2>1. id \in Handle
    BY DEF Handle
  <2>2. CASE Lookup(id, files) /\ Lookup(id.sftpId, sftps)
    <3>1. heap' = heap
      BY <1>3, <2>2, Alive DEF useFile, Call, Lookup, FileAlive
    <3> QED BY <1>0, <1>3, <2>1, <2>2, <3>1, Answering DEF useFile
  <2> QED BY <1>3, <2>1, <2>2, Closed DEF useFile
<1>4. ASSUME NEW id \in SFTPFileID, seekFile(id) PROVE IInv'
  <2>1. id \in Handle
    BY DEF Handle
  <2>2. CASE Lookup(id, files) /\ Lookup(id.sftpId, sftps)
    <3>1. heap' = heap
      BY <1>4, <2>2, Alive DEF seekFile, Call, Lookup, FileAlive
    <3> QED BY <1>0, <1>4, <2>1, <2>2, <3>1, Answering DEF seekFile
  <2> QED BY <1>4, <2>1, <2>2, Closed DEF seekFile
<1>5. ASSUME NEW id \in SFTPDirectoryID, readDirectory(id) PROVE IInv'
  <2>1. id \in Handle
    BY DEF Handle
  <2>2. CASE Lookup(id.sftpId, sftps) /\ Lookup(id, directories)
    <3>1. heap' = heap
      BY <1>5, <2>2, Alive DEF readDirectory, Call, Lookup
    <3> QED BY <1>0, <1>5, <2>1, <2>2, <3>1, Answering DEF readDirectory
  <2> QED BY <1>5, <2>1, <2>2, Closed DEF readDirectory
<1> QED BY <1>1, <1>2, <1>3, <1>4, <1>5

LEMMA FreeSftpKept ==
  ASSUME IInv, NEW id \in SFTPClientID, freeSftp(id)
  PROVE  IInv'
<1>0. id \in Handle
  BY DEF Handle
<1>1. CASE id \in sftps
  <2> DEFINE fs == FilesOf(id)
             ds == DirectoriesOf(id)
             Q == heap.requests \ AiosOf(fs)
  <2>1. /\ fs \subseteq files /\ SftpsOf(fs) \subseteq sftps
        /\ ds \subseteq directories /\ SftpsOf(ds) \subseteq sftps
    BY <1>1 DEF FilesOf, DirectoriesOf, SftpsOf
  <2>2. closeFiles(heap, fs) = Libssh(session, channels, sftps, files \ fs, directories, aios \ AiosOf(fs), Q)
    BY <2>1, CloseFiles DEF IInv, Mirror
  <2>3. sftp_closedir(closeFiles(heap, fs), ds)
         = Libssh(session, channels, sftps, files \ fs, directories \ ds, aios \ AiosOf(fs), Q)
    BY <2>1, <2>2, SftpClosedir
  <2>4. heap' = Libssh(session, channels, sftps \ {id}, files \ fs, directories \ ds, aios \ AiosOf(fs), Q)
    BY <1>1, <2>3, SftpFree DEF freeSftp
  <2>5. heap' = Libssh(session', channels', sftps', files', directories', aios', Q)
    BY <1>1, <2>4 DEF freeSftp, Mirror
  <2>6. TypesOK'
    BY <1>0, <1>1, Unreporting DEF IInv, TypesOK, freeSftp
  <2>7. OwnersRegistered'
    BY <1>1 DEF IInv, OwnersRegistered, freeSftp, FilesOf, DirectoriesOf, AiosOf
  <2>8. Q \subseteq aios' /\ aios' \cap held' \subseteq Q
    BY <1>1 DEF IInv, freeSftp
  <2> QED BY <2>5, <2>6, <2>7, <2>8, Preserved
<1>2. CASE id \notin sftps
  <2>1. heap' = Libssh(session', channels', sftps', files', directories', aios', heap.requests)
    BY <1>2 DEF freeSftp, IInv, Mirror
  <2>2. TypesOK' 
    BY <1>0, <1>2, Unreporting DEF IInv, TypesOK, freeSftp
  <2>3. OwnersRegistered'
    BY <1>2 DEF IInv, OwnersRegistered, freeSftp
  <2>4. heap.requests \subseteq aios' /\ aios' \cap held' \subseteq heap.requests
    BY <1>2 DEF IInv, freeSftp
  <2> QED BY <2>1, <2>2, <2>3, <2>4, Preserved
<1> QED BY <1>1, <1>2

LEMMA ChannelKept ==
  ASSUME IInv, NEW id \in SSHChannelID, openChannelSession(id) \/ closeChannel(id)
  PROVE  IInv'
<1>0. /\ Session \in Handle /\ id \in Handle
      /\ {"ok", "done", "connectionFailed", "closed", "invalidState"} \subseteq Result
  BY DEF Handle, Result
<1>1. CASE openChannelSession(id)
  <2>1. CASE ~Connected
    BY <1>0, <1>1, <2>1, Answering DEF openChannelSession, registry
  <2>2. CASE /\ Succeeds(Session, "ok") /\ heap' = ssh_channel_new(heap, id)
             /\ channels' = channels \cup {id} /\ held' = held \cup {id}
    <3>2. heap' = Libssh(session', channels', sftps', files', directories', aios', heap.requests)
      BY <1>1, <2>2, NewChannel DEF openChannelSession, IInv, Mirror
    <3>3. TypesOK'
      BY <1>0, <1>1, <2>2, Replies DEF IInv, TypesOK, openChannelSession, Succeeds, Handle
    <3>4. OwnersRegistered'
      BY <1>1, <2>2 DEF IInv, OwnersRegistered, openChannelSession, Connected, Succeeds
    <3>5. id \notin aios
      BY <1>1 DEF openChannelSession, Fresh
    <3> QED BY <1>1, <2>2, <3>2, <3>3, <3>4, <3>5, Preserved DEF IInv, openChannelSession
  <2>3. CASE /\ Fails(Session, FALSE, TRUE) /\ UNCHANGED <<channels, held>>
             /\ heap' = ssh_channel_free(ssh_channel_new(heap, id), {id})
    <3>1. (channels \cup {id}) \ {id} = channels
      BY <1>1 DEF openChannelSession, Fresh
    <3>2. ssh_channel_new(heap, id)
            = Libssh(session, channels \cup {id}, sftps, files, directories, aios, heap.requests)
      BY NewChannel DEF IInv, Mirror
    <3>3. ssh_channel_free(ssh_channel_new(heap, id), {id})
            = Libssh(session, (channels \cup {id}) \ {id}, sftps, files, directories, aios, heap.requests)
      BY <3>2, ChannelFree
    <3>4. heap' = heap
      BY <2>3, <3>3, <3>1 DEF IInv, Mirror
    <3> QED BY <1>0, <1>1, <2>3, <3>4, Answering DEF openChannelSession, registry
  <2>4. CASE Locally(Session, "invalidState") /\ UNCHANGED <<channels, held, heap>>
    BY <1>0, <1>1, <2>4, Answering DEF openChannelSession, registry
  <2> QED BY <1>1, <2>1, <2>2, <2>3, <2>4 DEF openChannelSession
<1>2. CASE closeChannel(id)
  <2>1. heap' = Libssh(session', channels', sftps', files', directories', aios', heap.requests)
    <3>1. CASE id \in channels
      BY <1>2, <3>1, ChannelFree DEF closeChannel, IInv, Mirror
    <3>2. CASE id \notin channels
      BY <1>2, <3>2 DEF closeChannel, IInv, Mirror
    <3> QED BY <3>1, <3>2
  <2>2. TypesOK'
    BY <1>0, <1>2, Replies DEF IInv, TypesOK, closeChannel
  <2>3. OwnersRegistered'
    BY <1>2 DEF IInv, OwnersRegistered, closeChannel
  <2> QED BY <1>2, <2>1, <2>2, <2>3, Preserved DEF IInv, closeChannel
<1> QED BY <1>1, <1>2

\* Reading the status of the freed session changes nothing but the misuse.
LEMMA Explained ==
  ASSUME IInv, UNCHANGED <<registry, held>>, NEW handle \in Handle, Fails(handle, TRUE, FALSE),
         heap' = [heap EXCEPT !.misuse = @ \cup {"sftp_get_error"}]
  PROVE  IInv'
<1> DEFINE Q == heap.requests
           M == heap.misuse \cup {"sftp_get_error"}
           now == [session |-> session, channels |-> channels, sftps |-> sftps, pipes |-> sftps,
                   files |-> files, directories |-> directories, slots |-> aios,
                   garbage |-> {}, requests |-> Q, misuse |-> M]
<1>1. heap = Objects(session, channels, sftps, sftps, files, directories, aios, Q)
  BY DEF IInv, Mirror, Libssh
<1>2. heap' = now
  <2>1. heap' = [heap EXCEPT !.misuse = M]
    OBVIOUS
  <2> HIDE DEF M, Q
  <2> QED BY <1>1, <2>1 DEF Objects
<1>3. heap'.requests = Q /\ heap'.misuse = M
  <2> HIDE DEF M, Q
  <2> QED BY <1>2
<1>4. heap' = Mirror(heap.requests)'
  <2> HIDE DEF M, Q
  <2> QED BY <1>2, <1>3 DEF Mirror, Libssh, Objects, registry
<1>5. TypesOK' /\ OwnersRegistered'
  BY Failing DEF IInv, TypesOK, OwnersRegistered, registry
<1>6. M \subseteq {"sftp_get_error"}
  BY DEF IInv, NothingDangles
<1> QED BY <1>3, <1>4, <1>5, <1>6 DEF IInv, NothingDangles, registry

LEMMA CreateSftpKept ==
  ASSUME IInv, NEW id \in SFTPClientID, createSftp(id)
  PROVE  IInv'
<1>0. /\ Session \in Handle /\ id \in Handle
      /\ {"ok", "connectionFailed", "closed"} \subseteq Result
  BY DEF Handle, Result
<1>1. id \notin sftps /\ id \notin aios
  BY DEF createSftp, Fresh
<1>2. CASE heap' = heap /\ UNCHANGED <<sftps, held>>
  BY <1>0, <1>2, Answering DEF createSftp, registry, Succeeds
<1> DEFINE made == Libssh(session, channels, sftps \cup {id}, files, directories, aios,
                          heap.requests)
<1>3. initialized(id) = made /\ limited(id) = made
  <2>1. sftp_new(heap, id) = made
    BY SftpNew DEF IInv, Mirror
  <2>2. SftpAlive(made, {id})
    BY DEF SftpAlive, Libssh, Objects
  <2> QED BY <2>1, <2>2 DEF initialized, limited, sftp_init, sftp_limits, Call
<1>4. CASE /\ Fails(Session, TRUE, FALSE) /\ UNCHANGED <<sftps, held>>
           /\ \E h \in {initialized(id), limited(id)} : heap' = statusRead(sftp_free(h, {id}), id)
  <2>1. sftp_free(made, {id})
          = Libssh(session, channels, (sftps \cup {id}) \ {id}, files, directories, aios, heap.requests)
    BY SftpFree
  <2>2. (sftps \cup {id}) \ {id} = sftps
    BY <1>1
  <2>3. heap' = statusRead(heap, id)
    BY <1>4, <1>3, <2>1, <2>2 DEF IInv, Mirror
  <2>4. CASE heap' = heap
    BY <1>0, <1>4, <2>4, Answering DEF createSftp, registry
  <2>5. CASE heap' = [heap EXCEPT !.misuse = @ \cup {"sftp_get_error"}]
    BY <1>0, <1>4, <2>5, Explained DEF createSftp, registry
  <2> QED BY <2>3, <2>4, <2>5 DEF statusRead, sftp_get_error, Call
<1>5. CASE /\ Succeeds(Session, "ok") /\ heap' = limited(id)
           /\ sftps' = sftps \cup {id} /\ held' = held \cup {id}
  <2>1. heap' = Libssh(session', channels', sftps', files', directories', aios', heap.requests)
    BY <1>5, <1>3 DEF createSftp
  <2>2. TypesOK'
    BY <1>0, <1>5, Replies DEF IInv, TypesOK, createSftp, Succeeds
  <2>3. OwnersRegistered'
    BY <1>5 DEF IInv, OwnersRegistered, createSftp, Succeeds, Connected
  <2> QED BY <1>1, <1>5, <2>1, <2>2, <2>3, Preserved DEF IInv, createSftp
<1> QED BY <1>2, <1>4, <1>5 DEF createSftp

LEMMA OpenFileKept ==
  ASSUME IInv, NEW id \in SFTPFileID, openFile(id)
  PROVE  IInv'
<1>0. id \in Handle /\ id.sftpId \in Handle /\ "ok" \in Result
  BY DEF Handle, Result, SFTPFileID
<1>1. id \notin aios
  BY DEF openFile, Fresh
<1>2. CASE ~Lookup(id.sftpId, sftps)
  BY <1>0, <1>2, Closed DEF openFile
<1>3. CASE Lookup(id.sftpId, sftps)
  <2>1. Call(heap, "sftp_open", SftpAlive(heap, {id.sftpId})) = heap
    BY <1>3, Alive DEF Call, Lookup
  <2>2. CASE UNCHANGED <<registry, held>> /\ heap' = heap /\ Fails(id.sftpId, TRUE, FALSE)
    BY <1>0, <2>2, Answering
  <2>3. CASE /\ Succeeds(id.sftpId, "ok") /\ files' = files \cup {id} /\ held' = held \cup {id}
             /\ heap' = sftp_open(heap, id)
             /\ UNCHANGED <<session, channels, sftps, directories, aios>>
    <3>0. sftp_open(heap, id)
            = Libssh(session, channels, sftps, files \cup {id}, directories, aios, heap.requests)
      <4>1. id.sftpId \in sftps
        BY <1>3 DEF Lookup
      <4>2. heap = Libssh(session, channels, sftps, files, directories, aios, heap.requests)
        BY DEF IInv, Mirror
      <4>3. sftp_open(Libssh(session, channels, sftps, files, directories, aios, heap.requests), id)
              = Libssh(session, channels, sftps, files \cup {id}, directories, aios, heap.requests)
        BY <4>1, NewFile
      <4> QED BY <4>2, <4>3
    <3>1. heap' = Libssh(session', channels', sftps', files', directories', aios', heap.requests)
      BY <2>3, <3>0
    <3>2. TypesOK'
      BY <1>0, <2>3, Replies DEF IInv, TypesOK, Succeeds
    <3>3. OwnersRegistered'
      BY <1>3, <2>3 DEF IInv, OwnersRegistered, Lookup
    <3> QED BY <1>1, <2>3, <3>1, <3>2, <3>3, Preserved DEF IInv
  <2> QED BY <1>3, <2>1, <2>2, <2>3 DEF openFile
<1> QED BY <1>2, <1>3

LEMMA DirectoryKept ==
  ASSUME IInv, NEW id \in SFTPDirectoryID, openDirectory(id) \/ closeDirectory(id)
  PROVE  IInv'
<1>0. id \in Handle /\ id.sftpId \in Handle /\ {"ok", "done"} \subseteq Result
  BY DEF Handle, Result, SFTPDirectoryID
<1>1. CASE openDirectory(id)
  <2>1. id \notin aios
    BY <1>1 DEF openDirectory, Fresh
  <2>2. CASE ~Lookup(id.sftpId, sftps)
    BY <1>0, <1>1, <2>2, Closed DEF openDirectory
  <2>3. CASE Lookup(id.sftpId, sftps)
    <3>1. Call(heap, "sftp_opendir", SftpAlive(heap, {id.sftpId})) = heap
      BY <2>3, Alive DEF Call, Lookup
    <3>2. CASE UNCHANGED <<registry, held>> /\ heap' = heap /\ Fails(id.sftpId, TRUE, FALSE)
      BY <1>0, <3>2, Answering
    <3>3. CASE /\ Succeeds(id.sftpId, "ok") /\ directories' = directories \cup {id}
               /\ held' = held \cup {id} /\ heap' = sftp_opendir(heap, id)
               /\ UNCHANGED <<session, channels, sftps, files, aios>>
      <4>0. sftp_opendir(heap, id)
              = Libssh(session, channels, sftps, files, directories \cup {id}, aios, heap.requests)
        <5>1. id.sftpId \in sftps
          BY <2>3 DEF Lookup
        <5>2. heap = Libssh(session, channels, sftps, files, directories, aios, heap.requests)
          BY DEF IInv, Mirror
        <5>3. sftp_opendir(Libssh(session, channels, sftps, files, directories, aios, heap.requests), id)
                = Libssh(session, channels, sftps, files, directories \cup {id}, aios, heap.requests)
          BY <5>1, NewDirectory
        <5> QED BY <5>2, <5>3
      <4>1. heap' = Libssh(session', channels', sftps', files', directories', aios', heap.requests)
        BY <3>3, <4>0
      <4>2. TypesOK'
        BY <1>0, <3>3, Replies DEF IInv, TypesOK, Succeeds
      <4>3. OwnersRegistered'
        BY <2>3, <3>3 DEF IInv, OwnersRegistered, Lookup
      <4> QED BY <2>1, <3>3, <4>1, <4>2, <4>3, Preserved DEF IInv
    <3> QED BY <1>1, <2>3, <3>1, <3>2, <3>3 DEF openDirectory
  <2> QED BY <2>2, <2>3
<1>2. CASE closeDirectory(id)
  <2>1. heap' = Libssh(session', channels', sftps', files', directories', aios', heap.requests)
    <3>1. CASE id \in directories
      <4>1. {id} \subseteq directories /\ SftpsOf({id}) \subseteq sftps
        BY <3>1 DEF IInv, OwnersRegistered, SftpsOf
      <4>2. sftp_closedir(heap, {id})
              = Libssh(session, channels, sftps, files, directories \ {id}, aios, heap.requests)
        BY <4>1, SftpClosedir DEF IInv, Mirror
      <4> QED BY <1>2, <3>1, <4>2 DEF closeDirectory
    <3>2. CASE id \notin directories
      BY <1>2, <3>2 DEF closeDirectory, IInv, Mirror
    <3> QED BY <3>1, <3>2
  <2>2. TypesOK'
    BY <1>0, <1>2, Unreporting DEF IInv, TypesOK, closeDirectory
  <2>3. OwnersRegistered'
    BY <1>2 DEF IInv, OwnersRegistered, closeDirectory
  <2> QED BY <1>2, <2>1, <2>2, <2>3, Preserved DEF IInv, closeDirectory
<1> QED BY <1>1, <1>2

LEMMA BeginKept ==
  ASSUME IInv, NEW a \in SFTPAioID, beginRead(a) \/ beginWrite(a)
  PROVE  IInv'
<1>0. a \in Handle /\ a.fileId \in Handle /\ {"ok", "none"} \subseteq Result
  BY DEF Handle, Result, SFTPAioID
<1>1. a \notin aios /\ a \notin held
  BY DEF beginRead, beginWrite, Fresh
<1>2. CASE ~(Lookup(a.fileId, files) /\ Lookup(a.fileId.sftpId, sftps))
  BY <1>0, <1>2, Closed DEF beginRead, beginWrite
<1>3. CASE NoWindow(a)
  BY <1>0, <1>3, Answering DEF NoWindow, Locally
<1>4. CASE Lookup(a.fileId, files) /\ begin(a, newSlot(heap, a))
  <2>1. newSlot(heap, a)
          = Libssh(session, channels, sftps, files, directories, aios \cup {a}, heap.requests)
    BY NewSlot DEF IInv, Mirror
  <2>2. OwnersRegistered'
    BY <1>4 DEF IInv, OwnersRegistered, begin, Lookup
  <2>3. CASE Fails(a.fileId, TRUE, FALSE) /\ held' = held /\ heap' = newSlot(heap, a)
    <3>1. heap' = Libssh(session', channels', sftps', files', directories', aios', heap.requests)
      BY <1>4, <2>1, <2>3 DEF begin
    <3>2. TypesOK'
      BY <1>0, <1>4, <2>3, Failing DEF IInv, TypesOK, begin
    <3> QED BY <1>1, <1>4, <2>2, <2>3, <3>1, <3>2, Preserved DEF IInv, begin
  <2>4. CASE /\ Succeeds(a.fileId, "ok") /\ held' = held \cup {a}
             /\ heap' = sendRequest(newSlot(heap, a), a)
    <3> DEFINE Q == heap.requests \cup {a}
    <3>1. sendRequest(newSlot(heap, a), a)
            = Libssh(session, channels, sftps, files, directories, aios \cup {a}, Q)
      BY <2>1, SendRequest
    <3>2. heap' = Libssh(session', channels', sftps', files', directories', aios', Q)
      BY <1>4, <2>4, <3>1 DEF begin
    <3>3. TypesOK'
      BY <1>0, <1>4, <2>4, Replies DEF IInv, TypesOK, begin, Succeeds
    <3>4. Q \subseteq aios' /\ aios' \cap held' \subseteq Q
      BY <1>4, <2>4 DEF IInv, begin
    <3> QED BY <2>2, <3>2, <3>3, <3>4, Preserved
  <2> QED BY <1>4, <2>3, <2>4 DEF begin
<1>5. CASE Lookup(a.fileId, files) /\ Lookup(a.fileId.sftpId, sftps)
  <2>1. FileAlive(heap, a.fileId)
    BY <1>5, Alive DEF Lookup
  <2> QED BY <1>3, <1>4, <1>5, <2>1 DEF beginRead, beginWrite, Call
<1> QED BY <1>2, <1>5

LEMMA WaitKept ==
  ASSUME IInv, NEW a \in SFTPAioID, waitRead(a) \/ waitWrite(a)
  PROVE  IInv'
<1>0. a \in Handle /\ "ok" \in Result
  BY DEF Handle, Result
<1>1. PICK fn : withFreeingAio(a, fn)
  BY DEF waitRead, waitWrite
<1>2. CASE ~(session /\ a \in aios)
  BY <1>0, <1>1, <1>2, Closed DEF withFreeingAio
<1>3. CASE session /\ a \in aios
  <2> DEFINE Q == heap.requests \ {a}
  <2>1. a \in heap.requests /\ a.fileId \in files /\ a.fileId.sftpId \in sftps
    BY <1>1, <1>3 DEF IInv, OwnersRegistered, withFreeingAio
  <2>2. awaitRequest(heap, a, fn) = Libssh(session, channels, sftps, files, directories, aios, Q)
    BY <2>1, EndRequest DEF IInv, Mirror
  <2>3. freeAio(awaitRequest(heap, a, fn), {a})
          = Libssh(session, channels, sftps, files, directories, aios \ {a}, Q \ {a})
    <3>1. {a} \subseteq aios
      BY <1>3
    <3>2. freeAio(Libssh(session, channels, sftps, files, directories, aios, Q), {a})
            = Libssh(session, channels, sftps, files, directories, aios \ {a}, Q \ {a})
      <4> HIDE DEF Q
      <4> QED BY <3>1, FreeAio
    <3> QED BY <2>2, <3>2
  <2>4. Q \ {a} = Q
    OBVIOUS
  <2>5. heap' = Libssh(session', channels', sftps', files', directories', aios', Q)
    BY <1>1, <1>3, <2>3, <2>4 DEF withFreeingAio
  <2>6. TypesOK'
    BY <1>0, <1>1, <1>3, Replies, Failing DEF IInv, TypesOK, withFreeingAio, Succeeds
  <2>7. OwnersRegistered'
    BY <1>1, <1>3 DEF IInv, OwnersRegistered, withFreeingAio
  <2>8. Q \subseteq aios' /\ aios' \cap held' \subseteq Q
    BY <1>1, <1>3 DEF IInv, withFreeingAio
  <2> QED BY <2>5, <2>6, <2>7, <2>8, Preserved
<1> QED BY <1>2, <1>3

LEMMA CloseFileKept ==
  ASSUME IInv, NEW id \in SFTPFileID, closeFile(id)
  PROVE  IInv'
<1>0. id \in Handle /\ "done" \in Result
  BY DEF Handle, Result
<1> DEFINE Q == heap.requests \ AiosOf({id})
<1>1. heap' = Libssh(session', channels', sftps', files', directories', aios', Q)
  <2>1. CASE id \in files
    <3>1. {id} \subseteq files /\ SftpsOf({id}) \subseteq sftps
      BY <2>1 DEF IInv, OwnersRegistered, SftpsOf
    <3>2. closeFiles(heap, {id})
            = Libssh(session, channels, sftps, files \ {id}, directories, aios \ AiosOf({id}), Q)
      BY <3>1, CloseFiles DEF IInv, Mirror
    <3> QED BY <2>1, <3>2 DEF closeFile
  <2>2. CASE id \notin files
    <3>1. AiosOf({id}) = {}
      BY <2>2 DEF IInv, OwnersRegistered, AiosOf
    <3>2. Q = heap.requests /\ files \ {id} = files /\ aios \ AiosOf({id}) = aios
      BY <2>2, <3>1
    <3> QED BY <2>2, <3>2 DEF closeFile, IInv, Mirror
  <2> QED BY <2>1, <2>2
<1>2. TypesOK'
  BY <1>0, Unreporting DEF IInv, TypesOK, closeFile
<1>3. OwnersRegistered'
  BY DEF IInv, OwnersRegistered, closeFile, AiosOf
<1>4. Q \subseteq aios' /\ aios' \cap held' \subseteq Q
  BY DEF IInv, closeFile
<1> QED BY <1>1, <1>2, <1>3, <1>4, Preserved

LEMMA ReleaseKept ==
  ASSUME IInv, freeUnused \/ close
  PROVE  IInv'
<1>0. Session \in Handle /\ "done" \in Result
  BY DEF Handle, Result
<1>1. AiosOf(files) = aios /\ SftpsOf(files) \subseteq sftps /\ SftpsOf(directories) \subseteq sftps
  BY DEF IInv, OwnersRegistered, AiosOf, SftpsOf
<1>2. closeFiles(heap, files)
        = Libssh(session, channels, sftps, files \ files, directories, aios \ aios, heap.requests \ aios)
  BY <1>1, CloseFiles DEF IInv, Mirror
<1>3. /\ files \ files = {} /\ aios \ aios = {} /\ heap.requests \ aios = {}
      /\ directories \ directories = {} /\ sftps \ sftps = {} /\ channels \ channels = {}
  BY DEF IInv
<1>4. sftp_closedir(closeFiles(heap, files), directories)
        = Libssh(session, channels, sftps, {}, {}, {}, {})
  BY <1>1, <1>2, <1>3, SftpClosedir
<1>5. sftp_free(sftp_closedir(closeFiles(heap, files), directories), sftps)
        = Libssh(session, channels, {}, {}, {}, {}, {})
  BY <1>3, <1>4, SftpFree
<1>6. releaseResources(heap) = Libssh(session, {}, {}, {}, {}, {}, {})
  BY <1>3, <1>5, ChannelFree DEF releaseResources
<1>7. session \in BOOLEAN
  BY DEF IInv, TypesOK
<1>8. heap' = Libssh(FALSE, {}, {}, {}, {}, {}, {})
  BY <1>6, <1>7, Disconnect, SshFree DEF freeUnused, close
<1>9. heap' = Libssh(session', channels', sftps', files', directories', aios', {})
  BY <1>8 DEF freeUnused, close, RegistriesEmptied
<1>10. TypesOK'
  BY <1>0, Replies DEF IInv, TypesOK, freeUnused, close, RegistriesEmptied
<1>11. OwnersRegistered'
  BY DEF OwnersRegistered, freeUnused, close, RegistriesEmptied
<1>12. aios' = {}
  BY DEF freeUnused, close, RegistriesEmptied
<1> QED BY <1>9, <1>10, <1>11, <1>12, Preserved

-----------------------------------------------------------------------------
(* The invariant, and what follows from it. *)

LEMMA InitIInv == Init => IInv
<1> SUFFICES ASSUME Init PROVE IInv
  OBVIOUS
<1>1. heap = Libssh(session, channels, sftps, files, directories, aios, {}) /\ heap.requests = {}
  BY DEF Init, Libssh, Objects
<1>2. NothingDangles
  BY DEF Init, NothingDangles
<1>3. TypesOK /\ OwnersRegistered
  BY DEF Init, TypesOK, OwnersRegistered, Handle, Result
<1> QED BY <1>1, <1>3, <1>2 DEF IInv, Mirror, Init

LEMMA NextIInv == IInv /\ [Next]_vars => IInv'
<1> SUFFICES ASSUME IInv, [Next]_vars PROVE IInv'
  OBVIOUS
<1>1. CASE UNCHANGED vars
  BY <1>1 DEF vars, IInv, TypesOK, Mirror, Libssh, Objects, OwnersRegistered, NothingDangles
<1>2. CASE LoseConnection \/ SessionStep
  BY <1>2, SessionKept, ReleaseKept DEF SessionStep
<1>3. ASSUME NEW id \in SSHChannelID, ChannelStep(id) PROVE IInv'
  BY <1>3, ChannelKept, UseKept DEF ChannelStep
<1>4. ASSUME NEW id \in SFTPClientID, SftpStep(id) PROVE IInv'
  BY <1>4, CreateSftpKept, FreeSftpKept, UseKept DEF SftpStep
<1>5. ASSUME NEW id \in SFTPFileID, FileStep(id) PROVE IInv'
  BY <1>5, OpenFileKept, CloseFileKept, UseKept DEF FileStep
<1>6. ASSUME NEW id \in SFTPDirectoryID, DirectoryStep(id) PROVE IInv'
  BY <1>6, DirectoryKept, UseKept DEF DirectoryStep
<1>7. ASSUME NEW a \in SFTPAioID, AioStep(a) PROVE IInv'
  BY <1>7, BeginKept, WaitKept DEF AioStep
<1> QED BY <1>1, <1>2, <1>3, <1>4, <1>5, <1>6, <1>7 DEF Next

LEMMA IInvImplies == IInv => TypeOK /\ NothingDangles /\ NothingLeaks /\ OwnersRegistered
<1> SUFFICES ASSUME IInv PROVE TypeOK /\ NothingDangles /\ NothingLeaks /\ OwnersRegistered
  OBVIOUS
<1> DEFINE Q == heap.requests
<1>1. heap = Objects(session, channels, sftps, sftps, files, directories, aios, Q)
  BY DEF IInv, Mirror, Libssh
<1>2. Q \subseteq SFTPAioID
  BY DEF IInv, TypesOK
<1>3. heap.misuse \in SUBSET Function
  BY DEF IInv, NothingDangles, Function
<1>4. heap \in Heap
  <2> HIDE DEF Q
  <2> DEFINE M == heap.misuse
  <2>1. heap = [session |-> session, channels |-> channels, sftps |-> sftps, pipes |-> sftps,
                files |-> files, directories |-> directories, slots |-> aios,
                garbage |-> {}, requests |-> Q, misuse |-> M]
    BY <1>1 DEF Objects
  <2>2. M \in SUBSET Function
    BY <1>3
  <2> HIDE DEF M
  <2> QED BY <1>2, <2>1, <2>2 DEF IInv, TypesOK, Heap
<1>5. /\ heap.session = session /\ heap.channels = channels /\ heap.sftps = sftps
      /\ heap.pipes = sftps /\ heap.files = files /\ heap.directories = directories
      /\ heap.slots = aios
  <2> HIDE DEF Q
  <2> QED BY <1>1 DEF Objects
<1> QED BY <1>4, <1>5 DEF IInv, TypesOK, TypeOK, NothingDangles, NothingLeaks, OwnersRegistered

\* SSHSession.IInv is an invariant of every instance.
THEOREM Inductive == Spec => []IInv
  BY InitIInv, NextIInv, PTL DEF Spec

\* Every variable keeps its type, whatever the sets of identifiers.
THEOREM TypeCorrect == Spec => []TypeOK
  BY Inductive, IInvImplies, PTL

\* No method hands libssh a dangling pointer, the status of a failed createSftp
\* apart: the dictionaries, the order of the release loops and the cascades of
\* freeSftp and closeFile suffice.
THEOREM NoDanglingPointer == Spec => []NothingDangles
  BY Inductive, IInvImplies, PTL

\* What libssh has allocated is exactly what the dictionaries name, so no
\* failing open and no close leaks, and a closed session owns nothing.
THEOREM NoLeak == Spec => []NothingLeaks
  BY Inductive, IInvImplies, PTL

\* A registered object was opened through objects that are still registered.
THEOREM OwnedByOpen == Spec => []OwnersRegistered
  BY Inductive, IInvImplies, PTL

-----------------------------------------------------------------------------
(* The session implements HandleTree.                                       *)

\* What the refinement needs besides the inductive invariant: somebody always
\* has the session.
RInv == IInv /\ Session \in held

LEMMA NextHeld == [Next]_vars => held \subseteq held'
  BY DEF Next, vars, registry, LoseConnection, SessionStep, setOption, connect, serverHostKey,
         authenticate, RepliedClosed, freeUnused, close, ChannelStep, openChannelSession, useChannel,
         closeChannel, SftpStep, createSftp, pathOperation, freeSftp, FileStep, openFile, useFile,
         seekFile, closeFile, DirectoryStep, openDirectory, readDirectory, closeDirectory, AioStep,
         beginRead, beginWrite, begin, NoWindow, waitRead, waitWrite, withFreeingAio

LEMMA AlwaysRInv == Spec => []RInv
<1>1. Init => RInv
  BY InitIInv DEF Init, RInv
<1>2. RInv /\ [Next]_vars => RInv'
  BY NextIInv, NextHeld DEF RInv
<1> QED BY <1>1, <1>2, PTL DEF Spec

-----------------------------------------------------------------------------
(* The shape of the tree. *)

\* The kind of an identifier says in which registry to look for it.
LEMMA KindOf ==
  ASSUME TypesOK
  PROVE  /\ Session \in Registered <=> session
         /\ \A id \in SSHChannelID : id \in Registered <=> id \in channels
         /\ \A id \in SFTPClientID : id \in Registered <=> id \in sftps
         /\ \A id \in SFTPFileID : id \in Registered <=> id \in files
         /\ \A id \in SFTPDirectoryID : id \in Registered <=> id \in directories
         /\ \A id \in SFTPAioID : id \in Registered <=> id \in aios
  BY KindsAreDisjoint DEF TypesOK, Registered

LEMMA AncestorsOf ==
  /\ Ancestors[Session] = {}
  /\ \A id \in SSHChannelID \cup SFTPClientID : Ancestors[id] = {Session}
  /\ \A id \in SFTPFileID \cup SFTPDirectoryID : Ancestors[id] = {Session, id.sftpId}
  /\ \A a \in SFTPAioID : Ancestors[a] = {Session, a.fileId, a.fileId.sftpId}
<1>1. \A h \in Handle : Ancestors[h] =
        IF h = Session THEN {}
        ELSE IF h \in SSHChannelID \cup SFTPClientID THEN {Session}
        ELSE IF h \in SFTPFileID \cup SFTPDirectoryID THEN {Session, h.sftpId}
        ELSE {Session, h.fileId, h.fileId.sftpId}
  BY DEF Ancestors
<1>2. Ancestors[Session] = {}
  BY <1>1 DEF Handle
<1>3. \A id \in SSHChannelID \cup SFTPClientID : Ancestors[id] = {Session}
  BY <1>1, KindsAreDisjoint DEF Handle
<1>4. \A id \in SFTPFileID \cup SFTPDirectoryID : Ancestors[id] = {Session, id.sftpId}
  BY <1>1, KindsAreDisjoint DEF Handle
<1>5. \A a \in SFTPAioID : Ancestors[a] = {Session, a.fileId, a.fileId.sftpId}
  BY <1>1, KindsAreDisjoint DEF Handle
<1> QED BY <1>2, <1>3, <1>4, <1>5

LEMMA BelowOf ==
  /\ \A h \in Handle : h # Session => h \in Tree!Below(Session)
  /\ \A id \in SSHChannelID \cup SFTPDirectoryID \cup SFTPAioID : Tree!Below(id) = {}
  /\ \A id \in SFTPClientID : Tree!Below(id)
        = {f \in SFTPFileID \cup SFTPDirectoryID : f.sftpId = id} \cup {a \in SFTPAioID : a.fileId.sftpId = id}
  /\ \A id \in SFTPFileID : Tree!Below(id) = {a \in SFTPAioID : a.fileId = id}
<1>1. \A h \in Handle : h # Session => h \in Tree!Below(Session)
  BY AncestorsOf DEF Handle, Tree!Below
<1>2. ASSUME NEW id \in SSHChannelID \cup SFTPDirectoryID \cup SFTPAioID, NEW k \in Handle
      PROVE  id \notin Ancestors[k]
  BY AncestorsOf, KindsAreDisjoint DEF Handle, SFTPFileID, SFTPDirectoryID, SFTPAioID
<1>3. ASSUME NEW id \in SFTPClientID, NEW k \in Handle
      PROVE  id \in Ancestors[k] <=>
                \/ k \in SFTPFileID \cup SFTPDirectoryID /\ k.sftpId = id
                \/ k \in SFTPAioID /\ k.fileId.sftpId = id
  BY AncestorsOf, KindsAreDisjoint DEF Handle, SFTPFileID, SFTPDirectoryID, SFTPAioID
<1>4. ASSUME NEW id \in SFTPFileID, NEW k \in Handle
      PROVE  id \in Ancestors[k] <=> k \in SFTPAioID /\ k.fileId = id
  BY AncestorsOf, KindsAreDisjoint DEF Handle, SFTPFileID, SFTPDirectoryID, SFTPAioID
<1> QED BY <1>1, <1>2, <1>3, <1>4 DEF Tree!Below, Handle

-----------------------------------------------------------------------------
(* What a reply means to the caller of the tree. *)

LEMMA Served ==
  ASSUME NEW handle, NEW result, Replied(handle, result), result # "closed"
  PROVE  Outcome' = [handle |-> handle, answer |-> "served"]
  BY DEF Replied, Outcome

LEMMA ServedUnasked ==
  ASSUME NEW handle,
         \/ \E result : result # "closed" /\ Locally(handle, result)
         \/ \E asked : Unreported(handle, asked)
  PROVE  Outcome' = [handle |-> handle, answer |-> "served"]
  BY Served DEF Locally, Unreported

LEMMA ServedByLibssh ==
  ASSUME session, NEW handle
  PROVE  /\ \A result : result # "closed" /\ Succeeds(handle, result)
                => Outcome' = [handle |-> handle, answer |-> "served"]
         /\ \A sftp, opening : Fails(handle, sftp, opening)
                => Outcome' = [handle |-> handle, answer |-> "served"]
<1>1. ASSUME NEW result, result # "closed", Succeeds(handle, result)
      PROVE  Outcome' = [handle |-> handle, answer |-> "served"]
  BY <1>1, Served DEF Succeeds
<1>2. ASSUME NEW sftp, NEW opening, Fails(handle, sftp, opening)
      PROVE  Outcome' = [handle |-> handle, answer |-> "served"]
  <2>1. PICK l, c, status : Replied(handle, error(l, c, status, opening))
    BY <1>2 DEF Fails
  <2>2. error(l, c, status, opening) # "closed"
    BY DEF error
  <2> QED BY <2>1, <2>2, Served
<1> QED BY <1>1, <1>2

LEMMA Refused ==
  ASSUME NEW handle, Replied(handle, "closed")
  PROVE  Outcome' = [handle |-> handle, answer |-> "closed"]
  BY DEF Replied, Outcome

LEMMA SameRegistry == ASSUME UNCHANGED registry PROVE Registered' = Registered
  BY DEF registry, Registered

\* A call that opens and closes nothing.
LEMMA Used ==
  ASSUME NEW h \in Handle, h \in held, UNCHANGED <<registry, held>>,
         Outcome' = [handle |-> h, answer |-> IF h \in Registered THEN "served" ELSE "closed"]
  PROVE  Tree!Next
<1>1. Tree!Use(h)
  BY SameRegistry DEF Tree!Use, Tree!Answered
<1> QED BY <1>1 DEF Tree!Next

\* A call on something closed.
LEMMA UsedClosed ==
  ASSUME NEW h \in Handle, h \in held, h \notin Registered, RepliedClosed(h)
  PROVE  Tree!Next
  BY Used, Refused DEF RepliedClosed

\* A call that opens h through o.
LEMMA Opened ==
  ASSUME NEW h \in Handle, NEW o, h \notin Registered \cup held, o \in Ancestors[h],
         Ancestors[h] \subseteq Registered, Registered' = Registered \cup {h},
         held' \in {held, held \cup {h}}, Outcome' = [handle |-> o, answer |-> "served"]
  PROVE  Tree!Next
<1>1. Tree!Open(h)
  BY DEF Tree!Open, Tree!Answered
<1> QED BY <1>1 DEF Tree!Next

\* A call that closes h and what was opened through it.
LEMMA ClosedBelow ==
  ASSUME NEW h \in Handle, h \in held, UNCHANGED held,
         Registered' = Registered \ ({h} \cup Tree!Below(h)),
         Outcome' = [handle |-> h, answer |-> "served"]
  PROVE  Tree!Next
<1>1. Tree!Close(h)
  BY DEF Tree!Close, Tree!Answered
<1> QED BY <1>1 DEF Tree!Next

\* Identifiers that are fresh are not in the tree.
LEMMA FreshUnregistered ==
  ASSUME RInv, NEW h, Fresh(h)
  PROVE  h \notin Registered \cup held
  BY DEF RInv, Fresh, Registered

-----------------------------------------------------------------------------
(* Every step of the actor is a step of the tree, or none. *)

LEMMA SessionRefines ==
  ASSUME RInv, setOption \/ connect \/ serverHostKey \/ authenticate \/ freeUnused \/ close
  PROVE  Tree!Next
<1>0. /\ Session \in Handle /\ Session \in held
      /\ Session \in Registered <=> session
  BY KindOf DEF Handle, RInv, IInv
<1>1. CASE setOption
  <2>1. session /\ UNCHANGED <<registry, held>>
    BY <1>1 DEF setOption
  <2>2. Outcome' = [handle |-> Session, answer |-> "served"]
    BY <1>1, <2>1, Served, ServedByLibssh DEF setOption
  <2> QED BY <1>0, <2>1, <2>2, Used
<1>2. CASE connect
  <2>1. Outcome' = [handle |-> Session, answer |-> "served"]
    BY <1>2 DEF connect, error, Replied, Outcome
  <2> QED BY <1>0, <1>2, <2>1, Used DEF connect
<1>3. CASE serverHostKey
  <2>1. CASE Connected
    <3>1. session /\ UNCHANGED <<registry, held>>
      BY <1>3, <2>1 DEF serverHostKey, Connected
    <3>2. Outcome' = [handle |-> Session, answer |-> "served"]
      BY <1>3, <2>1, <3>1, ServedByLibssh DEF serverHostKey
    <3> QED BY <1>0, <2>1, <3>1, <3>2, Used
  <2>2. CASE ~Connected
    BY <1>0, <1>3, <2>2, Used, Served, Refused DEF serverHostKey, Locally
  <2> QED BY <2>1, <2>2
<1>4. CASE authenticate
  <2>1. CASE session
    <3>1. session /\ UNCHANGED <<registry, held>>
      BY <1>4, <2>1 DEF authenticate
    <3>2. Outcome' = [handle |-> Session, answer |-> "served"]
      BY <1>4, <2>1, <3>1, ServedByLibssh DEF authenticate
    <3> QED BY <1>0, <2>1, <3>1, <3>2, Used
  <2>2. CASE ~session
    BY <1>0, <1>4, <2>2, UsedClosed DEF authenticate
  <2> QED BY <2>1, <2>2
<1>5. CASE freeUnused \/ close
  <2>1. Outcome' = [handle |-> Session, answer |-> "served"]
    BY <1>5, Served DEF freeUnused, close
  <2>2. Registered' = {}
    BY <1>5 DEF freeUnused, close, RegistriesEmptied, Registered
  <2>3. Registered \subseteq {Session} \cup Tree!Below(Session)
    BY BelowOf DEF RInv, IInv, TypesOK, Registered, Handle
  <2> QED BY <1>0, <1>5, <2>1, <2>2, <2>3, ClosedBelow DEF freeUnused, close
<1> QED BY <1>1, <1>2, <1>3, <1>4, <1>5

LEMMA ChannelRefines ==
  ASSUME RInv, NEW id \in SSHChannelID, ChannelStep(id)
  PROVE  Tree!Next
<1>0. /\ Session \in Handle /\ Session \in held /\ id \in Handle
      /\ Session \in Registered <=> session
      /\ id \in Registered <=> id \in channels
  BY KindOf DEF Handle, RInv, IInv
<1>1. CASE openChannelSession(id)
  <2>1. CASE Connected /\ Succeeds(Session, "ok") /\ channels' = channels \cup {id} /\ held' = held \cup {id}
    <3>1. Registered' = Registered \cup {id}
      BY <1>1, <2>1 DEF openChannelSession, Registered
    <3>2. Ancestors[id] = {Session}
      BY AncestorsOf
    <3>3. Outcome' = [handle |-> Session, answer |-> "served"]
      BY <2>1, ServedByLibssh DEF Connected
    <3>4. id \notin Registered \cup held
      BY <1>1, FreshUnregistered DEF openChannelSession
    <3> QED BY <1>0, <2>1, <3>1, <3>2, <3>3, <3>4, Opened DEF Connected
  <2>2. CASE Connected /\ Fails(Session, FALSE, TRUE) /\ UNCHANGED <<channels, held>>
    BY <1>0, <1>1, <2>2, Used, ServedByLibssh DEF openChannelSession, Connected, registry
  <2>3. CASE ~Connected
    BY <1>0, <1>1, <2>3, Used, Served, Refused DEF openChannelSession, Locally, registry
  <2>4. CASE Connected /\ Locally(Session, "invalidState") /\ UNCHANGED <<channels, held, heap>>
    BY <1>0, <1>1, <2>4, Used, ServedUnasked DEF openChannelSession, Connected, registry
  <2> QED BY <1>1, <2>1, <2>2, <2>3, <2>4 DEF openChannelSession
<1>2. CASE useChannel(id)
  <2>1. CASE Lookup(id, channels)
    <3>1. session /\ UNCHANGED <<registry, held>>
      BY <1>2, <2>1 DEF useChannel, Lookup
    <3>2. Outcome' = [handle |-> id, answer |-> "served"]
      BY <1>2, <2>1, <3>1, ServedByLibssh DEF useChannel
    <3> QED BY <1>0, <1>2, <2>1, <3>1, <3>2, Used DEF Lookup, useChannel
  <2>2. CASE ~Lookup(id, channels)
    <3>1. id \notin channels
      BY <2>2 DEF Lookup, RInv, IInv, OwnersRegistered
    <3> QED BY <1>0, <1>2, <2>2, <3>1, UsedClosed DEF useChannel
  <2> QED BY <2>1, <2>2
<1>3. CASE closeChannel(id)
  <2>1. Registered' = Registered \ {id}
    BY <1>3, KindsAreDisjoint DEF closeChannel, Registered, RInv, IInv, TypesOK
  <2>2. Tree!Below(id) = {}
    BY BelowOf
  <2> QED BY <1>0, <1>3, <2>1, <2>2, ClosedBelow, Served DEF closeChannel
<1> QED BY <1>1, <1>2, <1>3 DEF ChannelStep

LEMMA SftpRefines ==
  ASSUME RInv, NEW id \in SFTPClientID, SftpStep(id)
  PROVE  Tree!Next
<1>0. /\ Session \in Handle /\ Session \in held /\ id \in Handle
      /\ Session \in Registered <=> session
      /\ id \in Registered <=> id \in sftps
  BY KindOf DEF Handle, RInv, IInv
<1>1. CASE createSftp(id)
  <2>1. CASE Connected /\ Succeeds(Session, "ok") /\ sftps' = sftps \cup {id} /\ held' = held \cup {id}
    <3>1. Registered' = Registered \cup {id}
      BY <1>1, <2>1 DEF createSftp, Registered
    <3>2. Ancestors[id] = {Session}
      BY AncestorsOf
    <3>3. Outcome' = [handle |-> Session, answer |-> "served"]
      BY <2>1, ServedByLibssh DEF Connected
    <3>4. id \notin Registered \cup held
      BY <1>1, FreshUnregistered DEF createSftp
    <3> QED BY <1>0, <2>1, <3>1, <3>2, <3>3, <3>4, Opened DEF Connected
  <2>2. CASE /\ Connected /\ UNCHANGED <<sftps, held>>
             /\ Fails(Session, FALSE, TRUE) \/ Fails(Session, TRUE, FALSE)
    <3>1. session /\ UNCHANGED <<registry, held>>
      BY <1>1, <2>2 DEF createSftp, Connected, registry
    <3>2. Outcome' = [handle |-> Session, answer |-> "served"]
      BY <1>1, <2>2, <3>1, ServedByLibssh DEF createSftp
    <3> QED BY <1>0, <2>1, <3>1, <3>2, Used
  <2>3. CASE ~Connected
    BY <1>0, <1>1, <2>3, Used, Served, Refused DEF createSftp, Locally, registry
  <2> QED BY <1>1, <2>1, <2>2, <2>3 DEF createSftp
<1>2. CASE pathOperation(id)
  <2>1. CASE Lookup(id, sftps)
    <3>1. session /\ UNCHANGED <<registry, held>>
      BY <1>2, <2>1 DEF pathOperation, Lookup
    <3>2. Outcome' = [handle |-> id, answer |-> "served"]
      BY <1>2, <2>1, <3>1, ServedByLibssh DEF pathOperation
    <3> QED BY <1>0, <1>2, <2>1, <3>1, <3>2, Used DEF Lookup, pathOperation
  <2>2. CASE ~Lookup(id, sftps)
    <3>1. id \notin sftps
      BY <2>2 DEF Lookup, RInv, IInv, OwnersRegistered
    <3> QED BY <1>0, <1>2, <2>2, <3>1, UsedClosed DEF pathOperation
  <2> QED BY <2>1, <2>2
<1>3. CASE freeSftp(id)
  <2>1. Registered' = Registered \ ({id} \cup Tree!Below(id))
    <3>1. CASE id \in sftps
      BY <1>3, <3>1, BelowOf, KindsAreDisjoint
         DEF freeSftp, FilesOf, DirectoriesOf, AiosOf, Registered, RInv, IInv, TypesOK, OwnersRegistered
    <3>2. CASE id \notin sftps
      BY <1>3, <3>2, BelowOf, KindsAreDisjoint
         DEF freeSftp, Registered, RInv, IInv, TypesOK, OwnersRegistered
    <3> QED BY <3>1, <3>2
  <2> QED BY <1>0, <1>3, <2>1, ClosedBelow, ServedUnasked DEF freeSftp
<1> QED BY <1>1, <1>2, <1>3 DEF SftpStep

LEMMA FileRefines ==
  ASSUME RInv, NEW id \in SFTPFileID, FileStep(id)
  PROVE  Tree!Next
<1>0. /\ id \in Handle /\ id.sftpId \in Handle /\ id.sftpId \in SFTPClientID
      /\ id.sftpId \in Registered <=> id.sftpId \in sftps
      /\ id \in Registered <=> id \in files
      /\ Session \in Registered <=> session
  BY KindOf DEF Handle, SFTPFileID, RInv, IInv
<1>1. CASE openFile(id)
  <2>1. CASE Lookup(id.sftpId, sftps) /\ Succeeds(id.sftpId, "ok")
             /\ files' = files \cup {id} /\ held' = held \cup {id}
             /\ UNCHANGED <<session, channels, sftps, directories, aios>>
    <3>1. Registered' = Registered \cup {id}
      BY <2>1 DEF Registered
    <3>2. Ancestors[id] = {Session, id.sftpId}
      BY AncestorsOf
    <3>3. Outcome' = [handle |-> id.sftpId, answer |-> "served"]
      BY <2>1, ServedByLibssh DEF Lookup
    <3>4. id \notin Registered \cup held
      BY <1>1, FreshUnregistered DEF openFile
    <3> QED BY <1>0, <2>1, <3>1, <3>2, <3>3, <3>4, Opened DEF Lookup
  <2>2. CASE Lookup(id.sftpId, sftps) /\ UNCHANGED <<registry, held>> /\ Fails(id.sftpId, TRUE, FALSE)
    <3>1. Outcome' = [handle |-> id.sftpId, answer |-> "served"]
      BY <2>2, ServedByLibssh DEF Lookup
    <3> QED BY <1>0, <1>1, <2>2, <3>1, Used DEF Lookup, openFile
  <2>3. CASE ~Lookup(id.sftpId, sftps)
    <3>1. id.sftpId \notin sftps
      BY <2>3 DEF Lookup, RInv, IInv, OwnersRegistered
    <3> QED BY <1>0, <1>1, <2>3, <3>1, UsedClosed DEF openFile
  <2> QED BY <1>1, <2>1, <2>2, <2>3 DEF openFile
<1>2. CASE useFile(id)
  <2>1. CASE Lookup(id, files) /\ Lookup(id.sftpId, sftps)
    <3>1. session /\ UNCHANGED <<registry, held>> /\ id \in files
      BY <1>2, <2>1 DEF useFile, Lookup
    <3>2. Outcome' = [handle |-> id, answer |-> "served"]
      BY <1>2, <2>1, <3>1, ServedByLibssh, ServedUnasked DEF useFile
    <3> QED BY <1>0, <1>2, <3>1, <3>2, Used DEF useFile
  <2>2. CASE ~(Lookup(id, files) /\ Lookup(id.sftpId, sftps))
    <3>1. id \notin files
      BY <2>2 DEF Lookup, RInv, IInv, OwnersRegistered
    <3> QED BY <1>0, <1>2, <2>2, <3>1, UsedClosed DEF useFile
  <2> QED BY <2>1, <2>2
<1>3. CASE seekFile(id)
  <2>1. CASE Lookup(id, files) /\ Lookup(id.sftpId, sftps)
    <3>1. session /\ UNCHANGED <<registry, held>> /\ id \in files
      BY <1>3, <2>1 DEF seekFile, Lookup
    <3>2. Outcome' = [handle |-> id, answer |-> "served"]
      BY <1>3, <2>1, ServedUnasked DEF seekFile
    <3> QED BY <1>0, <1>3, <3>1, <3>2, Used DEF seekFile
  <2>2. CASE ~(Lookup(id, files) /\ Lookup(id.sftpId, sftps))
    <3>1. id \notin files
      BY <2>2 DEF Lookup, RInv, IInv, OwnersRegistered
    <3> QED BY <1>0, <1>3, <2>2, <3>1, UsedClosed DEF seekFile
  <2> QED BY <2>1, <2>2
<1>4. CASE closeFile(id)
  <2>1. Registered' = Registered \ ({id} \cup Tree!Below(id))
    BY <1>4, BelowOf, KindsAreDisjoint
       DEF closeFile, AiosOf, Registered, RInv, IInv, TypesOK, OwnersRegistered
  <2> QED BY <1>0, <1>4, <2>1, ClosedBelow, ServedUnasked DEF closeFile
<1> QED BY <1>1, <1>2, <1>3, <1>4 DEF FileStep

LEMMA DirectoryRefines ==
  ASSUME RInv, NEW id \in SFTPDirectoryID, DirectoryStep(id)
  PROVE  Tree!Next
<1>0. /\ id \in Handle /\ id.sftpId \in Handle /\ id.sftpId \in SFTPClientID
      /\ id.sftpId \in Registered <=> id.sftpId \in sftps
      /\ id \in Registered <=> id \in directories
      /\ Session \in Registered <=> session
  BY KindOf DEF Handle, SFTPDirectoryID, RInv, IInv
<1>1. CASE openDirectory(id)
  <2>1. CASE Lookup(id.sftpId, sftps) /\ Succeeds(id.sftpId, "ok")
             /\ directories' = directories \cup {id} /\ held' = held \cup {id}
             /\ UNCHANGED <<session, channels, sftps, files, aios>>
    <3>1. Registered' = Registered \cup {id}
      BY <2>1 DEF Registered
    <3>2. Ancestors[id] = {Session, id.sftpId}
      BY AncestorsOf
    <3>3. Outcome' = [handle |-> id.sftpId, answer |-> "served"]
      BY <2>1, ServedByLibssh DEF Lookup
    <3>4. id \notin Registered \cup held
      BY <1>1, FreshUnregistered DEF openDirectory
    <3> QED BY <1>0, <2>1, <3>1, <3>2, <3>3, <3>4, Opened DEF Lookup
  <2>2. CASE Lookup(id.sftpId, sftps) /\ UNCHANGED <<registry, held>> /\ Fails(id.sftpId, TRUE, FALSE)
    <3>1. Outcome' = [handle |-> id.sftpId, answer |-> "served"]
      BY <2>2, ServedByLibssh DEF Lookup
    <3> QED BY <1>0, <1>1, <2>2, <3>1, Used DEF Lookup, openDirectory
  <2>3. CASE ~Lookup(id.sftpId, sftps)
    <3>1. id.sftpId \notin sftps
      BY <2>3 DEF Lookup, RInv, IInv, OwnersRegistered
    <3> QED BY <1>0, <1>1, <2>3, <3>1, UsedClosed DEF openDirectory
  <2> QED BY <1>1, <2>1, <2>2, <2>3 DEF openDirectory
<1>2. CASE readDirectory(id)
  <2>1. CASE Lookup(id.sftpId, sftps) /\ Lookup(id, directories)
    <3>1. session /\ UNCHANGED <<registry, held>> /\ id \in directories
      BY <1>2, <2>1 DEF readDirectory, Lookup
    <3>2. Outcome' = [handle |-> id, answer |-> "served"]
      BY <1>2, <2>1, <3>1, ServedByLibssh, ServedUnasked DEF readDirectory
    <3> QED BY <1>0, <1>2, <3>1, <3>2, Used DEF readDirectory
  <2>2. CASE ~(Lookup(id.sftpId, sftps) /\ Lookup(id, directories))
    <3>1. id \notin directories
      BY <2>2 DEF Lookup, RInv, IInv, OwnersRegistered
    <3> QED BY <1>0, <1>2, <2>2, <3>1, UsedClosed DEF readDirectory
  <2> QED BY <2>1, <2>2
<1>3. CASE closeDirectory(id)
  <2>1. Registered' = Registered \ ({id} \cup Tree!Below(id))
    BY <1>3, BelowOf, KindsAreDisjoint
       DEF closeDirectory, Registered, RInv, IInv, TypesOK, OwnersRegistered
  <2> QED BY <1>0, <1>3, <2>1, ClosedBelow, ServedUnasked DEF closeDirectory
<1> QED BY <1>1, <1>2, <1>3 DEF DirectoryStep

LEMMA AioRefines ==
  ASSUME RInv, NEW a \in SFTPAioID, AioStep(a)
  PROVE  Tree!Next
<1>0. /\ a \in Handle /\ a.fileId \in Handle /\ a.fileId \in SFTPFileID
      /\ a.fileId \in Registered <=> a.fileId \in files
      /\ a.fileId.sftpId \in Registered <=> a.fileId.sftpId \in sftps
      /\ a \in Registered <=> a \in aios
      /\ Session \in Registered <=> session
  BY KindOf DEF Handle, SFTPAioID, SFTPFileID, RInv, IInv
<1>1. CASE beginRead(a) \/ beginWrite(a)
  <2>0. Fresh(a) /\ a.fileId \in held
    BY <1>1 DEF beginRead, beginWrite
  <2>1. CASE Lookup(a.fileId, files) /\ Lookup(a.fileId.sftpId, sftps)
    <3>1. CASE NoWindow(a)
      <4>1. Outcome' = [handle |-> a.fileId, answer |-> "served"]
        BY <3>1, Served DEF NoWindow
      <4> QED BY <1>0, <2>0, <2>1, <3>1, <4>1, Used DEF NoWindow, Lookup
    <3>2. ASSUME NEW h, begin(a, h) PROVE Tree!Next
      <4>1. Outcome' = [handle |-> a.fileId, answer |-> "served"]
        BY <2>1, <3>2, ServedByLibssh DEF begin, Lookup
      <4>2. Registered' = Registered \cup {a}
        BY <3>2 DEF begin, Registered
      <4>3. Ancestors[a] = {Session, a.fileId, a.fileId.sftpId}
        BY AncestorsOf
      <4>4. a \notin Registered \cup held
        BY <2>0, FreshUnregistered
      <4>5. held' \in {held, held \cup {a}}
        BY <3>2 DEF begin
      <4> QED BY <1>0, <2>1, <4>1, <4>2, <4>3, <4>4, <4>5, Opened DEF Lookup
    <3> QED BY <1>1, <2>1, <3>1, <3>2 DEF beginRead, beginWrite
  <2>2. CASE ~(Lookup(a.fileId, files) /\ Lookup(a.fileId.sftpId, sftps))
    <3>1. a.fileId \notin files
      BY <2>2 DEF Lookup, RInv, IInv, OwnersRegistered
    <3> QED BY <1>0, <1>1, <2>0, <2>2, <3>1, UsedClosed DEF beginRead, beginWrite
  <2> QED BY <2>1, <2>2
<1>2. CASE waitRead(a) \/ waitWrite(a)
  <2>1. PICK fn : withFreeingAio(a, fn)
    BY <1>2 DEF waitRead, waitWrite
  <2>2. CASE session /\ a \in aios
    <3>1. Outcome' = [handle |-> a, answer |-> "served"]
      BY <2>1, <2>2, ServedByLibssh DEF withFreeingAio
    <3>2. Registered' = Registered \ ({a} \cup Tree!Below(a))
      BY <2>1, <2>2, BelowOf, KindsAreDisjoint DEF withFreeingAio, Registered, RInv, IInv, TypesOK
    <3>3. Tree!Consume(a)
      BY <1>0, <2>1, <2>2, <3>1, <3>2 DEF Tree!Consume, Tree!Answered, withFreeingAio
    <3> QED BY <1>0, <3>3 DEF Tree!Next
  <2>3. CASE ~(session /\ a \in aios)
    <3>1. a \notin aios
      BY <2>3 DEF RInv, IInv, OwnersRegistered
    <3> QED BY <1>0, <2>1, <2>3, <3>1, UsedClosed DEF withFreeingAio
  <2> QED BY <2>2, <2>3
<1> QED BY <1>1, <1>2 DEF AioStep

LEMMA NextRefines == RInv /\ [Next]_vars => [Tree!Next]_(Tree!vars)
<1> SUFFICES ASSUME RInv, [Next]_vars PROVE [Tree!Next]_(Tree!vars)
  OBVIOUS
<1>1. CASE UNCHANGED vars \/ LoseConnection
  BY <1>1 DEF vars, registry, LoseConnection, Tree!vars, Registered, Outcome
<1>2. CASE SessionStep
  BY <1>2, SessionRefines DEF SessionStep
<1>3. ASSUME NEW id \in SSHChannelID, ChannelStep(id) PROVE Tree!Next
  BY <1>3, ChannelRefines
<1>4. ASSUME NEW id \in SFTPClientID, SftpStep(id) PROVE Tree!Next
  BY <1>4, SftpRefines
<1>5. ASSUME NEW id \in SFTPFileID, FileStep(id) PROVE Tree!Next
  BY <1>5, FileRefines
<1>6. ASSUME NEW id \in SFTPDirectoryID, DirectoryStep(id) PROVE Tree!Next
  BY <1>6, DirectoryRefines
<1>7. ASSUME NEW a \in SFTPAioID, AioStep(a) PROVE Tree!Next
  BY <1>7, AioRefines
<1> QED BY <1>1, <1>2, <1>3, <1>4, <1>5, <1>6, <1>7 DEF Next

LEMMA InitRefines == Init => Tree!Init
  BY DEF Init, Tree!Init, Registered, Outcome

\* The actor implements the tree of handles: whatever tasks do with the
\* handles they hold, closing one closes its subtree in the same step, and
\* only calls on closed handles are answered "closed", for good.
THEOREM Refinement == Spec => ImplementsHandleTree
<1>1. Spec => []RInv
  BY AlwaysRInv
<1> QED BY <1>1, InitRefines, NextRefines, PTL DEF Spec, ImplementsHandleTree, Tree!Spec

-----------------------------------------------------------------------------
(* What is left to answer once the link is down. *)

\* The answers LostLinkIsReported allows.
Told ==
    \/ last'.result \in {"connectionFailed", "closed", "done", "none"}
    \/ StaleStatus
    \/ StaleRefusal

LEMMA TellingReplies ==
  ASSUME TypesOK, link = "down", NEW handle
  PROVE  /\ \A result : ~Succeeds(handle, result)
         /\ Fails(handle, FALSE, FALSE) => Told
         /\ handle \notin {Session} \cup SSHChannelID => (Fails(handle, TRUE, FALSE) => Told)
         /\ \A asked : Unreported(handle, asked) => Told
         /\ \A result \in {"connectionFailed", "closed", "done", "none"} :
                Replied(handle, result) \/ Locally(handle, result) => Told
         /\ RepliedClosed(handle) => Told
<1>1. ASSUME NEW sftp \in BOOLEAN, Fails(handle, sftp, FALSE),
             sftp => handle \notin {Session} \cup SSHChannelID
      PROVE  Told
  <2>1. PICK c \in {code, "fatal"}, status \in (IF sftp THEN BOOLEAN ELSE {FALSE}) :
            last' = [handle |-> handle, result |-> error("down", c, status, FALSE)]
    BY <1>1 DEF Fails, Replied
  <2>2. c \in {"ok", "denied", "fatal"} /\ status \in BOOLEAN
    BY <2>1 DEF TypesOK
  <2>3. CASE ~session \/ c = "fatal"
    BY <2>1, <2>3 DEF error, Told
  <2>4. CASE session /\ c # "fatal" /\ status
    BY <1>1, <2>1, <2>4 DEF error, Told, StaleStatus
  <2>5. CASE session /\ c # "fatal" /\ ~status
    <3>1. error("down", c, status, FALSE) =
            IF c = "ok" THEN "connectionFailed" ELSE "authenticationFailed"
      BY <2>2, <2>5 DEF error
    <3> QED BY <2>1, <2>2, <2>5, <3>1 DEF Told, StaleRefusal
  <2> QED BY <2>3, <2>4, <2>5
<1>2. \A result : ~Succeeds(handle, result)
  BY DEF Succeeds, Connected
<1>3. /\ Fails(handle, FALSE, FALSE) => Told
      /\ handle \notin {Session} \cup SSHChannelID => (Fails(handle, TRUE, FALSE) => Told)
  BY <1>1
<1>4. /\ \A asked : Unreported(handle, asked) => Told
      /\ \A result \in {"connectionFailed", "closed", "done", "none"} :
             Replied(handle, result) \/ Locally(handle, result) => Told
      /\ RepliedClosed(handle) => Told
  BY DEF Unreported, Replied, Locally, RepliedClosed, Told
<1> QED BY <1>2, <1>3, <1>4

LEMMA TellingSteps ==
  ASSUME TypesOK, link = "down", [Next]_vars
  PROVE  last' = last \/ Told
<1> USE TellingReplies
<1>0. ~Connected
  BY DEF Connected
<1>1. CASE UNCHANGED vars \/ LoseConnection
  BY <1>1 DEF vars, LoseConnection
<1>2. CASE SessionStep
  BY <1>0, <1>2 DEF SessionStep, setOption, connect, serverHostKey, authenticate, freeUnused, close
<1>3. ASSUME NEW id \in SSHChannelID, ChannelStep(id) PROVE Told
  BY <1>0, <1>3 DEF ChannelStep, openChannelSession, useChannel, closeChannel
<1>4. ASSUME NEW id \in SFTPClientID, SftpStep(id) PROVE Told
  <2>1. id \notin {Session} \cup SSHChannelID
    BY KindsAreDisjoint
  <2> QED BY <1>0, <1>4, <2>1 DEF SftpStep, createSftp, pathOperation, freeSftp
<1>5. ASSUME NEW id \in SFTPFileID, FileStep(id) PROVE Told
  <2>1. id \notin {Session} \cup SSHChannelID /\ id.sftpId \notin {Session} \cup SSHChannelID
    BY KindsAreDisjoint DEF SFTPFileID
  <2> QED BY <1>5, <2>1 DEF FileStep, openFile, useFile, seekFile, closeFile
<1>6. ASSUME NEW id \in SFTPDirectoryID, DirectoryStep(id) PROVE Told
  <2>1. id \notin {Session} \cup SSHChannelID /\ id.sftpId \notin {Session} \cup SSHChannelID
    BY KindsAreDisjoint DEF SFTPDirectoryID
  <2> QED BY <1>6, <2>1 DEF DirectoryStep, openDirectory, readDirectory, closeDirectory
<1>7. ASSUME NEW a \in SFTPAioID, AioStep(a) PROVE Told
  <2>1. a \notin {Session} \cup SSHChannelID /\ a.fileId \notin {Session} \cup SSHChannelID
    BY KindsAreDisjoint DEF SFTPAioID
  <2> QED BY <1>7, <2>1 DEF AioStep, beginRead, beginWrite, begin, NoWindow, waitRead, waitWrite, withFreeingAio
<1> QED BY <1>1, <1>2, <1>3, <1>4, <1>5, <1>6, <1>7 DEF Next

\* After the connection was lost, no call that needs the server is answered as
\* if it were still there, but for what an earlier call left with libssh
\* (error(), LibSSH.swift:259).
THEOREM LossReported == Spec => LostLinkIsReported
<1>1. IInv /\ [Next]_vars
        => [link = "down" =>
              \/ last' = last
              \/ last'.result \in {"connectionFailed", "closed", "done", "none"}
              \/ StaleStatus
              \/ StaleRefusal]_vars
  BY TellingSteps DEF IInv, Told
<1> QED BY <1>1, Inductive, PTL DEF Spec, LostLinkIsReported

=============================================================================
