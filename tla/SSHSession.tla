----------------------------- MODULE SSHSession -----------------------------
(***************************************************************************)
(* The actor SSHSession of Sources/SwiftLibSSH/LibSSH.swift and the libssh *)
(* objects it owns.                                                        *)
(*                                                                         *)
(* Every handle a caller holds names a C object by an identifier, and the  *)
(* actor keeps the pointers in dictionaries.  A method of the actor has no *)
(* suspension point, so each is one atomic action; the scopes (withSftp,   *)
(* withSftpFile, withDirectory, withSessionChannel) suspend while their    *)
(* body runs, so they are the open action, any interleaving, and the close *)
(* action.  Any task may call any method with any identifier it holds.     *)
(*                                                                         *)
(* The objects themselves are those of CLibSSH.  What a call does to the   *)
(* server is left out: it succeeds or it fails.                            *)
(***************************************************************************)
EXTENDS CLibSSH

VARIABLES
    session,        \* the optional pointer `session` is not nil
    channels,       \* keys of the dictionary `channels`
    sftps,          \* keys of `sftps`
    files,          \* keys of `files`
    directories,    \* keys of `directories`
    aios,           \* keys of `aios` in every TrackedFile of `files`
    held,           \* identifiers that callers have received
    heap,           \* libssh: the objects that are allocated, and misuses
    link,           \* libssh: the transport; ssh_is_connected iff "up"
    code,           \* libssh: the session's error code, kept until overwritten
    last            \* the handle of the latest call and its result

registry == <<session, channels, sftps, files, directories, aios>>
vars == <<session, channels, sftps, files, directories, aios, held, heap, link, code, last>>

Connected == session /\ link = "up"

\* The server hangs up and libssh notices while it polls the socket.
LoseConnection ==
    /\ Connected
    /\ link' = "down"
    /\ code' \in {code, "fatal"}
    /\ UNCHANGED <<registry, held, heap, last>>

-----------------------------------------------------------------------------
(* Results of calls: "done" of one that asks nothing of the server or ignores *)
(* its answer, "none" of one that found nothing to return.                    *)

Result == {"ok", "done", "none", "closed", "connectionFailed", "sftpError", "channelOpenFailed",
           "authenticationFailed", "libraryError", "invalidState"}

Replied(handle, result) == last' = [handle |-> handle, result |-> result]

\* Mutant: the status of the SFTP session is looked at before the error code.
errorOfStatusFirst(l, c, status, opening) ==
    IF ~session THEN "closed"
    ELSE IF status THEN "sftpError"
    ELSE IF c = "fatal" \/ (c = "ok" /\ l # "up") THEN "connectionFailed"
    ELSE "libraryError"

\* The class of error that is thrown after a failing call: l and c are the
\* link and the error code the call leaves, status says whether the SFTP
\* session has a status to report, opening whether a channel was being opened.
error(l, c, status, opening) ==
    IF ~session THEN "closed"
    ELSE IF c = "fatal" THEN "connectionFailed"
    ELSE IF status THEN "sftpError"
    ELSE IF c = "ok" /\ l # "up" THEN "connectionFailed"
    ELSE IF opening /\ c = "denied" THEN "channelOpenFailed"
    ELSE IF opening /\ c = "ok" THEN "invalidState"
    ELSE IF c = "denied" THEN "authenticationFailed"
    ELSE "libraryError"

\* A libssh call fails.  It may record an error code or leave the one an
\* earlier call recorded, and the transport may go down with it; only a server
\* that is reached can deny a request.
Fails(handle, sftp, opening) ==
    \E l \in (IF link = "up" THEN {"up", "down"} ELSE {link}),
       c \in {code, "fatal"} \cup (IF link = "up" THEN {"denied"} ELSE {}),
       status \in (IF sftp THEN BOOLEAN ELSE {FALSE}) :
        /\ link' = l
        /\ code' = c
        /\ Replied(handle, error(l, c, status, opening))

\* A libssh call that needs the server succeeds.
Succeeds(handle, result) ==
    /\ Connected
    /\ Replied(handle, result)
    /\ UNCHANGED <<link, code>>

\* A call that libssh answers without asking the server.
Locally(handle, result) ==
    /\ Replied(handle, result)
    /\ UNCHANGED <<link, code>>

\* A call whose failure is ignored: a refusal is recorded all the same.
Unreported(handle, asked) ==
    /\ Replied(handle, "done")
    /\ link' = link
    /\ code' \in {code} \cup (IF asked /\ Connected THEN {"denied"} ELSE {})

RepliedClosed(handle) ==
    /\ Replied(handle, "closed")
    /\ UNCHANGED <<registry, held, heap, link, code>>

-----------------------------------------------------------------------------
(* The session itself. *)

setOption ==
    /\ session /\ link = "idle"
    /\ \/ Replied(Session, "ok") /\ UNCHANGED <<link, code>>
       \/ Fails(Session, FALSE, FALSE)
    /\ UNCHANGED <<registry, held, heap>>

\* SSHClient calls connect once, before anyone else has the session.
connect ==
    /\ session /\ link = "idle"
    /\ \/ link' = "up" /\ code' = code /\ Replied(Session, "ok")
       \/ /\ link' = "down" /\ code' \in {code, "denied", "fatal"}
          /\ Replied(Session, error("down", code', FALSE, FALSE))
    /\ UNCHANGED <<registry, held, heap>>

\* requireConnected answers for the session before libssh is called.
serverHostKey ==
    /\ IF Connected
       THEN Succeeds(Session, "ok") \/ Succeeds(Session, "invalidState")
                \/ Fails(Session, FALSE, FALSE)
       ELSE Locally(Session, IF session THEN "connectionFailed" ELSE "closed")
    /\ UNCHANGED <<registry, held, heap>>

\* Without a session libssh refuses the call and error() answers "closed".
authenticate ==
    /\ link # "idle"
    /\ \/ /\ session
          /\ Succeeds(Session, "ok") \/ Fails(Session, FALSE, FALSE)
          /\ UNCHANGED <<registry, held, heap>>
       \/ ~session /\ RepliedClosed(Session)

-----------------------------------------------------------------------------
(* Session channels. *)

\* An identifier is a fresh UUID: nobody holds it and no object has it.
Fresh(id) == id \notin held \cup channels \cup sftps \cup files \cup directories \cup aios

\* A call on the registered object `id` of the set ids: the pointer goes to
\* libssh, or the caller is told that the object is closed.
Lookup(id, ids) == session /\ id \in ids

\* libssh makes a channel only for an authenticated session.
openChannelSession(id) ==
    /\ Fresh(id)
    /\ UNCHANGED <<session, sftps, files, directories, aios>>
    /\ IF Connected
       THEN \/ /\ Succeeds(Session, "ok")
               /\ channels' = channels \cup {id}
               /\ held' = held \cup {id}
               /\ heap' = ssh_channel_new(heap, id)
            \/ /\ Fails(Session, FALSE, TRUE)
               /\ heap' = ssh_channel_free(ssh_channel_new(heap, id), {id})
               /\ UNCHANGED <<channels, held>>
            \/ /\ Locally(Session, "invalidState")
               /\ UNCHANGED <<channels, held, heap>>
       ELSE /\ Locally(Session, IF session THEN "connectionFailed" ELSE "closed")
            /\ UNCHANGED <<channels, held, heap>>

closeChannel(id) ==
    /\ id \in held \cap SSHChannelID
    /\ Replied(id, "done")
    /\ channels' = channels \ {id}
    /\ heap' = IF id \in channels THEN ssh_channel_free(heap, {id}) ELSE heap
    /\ UNCHANGED <<session, sftps, files, directories, aios, held, link, code>>

\* execute, exitState and readChannel; a read may also report the end.
useChannel(id) ==
    /\ id \in held \cap SSHChannelID
    /\ IF Lookup(id, channels)
       THEN /\ heap' = Call(heap, "ssh_channel", id \in heap.channels)
            /\ Succeeds(id, "ok") \/ Succeeds(id, "none") \/ Fails(id, FALSE, FALSE)
            /\ UNCHANGED <<registry, held>>
       ELSE RepliedClosed(id)

-----------------------------------------------------------------------------
(* SFTP sessions. *)

initialized(id) == sftp_init(sftp_new(heap, id), id)

limited(id) == sftp_limits(initialized(id), id)

\* error(sftp:) reads the status unless the session's error code settles it.
\* Only the clean-up of createSftp comes between the failing call and this.
statusRead(h, id) == IF code' = "fatal" THEN h ELSE sftp_get_error(h, id)

\* sftp_new, sftp_init and sftp_limits must all succeed before the session is
\* registered; when one of the last two fails, validate runs the clean-up,
\* which frees the sftp_session, and then looks for the error to throw.
createSftp(id) ==
    /\ Fresh(id)
    /\ UNCHANGED <<session, channels, files, directories, aios>>
    /\ IF Connected
       THEN \/ /\ Fails(Session, FALSE, TRUE)
               /\ UNCHANGED <<sftps, held, heap>>
            \/ /\ Fails(Session, TRUE, FALSE)
               /\ \E h \in {initialized(id), limited(id)} :
                     heap' = statusRead(sftp_free(h, {id}), id)
               /\ UNCHANGED <<sftps, held>>
            \/ /\ Succeeds(Session, "ok")
               /\ heap' = limited(id)
               /\ sftps' = sftps \cup {id}
               /\ held' = held \cup {id}
       ELSE /\ Locally(Session, IF session THEN "connectionFailed" ELSE "closed")
            /\ UNCHANGED <<sftps, held, heap>>

\* mkdir, rmdir, stat, setStat, readlink, symlink, rename, unlink.
pathOperation(id) ==
    /\ id \in held \cap SFTPClientID
    /\ IF Lookup(id, sftps)
       THEN /\ heap' = Call(heap, "sftp", SftpAlive(heap, {id}))
            /\ Succeeds(id, "ok") \/ Fails(id, TRUE, FALSE)
            /\ UNCHANGED <<registry, held>>
       ELSE RepliedClosed(id)

-----------------------------------------------------------------------------
(* SFTP files and directories. *)

openFile(id) ==
    /\ Fresh(id) /\ id.sftpId \in held
    /\ IF Lookup(id.sftpId, sftps)
       THEN \/ /\ Succeeds(id.sftpId, "ok")
               /\ files' = files \cup {id}
               /\ held' = held \cup {id}
               /\ heap' = sftp_open(heap, id)
               /\ UNCHANGED <<session, channels, sftps, directories, aios>>
            \/ /\ Fails(id.sftpId, TRUE, FALSE)
               /\ heap' = Call(heap, "sftp_open", SftpAlive(heap, {id.sftpId}))
               /\ UNCHANGED <<registry, held>>
       ELSE RepliedClosed(id.sftpId)

\* statFile, readFile and writeFile; a read after the end of the file was
\* seen is answered by libssh, and so is seekFile.
useFile(id) ==
    /\ id \in held \cap SFTPFileID
    /\ IF Lookup(id, files) /\ Lookup(id.sftpId, sftps)
       THEN /\ heap' = Call(heap, "sftp_file",
                            SftpAlive(heap, {id.sftpId}) /\ id \in heap.files)
            /\ Succeeds(id, "ok") \/ Locally(id, "none") \/ Fails(id, TRUE, FALSE)
            /\ UNCHANGED <<registry, held>>
       ELSE RepliedClosed(id)

seekFile(id) ==
    /\ id \in held \cap SFTPFileID
    /\ IF Lookup(id, files) /\ Lookup(id.sftpId, sftps)
       THEN /\ heap' = Call(heap, "sftp_seek64",
                            SftpAlive(heap, {id.sftpId}) /\ id \in heap.files)
            /\ Locally(id, "done")
            /\ UNCHANGED <<registry, held>>
       ELSE RepliedClosed(id)

openDirectory(id) ==
    /\ Fresh(id) /\ id.sftpId \in held
    /\ IF Lookup(id.sftpId, sftps)
       THEN \/ /\ Succeeds(id.sftpId, "ok")
               /\ directories' = directories \cup {id}
               /\ held' = held \cup {id}
               /\ heap' = sftp_opendir(heap, id)
               /\ UNCHANGED <<session, channels, sftps, files, aios>>
            \/ /\ Fails(id.sftpId, TRUE, FALSE)
               /\ heap' = Call(heap, "sftp_opendir", SftpAlive(heap, {id.sftpId}))
               /\ UNCHANGED <<registry, held>>
       ELSE RepliedClosed(id.sftpId)

\* The end of the directory is a result, every other null entry an error.
\* Entries of an earlier reply, and an end already seen, need no server.
readDirectory(id) ==
    /\ id \in held \cap SFTPDirectoryID
    /\ IF Lookup(id.sftpId, sftps) /\ Lookup(id, directories)
       THEN /\ heap' = Call(heap, "sftp_readdir",
                            SftpAlive(heap, {id.sftpId}) /\ id \in heap.directories)
            /\ \/ Succeeds(id, "ok")
               \/ \E r \in {"done", "none"} : Locally(id, r)
               \/ Fails(id, TRUE, FALSE)
            /\ UNCHANGED <<registry, held>>
       ELSE RepliedClosed(id)

closeDirectory(id) ==
    /\ id \in held \cap SFTPDirectoryID
    /\ Unreported(id, id \in directories)
    /\ directories' = directories \ {id}
    /\ heap' = IF id \in directories THEN sftp_closedir(heap, {id}) ELSE heap
    /\ UNCHANGED <<session, channels, sftps, files, aios, held>>

-----------------------------------------------------------------------------
(* Asynchronous requests. *)

\* Mutant: closing a file forgets its requests.
NoAiosOf(ids) == {}

AiosOf(ids) == {a \in aios : a.fileId \in ids}

allocate(h, a) == [h EXCEPT !.slots = @ \cup {a}, !.garbage = @ \cup {a}]

initialize(h, a) == [h EXCEPT !.garbage = @ \ {a}]

\* A slot is set to nil before it is registered.
newSlot(h, a) == initialize(allocate(h, a), a)

\* freeAio: the request, if its slot still points to one, then the slot.
freeAio(h, as) == [sftp_aio_free(h, as) EXCEPT !.slots = @ \ as]

\* Mutant: the slot is registered under the file's identifier.
beginOfFile(a, h) ==
    /\ Succeeds(a.fileId, "ok")
    /\ aios' = aios \cup {a.fileId}
    /\ held' = held \cup {a}
    /\ heap' = sendRequest(h, a)
    /\ UNCHANGED <<session, channels, sftps, files, directories>>

\* The slot is registered before libssh sends the request.  When that fails
\* nobody receives the identifier and the slot stays with the file.
begin(a, h) ==
    /\ aios' = aios \cup {a}
    /\ \/ /\ Succeeds(a.fileId, "ok")
          /\ held' = held \cup {a}
          /\ heap' = sendRequest(h, a)
       \/ /\ Fails(a.fileId, TRUE, FALSE)
          /\ held' = held
          /\ heap' = h
    /\ UNCHANGED <<session, channels, sftps, files, directories>>

\* Nothing happens when the channel window has no room for the request.
NoWindow(a) ==
    /\ Replied(a.fileId, "none")
    /\ UNCHANGED <<registry, held, heap, link, code>>

beginRead(a) ==
    /\ Fresh(a) /\ a.fileId \in held
    /\ IF Lookup(a.fileId, files) /\ Lookup(a.fileId.sftpId, sftps)
       THEN \/ NoWindow(a)
            \/ begin(a, newSlot(Call(heap, "sftp_aio_begin_read", FileAlive(heap, a.fileId)), a))
       ELSE RepliedClosed(a.fileId)

beginWrite(a) ==
    /\ Fresh(a) /\ a.fileId \in held
    /\ IF Lookup(a.fileId, files) /\ Lookup(a.fileId.sftpId, sftps)
       THEN \/ NoWindow(a)
            \/ begin(a, newSlot(Call(heap, "sftp_aio_begin_write", FileAlive(heap, a.fileId)), a))
       ELSE RepliedClosed(a.fileId)

\* withFreeingAio takes the slot out of the registry, hands it to the wait,
\* which consumes the request, and frees it however the wait ends.
withFreeingAio(a, wait) ==
    /\ a \in held \cap SFTPAioID
    /\ IF session /\ a \in aios
       THEN /\ aios' = aios \ {a}
            /\ heap' = freeAio(awaitRequest(heap, a, wait), {a})
            /\ Succeeds(a, "ok") \/ Fails(a, TRUE, FALSE)
            /\ UNCHANGED <<session, channels, sftps, files, directories, held>>
       ELSE RepliedClosed(a)

waitRead(a) == withFreeingAio(a, "sftp_aio_wait_read")

waitWrite(a) == withFreeingAio(a, "sftp_aio_wait_write")

-----------------------------------------------------------------------------
(* Closing: what was opened through an object goes before the object. *)

\* Mutant: a file is closed and the slots of its requests are not freed.
closeFilesOnly(h, fs) == sftp_close(h, fs)

\* closeFile on each of fs: the file first, then the slots of its requests.
closeFiles(h, fs) == freeAio(sftp_close(h, fs), AiosOf(fs))

closeFile(id) ==
    /\ id \in held \cap SFTPFileID
    /\ Unreported(id, id \in files)
    /\ files' = files \ {id}
    /\ aios' = aios \ AiosOf({id})
    /\ heap' = IF id \in files THEN closeFiles(heap, {id}) ELSE heap
    /\ UNCHANGED <<session, channels, sftps, directories, held>>

FilesOf(id) == {f \in files : f.sftpId = id}

DirectoriesOf(id) == {d \in directories : d.sftpId = id}

freeSftp(id) ==
    /\ id \in held \cap SFTPClientID
    /\ Unreported(id, id \in sftps)
    /\ IF id \in sftps
       THEN /\ sftps' = sftps \ {id}
            /\ files' = files \ FilesOf(id)
            /\ directories' = directories \ DirectoriesOf(id)
            /\ aios' = aios \ AiosOf(FilesOf(id))
            /\ heap' = sftp_free(sftp_closedir(closeFiles(heap, FilesOf(id)),
                                               DirectoriesOf(id)), {id})
       ELSE UNCHANGED <<sftps, files, directories, aios, heap>>
    /\ UNCHANGED <<session, channels, held>>

\* Mutant: the SFTP sessions are freed before what was opened through them.
releaseOwnersFirst(h) ==
    ssh_channel_free(sftp_closedir(closeFiles(sftp_free(h, sftps), files), directories), channels)

\* Everything the actor still has; the registries are emptied with it.
releaseResources(h) ==
    ssh_channel_free(sftp_free(sftp_closedir(closeFiles(h, files), directories), sftps), channels)

RegistriesEmptied ==
    /\ channels' = {} /\ sftps' = {} /\ files' = {} /\ directories' = {} /\ aios' = {}

\* SSHClient's initialiser gives up on a session it could not configure.
freeUnused ==
    /\ session /\ link = "idle"
    /\ heap' = ssh_free(releaseResources(heap))
    /\ session' = FALSE /\ link' = "down"
    /\ RegistriesEmptied
    /\ Replied(Session, "done")
    /\ UNCHANGED <<held, code>>

\* The release inside free() finds the registries empty, and a second close
\* finds no session.
close ==
    /\ heap' = ssh_free(ssh_disconnect(releaseResources(heap)))
    /\ session' = FALSE /\ link' = "down"
    /\ RegistriesEmptied
    /\ Replied(Session, "done")
    /\ UNCHANGED <<held, code>>

-----------------------------------------------------------------------------

Init ==
    /\ session = TRUE
    /\ channels = {} /\ sftps = {} /\ files = {} /\ directories = {} /\ aios = {}
    /\ held = {Session}
    /\ heap = [session |-> TRUE, channels |-> {}, sftps |-> {}, pipes |-> {}, files |-> {},
               directories |-> {}, slots |-> {}, garbage |-> {}, requests |-> {}, misuse |-> {}]
    /\ link = "idle" /\ code = "ok"
    /\ last = [handle |-> Session, result |-> "ok"]

SessionStep == setOption \/ connect \/ serverHostKey \/ authenticate \/ freeUnused \/ close
ChannelStep(id) == openChannelSession(id) \/ useChannel(id) \/ closeChannel(id)
SftpStep(id) == createSftp(id) \/ pathOperation(id) \/ freeSftp(id)
FileStep(id) == openFile(id) \/ useFile(id) \/ seekFile(id) \/ closeFile(id)
DirectoryStep(id) == openDirectory(id) \/ readDirectory(id) \/ closeDirectory(id)
AioStep(a) == beginRead(a) \/ beginWrite(a) \/ waitRead(a) \/ waitWrite(a)

Next ==
    \/ LoseConnection
    \/ SessionStep
    \/ \E id \in SSHChannelID : ChannelStep(id)
    \/ \E id \in SFTPClientID : SftpStep(id)
    \/ \E id \in SFTPFileID : FileStep(id)
    \/ \E id \in SFTPDirectoryID : DirectoryStep(id)
    \/ \E a \in SFTPAioID : AioStep(a)

Spec == Init /\ [][Next]_vars

-----------------------------------------------------------------------------
(* Properties. *)

TypeOK ==
    /\ session \in BOOLEAN
    /\ channels \subseteq SSHChannelID /\ sftps \subseteq SFTPClientID
    /\ files \subseteq SFTPFileID /\ directories \subseteq SFTPDirectoryID
    /\ aios \subseteq SFTPAioID
    /\ held \subseteq Handle
    /\ heap \in Heap
    /\ link \in {"idle", "up", "down"}
    /\ code \in {"ok", "denied", "fatal"}
    /\ last \in [handle : Handle, result : Result]

\* No method of the actor hands libssh a pointer to an object that was freed,
\* whatever was closed, in whatever order, while scopes were suspended.  The
\* exception is the status a failed createSftp reads (ErrorReadBeforeFree).
NothingDangles == heap.misuse \subseteq {"sftp_get_error"}

\* What sftp.h:285 says of sftp_free, "Close and deallocate a sftp session",
\* and sftp.h:310 of sftp_get_error, "The sftp session where the error is
\* saved": validate (LibSSH.swift:304) asks for the error of a session while
\* the session is still allocated.
ErrorReadBeforeFree == "sftp_get_error" \notin heap.misuse

\* What libssh has allocated is exactly what the actor can still reach and
\* close: a failing open frees what it made (LibSSH.swift:410, 484) and a
\* close frees what was opened through the object (496, 654, 217).
NothingLeaks ==
    /\ heap.session = session
    /\ heap.channels = channels
    /\ heap.sftps = sftps /\ heap.pipes = sftps
    /\ heap.files = files /\ heap.directories = directories
    /\ heap.slots = aios
    /\ heap.requests \subseteq aios
    /\ aios \cap held \subseteq heap.requests

\* A registered object was opened through objects that are registered, and a
\* closed session has none.
OwnersRegistered ==
    /\ \A a \in aios : a.fileId \in files
    /\ \A f \in files : f.sftpId \in sftps
    /\ \A d \in directories : d.sftpId \in sftps
    /\ channels \cup sftps # {} => session

\* What an earlier call left with libssh, and error() still finds after the
\* connection was lost: the status of an SFTP session, unless libssh recorded
\* the loss, and a refusal, which it takes for one of the authentication.
StaleStatus ==
    /\ code # "fatal"
    /\ last'.result = "sftpError" /\ last'.handle \notin {Session} \cup SSHChannelID

StaleRefusal == code = "denied" /\ last'.result = "authenticationFailed"

\* After the connection was lost, every call that needs the server says so,
\* whatever the calls before it left with libssh (error(), 259-286; for what
\* opens a channel requireConnected, 243), unless the object it is made on is
\* closed, the end of its data was seen, or the window has no room for the
\* request, so that nothing is sent.  The answers that may yet be an earlier
\* call's are StaleStatus and StaleRefusal, and there is no third.
LostLinkIsReported ==
    [][link = "down" =>
         \/ last' = last
         \/ last'.result \in {"connectionFailed", "closed", "done", "none"}
         \/ StaleStatus
         \/ StaleRefusal]_vars

\* What sftp.h:675-677 asks of the caller: "the open sftp file handle passed to
\* sftp_aio_begin_read() must not be closed before the corresponding call to
\* sftp_aio_wait_read()".
RequestsWaitedBeforeClose ==
    [][\A f \in files \ files' : \A a \in heap.requests : a.fileId # f]_vars

\* The parents of a handle, for the tree that SSHSession implements.
Ancestors == [h \in Handle |->
    IF h = Session THEN {}
    ELSE IF h \in SSHChannelID \cup SFTPClientID THEN {Session}
    ELSE IF h \in SFTPFileID \cup SFTPDirectoryID THEN {Session, h.sftpId}
    ELSE {Session, h.fileId, h.fileId.sftpId}]

\* What is open: the session and everything that is registered.
Registered == (IF session THEN {Session} ELSE {})
                  \cup channels \cup sftps \cup files \cup directories \cup aios

\* Callers of the tree can tell "closed" from every other result.
Outcome == [handle |-> last.handle,
            answer |-> IF last.result = "closed" THEN "closed" ELSE "served"]

Tree == INSTANCE HandleTree WITH
    Root <- Session, open <- Registered, known <- held, last <- Outcome

\* Every behaviour of the actor is one of the tree of handles: closing takes
\* the subtree in one step, and a closed handle is answered "closed" for good.
ImplementsHandleTree == Tree!Spec

=============================================================================
