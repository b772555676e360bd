------------------------------ MODULE CLibSSH ------------------------------
(***************************************************************************)
(* The functions of libssh that SSHSession calls, as far as the objects    *)
(* they make and free are concerned: what each needs to be allocated, what *)
(* it allocates, and what it takes away.  libssh itself is a prebuilt      *)
(* library; this is the contract that its headers state, and each operator *)
(* has the name of its function.                                           *)
(*                                                                         *)
(* The C objects are the sets of those that are allocated, so a pointer    *)
(* kept too long shows up in `misuse` and one dropped too early as an      *)
(* object with no identifier.                                              *)
(***************************************************************************)

CONSTANTS
    Session,        \* the handle of the session
    SSHChannelID,   \* identifiers of session channels
    SFTPClientID,   \* identifiers of SFTP sessions
    FileUUID, DirectoryUUID, AioUUID

\* An identifier carries the identifier of the object it was opened through.
SFTPFileID      == [sftpId : SFTPClientID, uuid : FileUUID]
SFTPDirectoryID == [sftpId : SFTPClientID, uuid : DirectoryUUID]
SFTPAioID       == [fileId : SFTPFileID, uuid : AioUUID]

Handle == {Session} \cup SSHChannelID \cup SFTPClientID \cup SFTPFileID
              \cup SFTPDirectoryID \cup SFTPAioID

\* The identifiers of each kind are a Swift type of their own.
ASSUME KindsAreDisjoint ==
    /\ Session \notin SSHChannelID \cup SFTPClientID \cup SFTPFileID
                         \cup SFTPDirectoryID \cup SFTPAioID
    /\ SSHChannelID \cap (SFTPClientID \cup SFTPFileID \cup SFTPDirectoryID \cup SFTPAioID) = {}
    /\ SFTPClientID \cap (SFTPFileID \cup SFTPDirectoryID \cup SFTPAioID) = {}
    /\ SFTPFileID \cap (SFTPDirectoryID \cup SFTPAioID) = {}
    /\ SFTPDirectoryID \cap SFTPAioID = {}

-----------------------------------------------------------------------------

\* The functions that are given a pointer; the last three stand for a group.
Function ==
    {"sftp_init", "sftp_limits", "sftp_get_error", "sftp_free", "ssh_channel_free", "sftp_open",
     "sftp_close", "sftp_seek64", "sftp_opendir", "sftp_readdir", "sftp_closedir",
     "sftp_aio_begin_read", "sftp_aio_begin_write", "sftp_aio_wait_read", "sftp_aio_wait_write",
     "sftp_aio_free", "sftp", "sftp_file", "ssh_channel"}

Heap == [session     : BOOLEAN,
         channels    : SUBSET SSHChannelID,     \* ssh_channel
         sftps       : SUBSET SFTPClientID,     \* sftp_session
         pipes       : SUBSET SFTPClientID,     \* the ssh_channel inside an sftp_session
         files       : SUBSET SFTPFileID,       \* sftp_file
         directories : SUBSET SFTPDirectoryID,  \* sftp_dir
         slots       : SUBSET SFTPAioID,        \* sftp_aio * cells
         garbage     : SUBSET SFTPAioID,        \* cells never written
         requests    : SUBSET SFTPAioID,        \* sftp_aio of a request in flight
         misuse      : SUBSET Function]         \* functions given a dangling pointer

\* Calling fn is legal only while the objects it reaches are allocated.
Call(h, fn, legal) == IF legal THEN h ELSE [h EXCEPT !.misuse = @ \cup {fn}]

\* Freeing or disconnecting the session takes the pipes away.
SftpAlive(h, ids) == ids \subseteq h.sftps /\ ids \subseteq h.pipes

SftpsOf(ids) == {id.sftpId : id \in ids}

ssh_channel_new(h, id) == [h EXCEPT !.channels = @ \cup {id}]

sftp_new(h, id) == [h EXCEPT !.sftps = @ \cup {id}, !.pipes = @ \cup {id}]

sftp_init(h, id) == Call(h, "sftp_init", SftpAlive(h, {id}))

sftp_limits(h, id) == Call(h, "sftp_limits", SftpAlive(h, {id}))

\* The status is kept in the sftp_session itself, which needs no pipe.
sftp_get_error(h, id) == Call(h, "sftp_get_error", id \in h.sftps)

sftp_free(h, ids) ==
    [Call(h, "sftp_free", SftpAlive(h, ids)) EXCEPT !.sftps = @ \ ids, !.pipes = @ \ ids]

ssh_channel_free(h, ids) ==
    [Call(h, "ssh_channel_free", ids \subseteq h.channels) EXCEPT !.channels = @ \ ids]

sftp_close(h, ids) ==
    [Call(h, "sftp_close", SftpAlive(h, SftpsOf(ids)) /\ ids \subseteq h.files)
        EXCEPT !.files = @ \ ids]

sftp_closedir(h, ids) ==
    [Call(h, "sftp_closedir", SftpAlive(h, SftpsOf(ids)) /\ ids \subseteq h.directories)
        EXCEPT !.directories = @ \ ids]

sftp_open(h, id) ==
    [Call(h, "sftp_open", SftpAlive(h, {id.sftpId})) EXCEPT !.files = @ \cup {id}]

sftp_opendir(h, id) ==
    [Call(h, "sftp_opendir", SftpAlive(h, {id.sftpId})) EXCEPT !.directories = @ \cup {id}]

\* Disconnecting, like freeing the session, frees every channel it still has.
ssh_disconnect(h) == IF h.session THEN [h EXCEPT !.channels = {}, !.pipes = {}] ELSE h

ssh_free(h) == [ssh_disconnect(h) EXCEPT !.session = FALSE]

FileAlive(h, f) == SftpAlive(h, {f.sftpId}) /\ f \in h.files

\* sftp_aio_begin_read and sftp_aio_begin_write, once they succeed.
sendRequest(h, a) == [h EXCEPT !.requests = @ \cup {a}]

\* sftp_aio_wait_read and sftp_aio_wait_write consume the request, whatever
\* its outcome.
awaitRequest(h, a, fn) ==
    [Call(h, fn, FileAlive(h, a.fileId) /\ a \in h.requests) EXCEPT !.requests = @ \ {a}]

\* The requests whose slots point to one; reading a slot needs the slot.
sftp_aio_free(h, as) ==
    [Call(h, "sftp_aio_free", as \subseteq h.slots /\ as \cap h.garbage = {})
        EXCEPT !.requests = @ \ as]

=============================================================================
