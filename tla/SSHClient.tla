----------------------------- MODULE SSHClient -----------------------------
(***************************************************************************)
(* The life of a client (Sources/SwiftLibSSH/SSHClient.swift) over its     *)
(* session: the static functions connect, hostKey and                      *)
(* withAuthenticatedClient, and what happens to the session meanwhile.     *)
(*                                                                         *)
(* One call of one of the three is followed from its start to its end.     *)
(* Each step of it that awaits a method of the session is the action of    *)
(* SSHSession for that method together with what the client makes of the   *)
(* result.  As soon as the client is given out, any task that got hold of  *)
(* it, or of anything opened through it, may call the session as well:     *)
(* while the body of withAuthenticatedClient runs, while its session is    *)
(* being closed, and after the call returned.                              *)
(***************************************************************************)
EXTENDS SSHSession

CONSTANTS
    HostKey,    \* keys a server can present
    NoKey       \* the caller expects no key, or none was presented yet

ASSUME NoKeyAssumption == NoKey \notin HostKey

VARIABLES
    entry,      \* the function that was called
    expected,   \* expectedHostKey
    pc,         \* the next step of the call
    presented,  \* the key of the server that the session connected to
    credentials,\* the keys of the servers that were sent the credentials
    outcome     \* how the call ends

client == <<entry, expected, pc, presented, credentials, outcome>>
clientVars == <<vars, client>>

Entry == {"connect", "hostKey", "withAuthenticatedClient"}

Step == {"configure", "free", "connect", "verify", "authenticate", "hostKey", "body", "close",
         "open", "ended"}

\* The client was given out: to the caller of connect, or to a body.
GivenOut == entry # "hostKey" /\ outcome \in {"ok", "bodyError"}

-----------------------------------------------------------------------------
(* Steps of the call. *)

\* The call goes on at step next, or to the end by way of step cleanup with
\* the error that the session threw.
Continue(next) == pc' = next /\ UNCHANGED outcome

Catch(cleanup, thrown) == pc' = cleanup /\ outcome' = thrown

Try(next, cleanup) ==
    IF last'.result = "ok" THEN Continue(next) ELSE Catch(cleanup, last'.result)

\* init: the host, the port and the timeout are set, or the session is freed.
Configure ==
    /\ pc = "configure"
    /\ setOption
    /\ \E next \in {"configure", "connect"} : Try(next, "free")
    /\ UNCHANGED <<entry, expected, presented, credentials>>

Free ==
    /\ pc = "free"
    /\ freeUnused
    /\ Continue("ended")
    /\ UNCHANGED <<entry, expected, presented, credentials>>

\* Mutant: the expected key is not looked at.
AfterConnectUnverified == IF entry = "hostKey" THEN "hostKey" ELSE "authenticate"

AfterConnect ==
    IF entry = "hostKey" THEN "hostKey"
    ELSE IF expected # NoKey THEN "verify" ELSE "authenticate"

\* Mutant: the credentials go out with the connection, before the server has
\* presented its key.
ConnectWithCredentials ==
    /\ pc = "connect"
    /\ connect
    /\ presented' \in IF last'.result = "ok" THEN HostKey ELSE {NoKey}
    /\ credentials' = IF entry = "hostKey" THEN credentials ELSE credentials \cup {presented}
    /\ Try(AfterConnect, "close")
    /\ UNCHANGED <<entry, expected>>

\* The server is whoever answers at the address.
Connect ==
    /\ pc = "connect"
    /\ connect
    /\ presented' \in IF last'.result = "ok" THEN HostKey ELSE {NoKey}
    /\ Try(AfterConnect, "close")
    /\ UNCHANGED <<entry, expected, credentials>>

\* Mutant: only a connected session is asked for its key.
AsksConnected == Connected /\ serverHostKey

AsksForKey == serverHostKey

VerifyHostKey ==
    /\ pc = "verify"
    /\ AsksForKey
    /\ IF last'.result = "ok" /\ presented # expected
       THEN Catch("close", "hostKeyMismatch")
       ELSE Try("authenticate", "close")
    /\ UNCHANGED <<entry, expected, presented, credentials>>

\* What the server is told when the session is still connected.
Authenticate ==
    /\ pc = "authenticate"
    /\ authenticate
    /\ credentials' = IF Connected THEN credentials \cup {presented} ELSE credentials
    /\ IF last'.result = "ok"
       THEN /\ outcome' = "ok"
            /\ pc' = IF entry = "connect" THEN "open" ELSE "body"
       ELSE Catch("close", last'.result)
    /\ UNCHANGED <<entry, expected, presented>>

GetHostKey ==
    /\ pc = "hostKey"
    /\ AsksForKey
    /\ Catch("close", last'.result)
    /\ UNCHANGED <<entry, expected, presented, credentials>>

\* Mutant: the session is closed only when the body returns.
AfterBodyThatThrew(threw) == IF threw THEN "ended" ELSE "close"

AfterBody(threw) == "close"

\* The body of withAuthenticatedClient returns or throws.
BodyEnds ==
    /\ pc = "body"
    /\ \E threw \in BOOLEAN :
        /\ pc' = AfterBody(threw)
        /\ outcome' = IF threw THEN "bodyError" ELSE outcome
    /\ UNCHANGED <<vars, entry, expected, presented, credentials>>

Close ==
    /\ pc = "close"
    /\ close
    /\ pc' = "ended"
    /\ UNCHANGED <<entry, expected, presented, credentials, outcome>>

-----------------------------------------------------------------------------

\* A task that got hold of the client, or of a handle opened through it.
Use ==
    /\ GivenOut
    /\ \/ serverHostKey \/ close
       \/ \E id \in SSHChannelID : ChannelStep(id)
       \/ \E id \in SFTPClientID : SftpStep(id)
       \/ \E id \in SFTPFileID : FileStep(id)
       \/ \E id \in SFTPDirectoryID : DirectoryStep(id)
       \/ \E a \in SFTPAioID : AioStep(a)
    /\ UNCHANGED client

Lose == LoseConnection /\ UNCHANGED client

ClientInit ==
    /\ Init
    /\ entry \in Entry
    /\ expected \in IF entry = "hostKey" THEN {NoKey} ELSE HostKey \cup {NoKey}
    /\ pc = "configure" /\ presented = NoKey /\ credentials = {} /\ outcome = "none"

CallStep ==
    \/ Configure \/ Free \/ Connect \/ VerifyHostKey \/ Authenticate \/ GetHostKey
    \/ BodyEnds \/ Close

ClientNext == CallStep \/ Use \/ Lose

\* The task that made the call runs whenever it can, and there are three options
\* to set.  A body may run for ever.
Fairness ==
    /\ WF_clientVars(Configure /\ pc' # "configure")
    /\ WF_clientVars(Free \/ Connect \/ VerifyHostKey \/ Authenticate \/ GetHostKey \/ Close)

ClientSpec == ClientInit /\ [][ClientNext]_clientVars /\ Fairness

-----------------------------------------------------------------------------
(* Properties. *)

ClientTypeOK ==
    /\ TypeOK
    /\ entry \in Entry /\ pc \in Step
    /\ expected \in HostKey \cup {NoKey} /\ presented \in HostKey \cup {NoKey}
    /\ credentials \subseteq HostKey
    /\ outcome \in Result \cup {"none", "hostKeyMismatch", "bodyError"}

\* The credentials go to no server but the one whose key the caller expects,
\* and to none while only the key is asked for (SSHClient.swift:72-103).
CredentialsToExpected ==
    /\ \A key \in credentials : expected \in {NoKey, key}
    /\ entry = "hostKey" => credentials = {}

\* Nothing that libssh allocated is left.
Freed ==
    /\ ~heap.session
    /\ heap.channels = {} /\ heap.sftps = {} /\ heap.pipes = {} /\ heap.files = {}
    /\ heap.directories = {} /\ heap.slots = {} /\ heap.requests = {}

\* A call that ended, at whatever step it failed, has given back everything
\* that was allocated for it, and what its body let escape opens nothing new
\* (SSHClient.swift:38-41, 84-87, 115-122).  A connect that returned its client
\* has not ended: the client is the caller's to close.
EndedIsFreed == pc = "ended" => Freed

\* Every call comes to its body, returns its client, or ends, whenever the
\* connection is lost on the way.
CallArrives == <>(pc \in {"body", "open", "ended"})

=============================================================================
