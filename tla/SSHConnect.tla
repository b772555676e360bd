----------------------------- MODULE SSHConnect -----------------------------
(***************************************************************************)
(* How libssh, with the patch of patches/libssh, finds an address of a     *)
(* host to connect to: ssh_socket_connect, ssh_connect_host_nonblocking    *)
(* and the part of ssh_socket_pollcallback that handles a connection that  *)
(* failed.                                                                 *)
(*                                                                         *)
(* The addresses of the host are 1 .. Count in the order of the list, and  *)
(* NULL is the end of the list.  A descriptor is named by the address it   *)
(* connects to.  ssh_connect_host_nonblocking goes through the list once   *)
(* from `next` and prefers an address that connects at once to the first   *)
(* that is in progress; the others it closes again.  What the network does *)
(* with each attempt is chosen anew each time.                             *)
(***************************************************************************)
EXTENDS Integers

CONSTANT Count      \* how many addresses the host has

ASSUME CountAssumption == Count \in Nat \ {0}

Address == 1 .. Count
NULL == Count + 1
NoFd == 0

VARIABLES
    state,      \* the state of the socket; "attempt" is inside the loop
    caller,     \* who runs the loop
    ai,         \* s->ai: the list of addresses, or no list
    next,       \* s->ai_next
    fd,         \* s->fd
    itr,        \* the address the loop is at
    found,      \* the descriptor that connected at once: s
    first,      \* the first descriptor that is in progress
    firstNext,  \* first_next
    open,       \* descriptors that are open
    refused,    \* addresses whose latest attempt was refused
    accepted    \* addresses that have accepted a connection

loop == <<itr, found, first, firstNext>>
vars == <<state, caller, ai, next, fd, loop, open, refused, accepted>>

State == {"none", "attempt", "connecting", "connected", "unresolved", "error", "timeout",
          "freed"}

-----------------------------------------------------------------------------

\* The loop starts at address n.
EnterLoop(by, n) ==
    /\ state' = "attempt" /\ caller' = by
    /\ next' = n /\ itr' = n
    /\ found' = NoFd /\ first' = NoFd /\ firstNext' = NULL

\* The name of the host is resolved, or it is not.
ssh_socket_connect ==
    /\ state = "none"
    /\ \/ ai' = "list" /\ EnterLoop("connect", 1)
       \/ state' = "unresolved" /\ UNCHANGED <<caller, ai, next, loop>>
    /\ UNCHANGED <<fd, open, refused, accepted>>

Looping == state = "attempt" /\ found = NoFd /\ itr # NULL

\* No socket, or a connection that is refused at once: on to the next address.
AttemptRefused ==
    /\ Looping
    /\ refused' = refused \cup {itr}
    /\ itr' = itr + 1
    /\ UNCHANGED <<state, caller, ai, next, fd, found, first, firstNext, open, accepted>>

\* Mutants: the addresses after the first one in progress are forgotten; the
\* first one stays the next one; the one after it is passed over.
ForgetsRest == NULL
TriesFirstAgain == itr
PassesOver == itr + 2

AfterFirst == itr + 1

\* Only the first connection that is in progress is kept.
AttemptPending ==
    /\ Looping
    /\ IF first = NoFd
       THEN first' = itr /\ firstNext' = AfterFirst /\ open' = open \cup {itr}
       ELSE UNCHANGED <<first, firstNext, open>>
    /\ refused' = refused \ {itr}
    /\ itr' = itr + 1
    /\ UNCHANGED <<state, caller, ai, next, fd, found, accepted>>

AttemptConnected ==
    /\ Looping
    /\ found' = itr
    /\ open' = open \cup {itr}
    /\ refused' = refused \ {itr} /\ accepted' = accepted \cup {itr}
    /\ UNCHANGED <<state, caller, ai, next, fd, itr, first, firstNext>>

\* Mutant: the connection in progress stays open next to the one found.
KeepsFirst == {}

\* What the loop closes when it is left.
Superseded == IF found # NoFd /\ first # NoFd THEN {first} ELSE {}

Result == IF found # NoFd THEN found ELSE first

\* The loop is left, and its caller goes on with the result: the descriptor
\* replaces the one that failed, or the attempt to connect has failed.
Settle ==
    /\ state = "attempt" /\ (found # NoFd \/ itr = NULL)
    /\ next' = IF found = NoFd THEN firstNext ELSE NULL
    /\ IF Result # NoFd
       THEN /\ state' = "connecting"
            /\ open' = (open \ Superseded) \ {fd}
            /\ fd' = Result
            /\ UNCHANGED ai
       ELSE /\ state' = "error"
            /\ open' = open \ {fd}
            /\ fd' = NoFd
            /\ ai' = IF caller = "connect" THEN "none" ELSE ai
    /\ UNCHANGED <<caller, loop, refused, accepted>>

HasNextAddress == next # NULL

\* POLLERR or POLLHUP while connecting.  The descriptor stays open until
\* another replaces it.
PollError ==
    /\ state = "connecting"
    /\ refused' = refused \cup {fd}
    /\ IF HasNextAddress
       THEN EnterLoop("poll", next) /\ UNCHANGED <<fd, open>>
       ELSE /\ state' = "error"
            /\ open' = open \ {fd} /\ fd' = NoFd
            /\ UNCHANGED <<caller, next, loop>>
    /\ UNCHANGED <<ai, accepted>>

PollOut ==
    /\ state = "connecting"
    /\ state' = "connected"
    /\ accepted' = accepted \cup {fd}
    /\ UNCHANGED <<caller, ai, next, fd, loop, open, refused>>

\* ssh_connect gives up after the timeout that SSHClient has set.
Timeout ==
    /\ state = "connecting"
    /\ state' = "timeout"
    /\ UNCHANGED <<caller, ai, next, fd, loop, open, refused, accepted>>

\* Mutant: the list of addresses stays with the socket.
KeepsHost == ai

ssh_socket_free_host == "none"

\* The session is closed, whatever became of its connection.
ssh_socket_free ==
    /\ state \in {"connected", "unresolved", "error", "timeout"}
    /\ state' = "freed"
    /\ open' = open \ {fd} /\ fd' = NoFd
    /\ ai' = ssh_socket_free_host /\ next' = NULL
    /\ UNCHANGED <<caller, loop, refused, accepted>>

-----------------------------------------------------------------------------

Init ==
    /\ state = "none" /\ caller = "connect" /\ ai = "none"
    /\ next = NULL /\ fd = NoFd
    /\ itr = NULL /\ found = NoFd /\ first = NoFd /\ firstNext = NULL
    /\ open = {} /\ refused = {} /\ accepted = {}

Attempt == AttemptRefused \/ AttemptPending \/ AttemptConnected

Next ==
    \/ ssh_socket_connect \/ Attempt \/ Settle
    \/ PollError \/ PollOut \/ Timeout \/ ssh_socket_free

\* The call runs to its end: attempts do not block, and waiting for one ends
\* by the timeout if not before.  Nobody has to close the session.
Fairness ==
    /\ WF_vars(ssh_socket_connect \/ Attempt \/ Settle)
    /\ WF_vars(PollError \/ PollOut \/ Timeout)

Spec == Init /\ [][Next]_vars /\ Fairness

-----------------------------------------------------------------------------
(* Properties. *)

TypeOK ==
    /\ state \in State /\ caller \in {"connect", "poll"} /\ ai \in {"none", "list"}
    /\ next \in 1 .. NULL /\ itr \in 1 .. NULL /\ firstNext \in 1 .. NULL
    /\ fd \in 0 .. Count /\ found \in 0 .. Count /\ first \in 0 .. Count
    /\ open \subseteq Address /\ refused \subseteq Address /\ accepted \subseteq Address

\* Outside the loop the socket's descriptor is the only one that is open, and
\* a socket that failed or was freed has none.
OneDescriptor ==
    state # "attempt" => open = (IF fd = NoFd THEN {} ELSE {fd})

\* The addresses are there as long as one of them may be tried, and are freed
\* with the socket.
AddressesLive ==
    /\ state \in {"attempt", "connecting"} => ai = "list"
    /\ state = "freed" => ai = "none"

\* An attempt that fails has been refused by every address, unless one took it
\* and hung up.  An address that was in progress and given up for an earlier
\* one is tried again.
FailsOnlyWhenRefused ==
    state = "error" => refused = Address \/ accepted # {}

\* Every attempt to connect ends, each address being waited for once.
AttemptEnds == <>(state \in {"connected", "unresolved", "error", "timeout"})

=============================================================================
