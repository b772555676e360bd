----------------------------- MODULE HandleTree -----------------------------
(***************************************************************************)
(* What SwiftLibSSH promises about the handles it gives out (SSHClient,    *)
(* SFTPClient, SFTPFile, SFTPDirectory, SSHSessionChannel, and the         *)
(* contexts of asynchronous requests): they form a tree rooted at the      *)
(* session, closing a handle closes everything opened through it in the    *)
(* same step, a handle that was closed is answered "closed" by every later *)
(* call and never comes back to life.  SSHSession implements this module.  *)
(***************************************************************************)
CONSTANTS
    Handle,     \* every handle that can exist
    Root,       \* the handle of the session itself
    Ancestors   \* for each handle, the handles it was opened through

ASSUME HandleTreeAssumption ==
    /\ Root \in Handle
    /\ Ancestors \in [Handle -> SUBSET Handle]
    /\ Ancestors[Root] = {}
    /\ \A h \in Handle \ {Root} : Root \in Ancestors[h]
    /\ \A h \in Handle : h \notin Ancestors[h]
    /\ \A h \in Handle : \A a \in Ancestors[h] : Ancestors[a] \subseteq Ancestors[h]

VARIABLES
    open,   \* handles that are open
    known,  \* handles that some caller holds, open or not
    last    \* the handle of the latest call and how the call was answered

vars == <<open, known, last>>

Answer == {"served", "closed"}

\* The handles opened, directly or not, through h.
Below(h) == {k \in Handle : h \in Ancestors[k]}

Answered(h, answer) == last' = [handle |-> h, answer |-> answer]

-----------------------------------------------------------------------------

Init ==
    /\ open = {Root}
    /\ known = {Root}
    /\ last = [handle |-> Root, answer |-> "served"]

\* Mutant: a handle that is not open may be opened again.
OpenAgain(h) ==
    /\ h \notin open
    /\ Ancestors[h] \subseteq open
    /\ open' = open \cup {h}
    /\ known' \in {known, known \cup {h}}
    /\ \E a \in Ancestors[h] : Answered(a, "served")

\* A call on one of h's ancestors opens h.  The caller may fail to receive it
\* (the begin of a request that fails after its slot was registered).
Open(h) ==
    /\ h \notin open \cup known
    /\ Ancestors[h] \subseteq open
    /\ open' = open \cup {h}
    /\ known' \in {known, known \cup {h}}
    /\ \E a \in Ancestors[h] : Answered(a, "served")

\* A call that opens and closes nothing.
Use(h) ==
    /\ h \in known
    /\ Answered(h, IF h \in open THEN "served" ELSE "closed")
    /\ UNCHANGED <<open, known>>

\* Mutant: only h itself is closed.
CloseAlone(h) ==
    /\ h \in known
    /\ open' = open \ {h}
    /\ Answered(h, "served")
    /\ UNCHANGED known

\* A call that closes h and all that was opened through it.  Closing is
\* idempotent: it is never answered "closed".
Close(h) ==
    /\ h \in known
    /\ open' = open \ ({h} \cup Below(h))
    /\ Answered(h, "served")
    /\ UNCHANGED known

\* A call that consumes h: the wait for an asynchronous request.
Consume(h) ==
    /\ h \in known \cap open
    /\ open' = open \ ({h} \cup Below(h))
    /\ Answered(h, "served")
    /\ UNCHANGED known

Next == \E h \in Handle : Open(h) \/ Use(h) \/ Close(h) \/ Consume(h)

Spec == Init /\ [][Next]_vars

-----------------------------------------------------------------------------

TypeOK ==
    /\ open \subseteq Handle
    /\ known \subseteq Handle
    /\ last \in [handle : Handle, answer : Answer]

\* No handle outlives one it was opened through.
OwnersOpen == \A h \in open : Ancestors[h] \subseteq open

\* A handle that was closed stays closed.
ClosedForGood == [][known \ open \subseteq known' \ open']_vars

=============================================================================
