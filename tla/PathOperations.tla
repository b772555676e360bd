--------------------------- MODULE PathOperations ---------------------------
(***************************************************************************)
(* The path operations of SFTPClient that make more than one request, or   *)
(* change what another one relies on: setStat, symlink, rename and unlink  *)
(* of SSHSession, called by the clients of several SSH sessions on one     *)
(* server.                                                                 *)
(*                                                                         *)
(* setStat reads the attributes of a path, changes some and writes them    *)
(* back, since SFTP version 3 has some attributes in pairs that can only   *)
(* be written together.  symlink asks why it was refused.  Between the two *)
(* requests of such a call the actor of its session is held, so that only  *)
(* the calls of other sessions come between.                               *)
(*                                                                         *)
(* A file is what a path leads to, and goes on existing under another path *)
(* when it is moved.  The value of an attribute is the call that chose it. *)
(* The server follows a link, but not to another link.                     *)
(***************************************************************************)

CONSTANTS
    Caller,         \* each makes one call
    Session,        \* SSH sessions
    SessionOf,      \* the session through which each caller calls
    Path,           \* names in a directory of the server
    File,           \* files and links, whether or not a path leads to them
    Attribute,      \* uid, gid, access time, ...
    Group,          \* sets of attributes that one flag stands for
    None, Initial

ASSUME PathOperationsAssumption ==
    /\ SessionOf \in [Caller -> Session]
    /\ UNION Group = Attribute
    /\ \A g, h \in Group : g = h \/ g \cap h = {}
    /\ None \notin Path \cup File \cup Caller
    /\ Initial \notin Caller

Value == Caller \cup {Initial}

VARIABLES
    tree,       \* the file each path names, or None
    target,     \* the path that a link leads to, None for what is no link
    attr,       \* the attributes of each file
    call,       \* the call each caller is in the middle of
    pc,         \* its next request, "idle" before the call and "done" after
    outcome,    \* what it was answered
    found,      \* the file that its first request found
    read,       \* the attributes it found there
    latest,     \* history: the call that last asked for a value of an attribute
    changed,    \* history: the call that last gave an attribute another value
    overtaken   \* history: calls between whose requests others changed something

calls == <<call, pc, outcome, found, read>>
vars == <<tree, target, attr, call, pc, outcome, found, read, latest, changed, overtaken>>

Call == [op : {"setStat"}, path : Path, fields : SUBSET Attribute, followSymlinks : BOOLEAN]
            \cup [op : {"symlink"}, path : Path, to : Path]

NoCall == [op |-> "none"]

-----------------------------------------------------------------------------
(* The server. *)

IsLink(f) == f # None /\ target[f] # None

sftp_lstat(p) == tree[p]

sftp_stat(p) ==
    IF ~IsLink(tree[p]) THEN tree[p]
    ELSE LET f == tree[target[tree[p]]] IN IF IsLink(f) THEN None ELSE f

\* Something on the server changes: all calls of other sessions that are
\* between two requests are overtaken.
Between(c) == pc[c] \in {"setstat", "lstat"}

Overtakes(c) ==
    overtaken' = overtaken \cup {d \in Caller : Between(d) /\ SessionOf[d] # SessionOf[c]}

\* The attributes in `flags` of file f are written, and no others: what a server
\* changes besides (times, mode bits) is left out.
Written(c, f, flags, values) ==
    /\ attr' = [attr EXCEPT ![f] = [a \in Attribute |->
                    IF a \in flags THEN values[a] ELSE @[a]]]
    /\ latest' = [latest EXCEPT ![f] = [a \in Attribute |->
                    IF a \in flags \cap call[c].fields THEN c ELSE @[a]]]
    /\ changed' = [changed EXCEPT ![f] = [a \in Attribute |->
                    IF a \in flags /\ (a \in call[c].fields \/ values[a] # attr[f][a])
                    THEN c ELSE @[a]]]

NothingWritten == UNCHANGED <<attr, latest, changed>>

\* A request to write attributes succeeds as a whole or fails, maybe when some
\* of them are written already.
sftp_setstat(c, f, groups, values, result) ==
    /\ f = None => result = "failed"
    /\ IF f = None THEN NothingWritten
       ELSE \E gs \in (IF result = "ok" THEN {groups} ELSE SUBSET groups) :
                Written(c, f, UNION gs, values)

\* The flags are the same; only the link is not followed.
sftp_lsetstat(c, f, groups, values, result) == sftp_setstat(c, f, groups, values, result)

\* Mutant: the old name stays.
renameAsLink(p, q) == tree' = [tree EXCEPT ![q] = tree[p]]

\* What was at the new name is replaced, unless the server refuses.
sftp_rename(p, q) == tree' = [tree EXCEPT ![q] = tree[p], ![p] = IF p = q THEN @ ELSE None]

sftp_unlink(p) == tree' = [tree EXCEPT ![p] = None]

\* A new file, with attributes of its own, is at the path.
sftp_symlink(to, p) ==
    \E f \in File :
        /\ \A q \in Path : tree[q] # f
        /\ tree' = [tree EXCEPT ![p] = f]
        /\ target' = [target EXCEPT ![f] = to]
        /\ attr' = [attr EXCEPT ![f] = [a \in Attribute |-> Initial]]
        /\ latest' = [latest EXCEPT ![f] = [a \in Attribute |-> Initial]]
        /\ changed' = [changed EXCEPT ![f] = [a \in Attribute |-> Initial]]

-----------------------------------------------------------------------------
(* The calls. *)

\* Mutant: the actor takes up another call between two requests of one.
NeverHeld(c) == TRUE

\* The actor of the caller's session is not in the middle of a call.
ActorFree(c) == \A d \in Caller : Between(d) => SessionOf[d] # SessionOf[c]

Asks(c) == pc[c] = "idle" /\ ActorFree(c)

\* The call goes on with another request.
GoesOn(c, k, request) ==
    /\ pc' = [pc EXCEPT ![c] = request]
    /\ call' = [call EXCEPT ![c] = k]
    /\ UNCHANGED outcome

Answered(c, result) ==
    /\ pc' = [pc EXCEPT ![c] = "done"]
    /\ call' = [call EXCEPT ![c] = NoCall]
    /\ outcome' = [outcome EXCEPT ![c] = result]

\* The file that a setStat starts from.
Stat(k) == IF k.followSymlinks THEN sftp_stat(k.path) ELSE sftp_lstat(k.path)

\* setStat reads the attributes; without them it throws.
setStat(c) ==
    /\ Asks(c)
    /\ \/ \E k \in Call :
            /\ k.op = "setStat" /\ Stat(k) # None
            /\ found' = [found EXCEPT ![c] = Stat(k)]
            /\ read' = [read EXCEPT ![c] = attr[Stat(k)]]
            /\ GoesOn(c, k, "setstat")
       \/ Answered(c, "failed") /\ UNCHANGED <<found, read>>
    /\ UNCHANGED <<tree, target, attr, latest, changed, overtaken>>

\* What is written: the chosen values, and with them what was read.
Values(c) == [a \in Attribute |-> IF a \in call[c].fields THEN c ELSE read[c][a]]

\* A flag is set when one of its attributes is chosen.
Flags(fields) == {g \in Group : g \cap fields # {}}

\* Mutant: the link is followed when the attributes are written.
WriteFollowing(k) == sftp_stat(k.path)

\* The file that it writes to: the path is looked up again.
Write(k) == IF k.followSymlinks THEN sftp_stat(k.path) ELSE sftp_lstat(k.path)

setStatWrites(c) ==
    /\ pc[c] = "setstat"
    /\ \E result \in {"ok", "failed"} :
        /\ Answered(c, result)
        /\ LET f == Write(call[c])
               groups == Flags(call[c].fields)
           IN  IF call[c].followSymlinks THEN sftp_setstat(c, f, groups, Values(c), result)
               ELSE sftp_lsetstat(c, f, groups, Values(c), result)
    /\ Overtakes(c)
    /\ found' = [found EXCEPT ![c] = None]
    /\ read' = [read EXCEPT ![c] = [a \in Attribute |-> Initial]]
    /\ UNCHANGED <<tree, target>>

\* symlink: when libssh fails with the server's generic failure, the session
\* looks whether something is in the way.  Other errors are thrown at once.
symlink(c) ==
    /\ Asks(c)
    /\ \E k \in Call :
        /\ k.op = "symlink"
        /\ \/ /\ tree[k.path] = None
              /\ sftp_symlink(k.to, k.path)
              /\ Answered(c, "ok") /\ Overtakes(c)
              /\ UNCHANGED found
           \/ /\ GoesOn(c, k, "lstat")
              /\ found' = [found EXCEPT ![c] = tree[k.path]]
              /\ UNCHANGED <<tree, target, attr, latest, changed, overtaken>>
           \/ /\ Answered(c, "failed")
              /\ UNCHANGED <<tree, target, attr, found, latest, changed, overtaken>>
    /\ UNCHANGED read

\* Mutant: every failure is taken to mean that something is in the way.
InTheWayAnyhow(c) == TRUE

InTheWay(c) == sftp_lstat(call[c].path) # None

\* The lstat itself may fail for any reason.
symlinkExplains(c) ==
    /\ pc[c] = "lstat"
    /\ \/ InTheWay(c) /\ Answered(c, "fileAlreadyExists")
       \/ Answered(c, "failed")
    /\ UNCHANGED <<tree, target, attr, found, read, latest, changed, overtaken>>

rename(c) ==
    /\ Asks(c)
    /\ \/ \E from, to \in Path :
            /\ tree[from] # None
            /\ sftp_rename(from, to)
            /\ Answered(c, "ok") /\ Overtakes(c)
       \/ Answered(c, "failed") /\ UNCHANGED <<tree, overtaken>>
    /\ UNCHANGED <<target, attr, found, read, latest, changed>>

unlink(c) ==
    /\ Asks(c)
    /\ \/ \E path \in Path :
            /\ tree[path] # None
            /\ sftp_unlink(path)
            /\ Answered(c, "ok") /\ Overtakes(c)
       \/ Answered(c, "failed") /\ UNCHANGED <<tree, overtaken>>
    /\ UNCHANGED <<target, attr, found, read, latest, changed>>

-----------------------------------------------------------------------------

\* Any files, links among them; no two paths name the same file.
Init ==
    /\ tree \in [Path -> File \cup {None}]
    /\ \A p, q \in Path : tree[p] = tree[q] /\ tree[p] # None => p = q
    /\ target \in [File -> Path \cup {None}]
    /\ attr = [f \in File |-> [a \in Attribute |-> Initial]]
    /\ latest = attr /\ changed = attr
    /\ call = [c \in Caller |-> NoCall]
    /\ pc = [c \in Caller |-> "idle"]
    /\ outcome = [c \in Caller |-> "none"]
    /\ found = [c \in Caller |-> None]
    /\ read = [c \in Caller |-> [a \in Attribute |-> Initial]]
    /\ overtaken = {}

Step(c) == setStat(c) \/ setStatWrites(c) \/ symlink(c) \/ symlinkExplains(c)
               \/ rename(c) \/ unlink(c)

Next == \E c \in Caller : Step(c)

Spec == Init /\ [][Next]_vars

-----------------------------------------------------------------------------
(* Properties. *)

\* Nothing here makes a second name for a file.
TypeOK ==
    /\ tree \in [Path -> File \cup {None}]
    /\ \A p, q \in Path : tree[p] = tree[q] /\ tree[p] # None => p = q
    /\ target \in [File -> Path \cup {None}]
    /\ {attr, latest, changed} \subseteq [File -> [Attribute -> Value]]
    /\ call \in [Caller -> Call \cup {NoCall}]
    /\ pc \in [Caller -> {"idle", "setstat", "lstat", "done"}]
    /\ outcome \in [Caller -> {"none", "ok", "failed", "fileAlreadyExists"}]
    /\ found \in [Caller -> File \cup {None}]
    /\ read \in [Caller -> [Attribute -> Value]]
    /\ overtaken \subseteq Caller

\* What setAttributes has set stays set until somebody sets it to something
\* else, unless a call that did not ask for it wrote it back with its pair and
\* was overtaken by another session meanwhile (LibSSH.swift:523-580): the clients of one
\* session never undo each other's changes.
LostOnlyToOvertaken ==
    \A f \in File : \A a \in Attribute :
        attr[f][a] # latest[f][a] => changed[f][a] \in overtaken

\* A call writes to the file whose attributes it has read and to no other,
\* the link or what it leads to, unless it was overtaken (LibSSH.swift:535-579).
WritesWhatItRead ==
    [][\A c \in Caller : pc[c] = "setstat" /\ pc'[c] = "done" /\ c \notin overtaken =>
          \A f \in File : attr'[f] # attr[f] => f = found[c]]_vars

\* A link that could not be made because "the file exists" was in the way of
\* something, unless that came while the call was made (LibSSH.swift:589-600).
ExistsIsTrue ==
    \A c \in Caller :
        outcome[c] = "fileAlreadyExists" => found[c] # None \/ c \in overtaken

=============================================================================
