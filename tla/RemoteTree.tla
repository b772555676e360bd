----------------------------- MODULE RemoteTree -----------------------------
(***************************************************************************)
(* SFTPClient.createDirectoryRecursively and removeDirectoryRecursively on *)
(* a remote tree that they share with each other and with other clients.   *)
(*                                                                         *)
(* Both make many requests, and nothing keeps others out between two of    *)
(* them.  The first makes a directory for each prefix of its path; the     *)
(* second reads a directory entry by entry, removes what it reads, going   *)
(* down into directories, and then removes the directory itself.           *)
(*                                                                         *)
(* A path is a sequence of names, and `tree` says what each path that      *)
(* exists is.  Every link leads to Elsewhere.  A request is atomic on the  *)
(* server; the look that sftp_mkdir takes at what is in its way is part of *)
(* it.  Links are there from the start: nobody makes one while directories *)
(* are being removed.                                                      *)
(***************************************************************************)
EXTENDS Integers, SequencesExt

CONSTANTS
    Name,               \* the names of entries
    Path,               \* the paths that may exist
    Elsewhere,          \* where links lead
    Creator, Remover,   \* calls of the two functions
    At                  \* the path each call is given

Task == Creator \cup Remover

ASSUME TreeAssumption ==
    /\ Path \subseteq Seq(Name) \ {<<>>}
    /\ \A p \in Path : Len(p) > 1 => Front(p) \in Path
    /\ Elsewhere \in Path
    /\ Creator \cap Remover = {}
    /\ At \in [Task -> Path]

VARIABLES
    tree,       \* the kind of each path that exists
    outcome,    \* how each call ended
    level,      \* creators: how many prefixes are done
    stage,      \* removers: the request that comes next
    target,     \* removers: the path of that request
    stack,      \* removers: the directories being read, the innermost last
    base,       \* removers: the directory that the first one opened is
    excused     \* calls that others, or a refusal, got in the way of

progress == <<level, stage, target, stack, base>>
vars == <<tree, outcome, progress, excused>>

Kind == {"directory", "file", "link"}

\* p is q or lies below it.
Below(p, q) == IsPrefix(q, p)

-----------------------------------------------------------------------------
(* The server. *)

IsA(p, kind) == p \in DOMAIN tree /\ tree[p] = kind

\* Where the server finds p: links on the way are followed, p itself is not.
Resolve(p) ==
    IF \E k \in 1 .. Len(p) - 1 : IsA(SubSeq(p, 1, k), "link")
    THEN LET k == CHOOSE k \in 1 .. Len(p) - 1 : IsA(SubSeq(p, 1, k), "link")
         IN  Elsewhere \o SubSeq(p, k + 1, Len(p))
    ELSE p

Exists(p) == Resolve(p) \in DOMAIN tree

\* What opening p leads to.
Follow(p) == IF IsA(Resolve(p), "link") THEN Elsewhere ELSE Resolve(p)

IsDirectory(p) == p = <<>> \/ IsA(Follow(p), "directory")

Names(p) == {Last(q) : q \in {q \in DOMAIN tree : q = Append(p, Last(q))}}

CanBeMade(p) == ~Exists(p) /\ IsDirectory(Front(p)) /\ Resolve(p) \in Path

Made(p, kind) ==
    tree' = [q \in DOMAIN tree \cup {Resolve(p)} |-> IF q = Resolve(p) THEN kind ELSE tree[q]]

sftp_mkdir(p) == CanBeMade(p) /\ Made(p, "directory")

Removed(p) == tree' = [q \in DOMAIN tree \ {Resolve(p)} |-> tree[q]]

\* What sftp_unlink removes, a link included, and what sftp_rmdir removes.
Unlinkable(p) == Exists(p) /\ ~IsA(Resolve(p), "directory")
EmptyDirectory(p) == IsA(Resolve(p), "directory") /\ Names(Resolve(p)) = {}

\* A directory that was opened by path, through a link if the path is one:
\* `real` is what the server reads, `due` are the names that it has to list.
sftp_opendir(p) ==
    [path |-> p, real |-> Follow(p), due |-> Names(Follow(p)), listed |-> {}, entries |-> {}]

\* Names that a reply to sftp_readdir may list: any that are there and were
\* not listed yet.
sftp_readdir(dir) == Names(dir.real) \ dir.listed

\* Only what came or went since the opening may be missing in a listing.
sftp_dir_eof(dir) == dir.due = {}

\* A change at p gets in the way of those who remove what is around it.
InTheWay(p) ==
    {r \in Remover : Below(Resolve(p), At[r]) \/ Below(Resolve(p), Follow(At[r]))}

\* The prefixes that a creation is done with are those of Done(c).
Done(c) == SubSeq(At[c], 1, level[c])

\* The removal of p takes something that a creation had found or made.
Undermines(p) ==
    {c \in Creator : Below(Done(c), Resolve(p)) \/ Below(Follow(Done(c)), Resolve(p))}

\* The server refuses a request of x, or the connection is lost.
Refused(x) == excused' = excused \cup {x} /\ UNCHANGED tree

\* Another client stores a file.
Upload(p) ==
    /\ CanBeMade(p)
    /\ Made(p, "file")
    /\ excused' = excused \cup InTheWay(p)
    /\ UNCHANGED <<outcome, progress>>

-----------------------------------------------------------------------------
(* createDirectoryRecursively. *)

Throws(x) == outcome' = [outcome EXCEPT ![x] = "failed"]

\* The prefix is done; after the last one the call returns.
Advance(c) ==
    /\ level' = [level EXCEPT ![c] = @ + 1]
    /\ outcome' = [outcome EXCEPT ![c] = IF level'[c] = Len(At[c]) THEN "ok" ELSE @]

\* Mutant: every error is taken for a prefix that is there.
AnyError(p) == ~CanBeMade(p)

\* The error that is passed over.
fileAlreadyExists(p) == Exists(p)

createDirectory(c) ==
    LET p == SubSeq(At[c], 1, level[c] + 1) IN
    /\ outcome[c] = "none"
    /\ \/ /\ sftp_mkdir(p)
          /\ excused' = excused \cup InTheWay(p)
          /\ Advance(c)
       \/ /\ fileAlreadyExists(p)
          /\ Advance(c)
          /\ UNCHANGED <<tree, excused>>
       \/ /\ ~CanBeMade(p) /\ ~fileAlreadyExists(p)
          /\ Throws(c)
          /\ UNCHANGED <<tree, level, excused>>
       \/ /\ Refused(c)
          /\ Throws(c)
          /\ UNCHANGED level
    /\ UNCHANGED <<stage, target, stack, base>>

-----------------------------------------------------------------------------
(* removeDirectoryRecursively. *)

\* What a remover does next; an error leaves all the scopes at once.
Go(r, s, p) ==
    /\ stage' = [stage EXCEPT ![r] = s]
    /\ target' = [target EXCEPT ![r] = p]

Fails(r) ==
    /\ Throws(r)
    /\ stack' = [stack EXCEPT ![r] = <<>>]
    /\ UNCHANGED <<level, stage, target, base>>

Calls(r, s) == r \in Remover /\ outcome[r] = "none" /\ stage[r] = s

\* withDirectory: the body runs on the directory that was opened.
openDirectory(r) ==
    /\ Calls(r, "open")
    /\ LET dir == sftp_opendir(target[r])
       IN \/ /\ IsDirectory(target[r])
             /\ stack' = [stack EXCEPT ![r] = Append(@, dir)]
             /\ base' = [base EXCEPT ![r] = IF stack[r] = <<>> THEN dir.real ELSE @]
             /\ Go(r, "read", target[r])
             /\ UNCHANGED <<tree, outcome, level, excused>>
          \/ /\ ~IsDirectory(target[r])
             /\ Fails(r)
             /\ UNCHANGED <<tree, excused>>
          \/ Refused(r) /\ Fails(r)

\* Mutant: what a link leads to is listed.
FollowedKind(p) == IF tree[p] = "link" THEN "directory" ELSE tree[p]

\* Entries are listed as what they are.
EntryKind(p) == tree[p]

Entry(dir, name) == [name |-> name, kind |-> EntryKind(Append(dir.real, name))]

\* Mutant: an entry is named by where its directory really is.
HandleWhereItIs(r, dir, entry) ==
    Go(r, IF entry.kind = "directory" THEN "open" ELSE "unlink", Append(dir.real, entry.name))

\* An entry is removed, or gone into if it is a directory.
Handle(r, dir, entry) ==
    Go(r, IF entry.kind = "directory" THEN "open" ELSE "unlink", Append(dir.path, entry.name))

\* A directory of which some names were listed; the entries are still to be
\* handled.
Listed(dir, names, entries) ==
    [dir EXCEPT !.due = @ \ names, !.listed = @ \cup names, !.entries = entries]

\* Mutant: the end of a reply is taken for the end of the directory.
AtEndOfReply(dir) == dir.entries = {} /\ dir.listed # {}

\* The end of the directory, and not an error, is what ended the listing.
AtEnd(dir) == dir.entries = {} /\ sftp_dir_eof(dir)

\* SFTPDirectory.next: the next entry of the latest reply, or of another one;
\* after the last one the directory is closed.
readDirectory(r) ==
    /\ Calls(r, "read")
    /\ LET dir == Last(stack[r])
           rest(names, entries) ==
                stack' = [stack EXCEPT ![r][Len(stack[r])] = Listed(dir, names, entries)]
       IN \/ \E entry \in dir.entries :
                /\ rest({}, dir.entries \ {entry})
                /\ Handle(r, dir, entry)
                /\ UNCHANGED <<tree, outcome, excused>>
          \/ \E names \in (SUBSET sftp_readdir(dir)) \ {{}} : \E name \in names :
                /\ dir.entries = {}
                /\ rest(names, {Entry(dir, n) : n \in names \ {name}})
                /\ Handle(r, dir, Entry(dir, name))
                /\ UNCHANGED <<tree, outcome, excused>>
          \/ /\ AtEnd(dir)
             /\ stack' = [stack EXCEPT ![r] = Front(@)]
             /\ Go(r, "rmdir", dir.path)
             /\ UNCHANGED <<tree, outcome, excused>>
          \/ dir.entries = {} /\ Refused(r) /\ Fails(r)
    /\ UNCHANGED <<level, base>>

\* The name is no longer due in any directory that is being read.
Forget(stacks, p) ==
    [r \in Remover |-> [i \in DOMAIN stacks[r] |->
        IF Append(stacks[r][i].real, Last(p)) = Resolve(p)
        THEN [stacks[r][i] EXCEPT !.due = @ \ {Last(p)}]
        ELSE stacks[r][i]]]

Removes(r, p) ==
    /\ Removed(p)
    /\ stack' = Forget(stack, p)
    /\ excused' = excused \cup (InTheWay(p) \ {r}) \cup Undermines(p)

\* removeFile; the loop goes on with the directory it reads.
unlink(r) ==
    /\ Calls(r, "unlink")
    /\ LET p == target[r]
       IN \/ /\ Unlinkable(p)
             /\ Removes(r, p)
             /\ Go(r, "read", p)
             /\ UNCHANGED <<outcome, level, base>>
          \/ /\ ~Unlinkable(p)
             /\ Fails(r)
             /\ UNCHANGED <<tree, excused>>
          \/ Refused(r) /\ Fails(r)

\* removeDirectory; then the loop of the directory above goes on, or the call
\* returns.
rmdir(r) ==
    /\ Calls(r, "rmdir")
    /\ LET p == target[r]
       IN \/ /\ EmptyDirectory(p)
             /\ Removes(r, p)
             /\ Go(r, "read", p)
             /\ outcome' = [outcome EXCEPT ![r] = IF stack[r] = <<>> THEN "ok" ELSE @]
             /\ UNCHANGED <<level, base>>
          \/ /\ ~EmptyDirectory(p)
             /\ Fails(r)
             /\ UNCHANGED <<tree, excused>>
          \/ Refused(r) /\ Fails(r)

-----------------------------------------------------------------------------

\* Only directories have something below them, and links lead to no link.
WellFormed(t) ==
    /\ \A p \in DOMAIN t : Len(p) > 1 => Front(p) \in DOMAIN t /\ t[Front(p)] = "directory"
    /\ \A p \in DOMAIN t : t[p] = "link" => ~Below(p, Elsewhere) /\ ~Below(Elsewhere, p)

Init ==
    /\ tree \in {t \in UNION {[paths -> Kind] : paths \in SUBSET Path} : WellFormed(t)}
    /\ outcome = [x \in Task |-> "none"]
    /\ level = [c \in Creator |-> 0]
    /\ stage = [r \in Remover |-> "open"]
    /\ target = [r \in Remover |-> At[r]]
    /\ stack = [r \in Remover |-> <<>>]
    /\ base = [r \in Remover |-> At[r]]
    /\ excused = {}

Next ==
    \/ \E c \in Creator : createDirectory(c)
    \/ \E r \in Remover : openDirectory(r) \/ readDirectory(r) \/ unlink(r) \/ rmdir(r)
    \/ \E p \in Path : Upload(p)

Spec == Init /\ [][Next]_vars

-----------------------------------------------------------------------------
(* Properties. *)

TypeOK ==
    /\ DOMAIN tree \subseteq Path /\ WellFormed(tree)
    /\ \A p \in DOMAIN tree : tree[p] \in Kind
    /\ outcome \in [Task -> {"none", "ok", "failed"}]
    /\ \A c \in Creator : level[c] \in 0 .. Len(At[c])
    /\ stage \in [Remover -> {"open", "read", "unlink", "rmdir"}]
    /\ base \in [Remover -> Path]
    /\ \A r \in Remover : \A i \in DOMAIN stack[r] :
        Below(stack[r][i].path, At[r]) /\ stack[r][i].due \cap stack[r][i].listed = {}
    /\ excused \subseteq Task

\* What disappears lies in the directory that a remover was given, or in the
\* one its path leads to, and never behind a link found on the way: links are
\* removed and not followed (SFTPClient.swift:41-54).
RemovesOnlyBelow ==
    [][\A p \in DOMAIN tree \ DOMAIN tree' : \E r \in Remover : Below(p, base[r])]_vars

\* With nobody in its way a removal that returns has left nothing, and one
\* that throws was not given a directory: no entry is missed however the
\* server splits its listing, and none is removed before what is below it.
UndisturbedRemovalIsWhole ==
    \A r \in Remover \ excused :
        /\ outcome[r] = "ok" => \A p \in DOMAIN tree : ~Below(p, At[r])
        /\ outcome[r] = "failed" => ~IsA(At[r], "directory")

\* A creation that returns has found or made every prefix of its path, and
\* they are there until somebody removes one that it was done with, whatever
\* was removed and made again ahead of it (SFTPClient.swift:22-35).
CreatedExists ==
    \A c \in Creator \ excused :
        outcome[c] = "ok" => \A k \in 1 .. Len(At[c]) : Exists(SubSeq(At[c], 1, k))

\* What the test createDirectoryWhenAlreadyExistsSucceeds
\* (SFTPClientTests.swift:515) expects after a creation that returned:
\* "attrs.type == .directory".
CreatedIsDirectory ==
    \A c \in Creator \ excused : outcome[c] = "ok" => IsDirectory(At[c])

=============================================================================
