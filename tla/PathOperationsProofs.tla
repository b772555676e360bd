------------------------ MODULE PathOperationsProofs ------------------------
(***************************************************************************)
(* What the path operations promise holds for every number of sessions,    *)
(* callers, paths, files and attributes.                                   *)
(*                                                                         *)
(* The argument: of the calls of one session at most one is between its    *)
(* requests (Held), so that whatever changes on the server meanwhile comes *)
(* from another session and overtakes it.  A call that was not overtaken   *)
(* finds at its second request what it found at its first (ReadIsCurrent,  *)
(* FoundIsCurrent), and writes back what is there.                         *)
(***************************************************************************)
EXTENDS PathOperations, TLAPS

Held ==
    \A c, d \in Caller : Between(c) /\ Between(d) /\ SessionOf[c] = SessionOf[d] => c = d

ReadIsCurrent ==
    \A c \in Caller : pc[c] = "setstat" =>
        /\ call[c] \in Call /\ call[c].op = "setStat"
        /\ c \notin overtaken => Write(call[c]) = found[c] /\ read[c] = attr[found[c]]

FoundIsCurrent ==
    \A c \in Caller : pc[c] = "lstat" =>
        /\ call[c] \in Call /\ call[c].op = "symlink"
        /\ c \notin overtaken => found[c] = tree[call[c].path]

AnsweredAtEnd == \A c \in Caller : outcome[c] # "none" => pc[c] = "done"

IInv ==
    /\ TypeOK
    /\ Held
    /\ ReadIsCurrent
    /\ FoundIsCurrent
    /\ AnsweredAtEnd
    /\ LostOnlyToOvertaken
    /\ ExistsIsTrue

LEMMA InitIInv == Init => IInv
<1> SUFFICES ASSUME Init PROVE IInv
  OBVIOUS
<1>1. TypeOK
  BY PathOperationsAssumption DEF Init, TypeOK, Value
<1>2. Held /\ ReadIsCurrent /\ FoundIsCurrent /\ AnsweredAtEnd
  BY DEF Init, Held, Between, ReadIsCurrent, FoundIsCurrent, AnsweredAtEnd
<1>3. LostOnlyToOvertaken /\ ExistsIsTrue
  BY DEF Init, LostOnlyToOvertaken, ExistsIsTrue
<1> QED BY <1>1, <1>2, <1>3 DEF IInv

-----------------------------------------------------------------------------
(* What the server's operations keep. *)

\* Whoever changes something overtakes the calls of other sessions.
LEMMA OvertakenGrows ==
  ASSUME overtaken \subseteq Caller, NEW c \in Caller, Overtakes(c)
  PROVE  /\ overtaken \subseteq overtaken' /\ overtaken' \subseteq Caller
         /\ \A d \in Caller : Between(d) /\ SessionOf[d] # SessionOf[c] => d \in overtaken'
  BY DEF Overtakes

\* What Written does to one file and leaves alone on the others.
LEMMA WrittenTypes ==
  ASSUME TypeOK, NEW c \in Caller, NEW f \in File, NEW flags, NEW values \in [Attribute -> Value],
         Written(c, f, flags, values)
  PROVE  /\ attr' \in [File -> [Attribute -> Value]]
         /\ latest' \in [File -> [Attribute -> Value]]
         /\ changed' \in [File -> [Attribute -> Value]]
         /\ \A g \in File \ {f} :
                attr'[g] = attr[g] /\ latest'[g] = latest[g] /\ changed'[g] = changed[g]
         /\ \A a \in Attribute :
                /\ attr'[f][a] = IF a \in flags THEN values[a] ELSE attr[f][a]
                /\ latest'[f][a] = IF a \in flags \cap call[c].fields THEN c ELSE latest[f][a]
                /\ changed'[f][a] =
                     IF a \in flags /\ (a \in call[c].fields \/ values[a] # attr[f][a])
                     THEN c ELSE changed[f][a]
<1>1. /\ attr \in [File -> [Attribute -> Value]]
      /\ latest \in [File -> [Attribute -> Value]]
      /\ changed \in [File -> [Attribute -> Value]]
  BY DEF TypeOK
<1>2. c \in Value
  BY DEF Value
<1> DEFINE A == [a \in Attribute |-> IF a \in flags THEN values[a] ELSE attr[f][a]]
           L == [a \in Attribute |-> IF a \in flags \cap call[c].fields THEN c ELSE latest[f][a]]
           X == [a \in Attribute |->
                    IF a \in flags /\ (a \in call[c].fields \/ values[a] # attr[f][a])
                    THEN c ELSE changed[f][a]]
<1>3. A \in [Attribute -> Value] /\ L \in [Attribute -> Value] /\ X \in [Attribute -> Value]
  BY <1>1, <1>2
<1>4. /\ attr' = [attr EXCEPT ![f] = A]
      /\ latest' = [latest EXCEPT ![f] = L]
      /\ changed' = [changed EXCEPT ![f] = X]
  BY <1>1 DEF Written
<1>5. /\ \A a \in Attribute : A[a] = IF a \in flags THEN values[a] ELSE attr[f][a]
      /\ \A a \in Attribute :
             L[a] = IF a \in flags \cap call[c].fields THEN c ELSE latest[f][a]
      /\ \A a \in Attribute :
             X[a] = IF a \in flags /\ (a \in call[c].fields \/ values[a] # attr[f][a])
                    THEN c ELSE changed[f][a]
  OBVIOUS
<1> HIDE DEF A, L, X
<1>6. attr'[f] = A /\ latest'[f] = L /\ changed'[f] = X
  BY <1>1, <1>4
<1> QED BY <1>1, <1>3, <1>4, <1>5, <1>6

\* A lookup yields a file, or none.
LEMMA LookupTypes ==
  ASSUME TypeOK, NEW k \in Call
  PROVE  /\ k.path \in Path
         /\ Stat(k) \in File \cup {None}
         /\ Write(k) \in File \cup {None}
<1>1. k.path \in Path
  BY DEF Call
<1>2. tree \in [Path -> File \cup {None}] /\ target \in [File -> Path \cup {None}]
  BY DEF TypeOK
<1>3. sftp_lstat(k.path) \in File \cup {None}
  BY <1>1, <1>2 DEF sftp_lstat
<1>4. sftp_stat(k.path) \in File \cup {None}
  <2>1. CASE ~IsLink(tree[k.path])
    BY <1>1, <1>2, <2>1 DEF sftp_stat
  <2>2. CASE IsLink(tree[k.path])
    <3>1. target[tree[k.path]] \in Path
      BY <1>1, <1>2, <2>2 DEF IsLink
    <3> QED BY <1>2, <2>2, <3>1 DEF sftp_stat
  <2> QED BY <2>1, <2>2
<1> QED BY <1>1, <1>3, <1>4 DEF Stat, Write

\* A write of attributes leaves everything or writes to the one file.
LEMMA SetStatWrites ==
  ASSUME TypeOK, ReadIsCurrent, NEW c \in Caller, setStatWrites(c)
  PROVE  \/ NothingWritten
         \/ /\ Write(call[c]) \in File
            /\ \E gs \in SUBSET Group : Written(c, Write(call[c]), UNION gs, Values(c))
<1>1. PICK result \in {"ok", "failed"} :
        IF call[c].followSymlinks
        THEN sftp_setstat(c, Write(call[c]), Flags(call[c].fields), Values(c), result)
        ELSE sftp_lsetstat(c, Write(call[c]), Flags(call[c].fields), Values(c), result)
  BY DEF setStatWrites
<1>2. sftp_setstat(c, Write(call[c]), Flags(call[c].fields), Values(c), result)
  BY <1>1 DEF sftp_lsetstat
<1>3. Write(call[c]) \in File \cup {None}
  BY LookupTypes DEF setStatWrites, ReadIsCurrent
<1> QED BY <1>2, <1>3 DEF sftp_setstat, Flags

\* The values that are written, types.
LEMMA ValuesTypes ==
  ASSUME TypeOK, NEW c \in Caller
  PROVE  Values(c) \in [Attribute -> Value]
<1>1. c \in Value /\ read[c] \in [Attribute -> Value]
  BY DEF TypeOK, Value
<1> QED BY <1>1 DEF Values

-----------------------------------------------------------------------------
(* What a step leaves alone. *)

\* A step of one caller does not touch what another one keeps.
LEMMA Elsewhere ==
  ASSUME TypeOK, NEW d \in Caller, Step(d), NEW c \in Caller, c # d
  PROVE  /\ pc'[c] = pc[c] /\ call'[c] = call[c] /\ outcome'[c] = outcome[c]
         /\ found'[c] = found[c] /\ read'[c] = read[c]
<1> USE DEF TypeOK, GoesOn, Answered
<1>1. CASE setStat(d)
  BY <1>1 DEF setStat
<1>2. CASE setStatWrites(d)
  BY <1>2 DEF setStatWrites
<1>3. CASE symlink(d)
  BY <1>3 DEF symlink
<1>4. CASE symlinkExplains(d)
  BY <1>4 DEF symlinkExplains
<1>5. CASE rename(d)
  BY <1>5 DEF rename
<1>6. CASE unlink(d)
  BY <1>6 DEF unlink
<1> QED BY <1>1, <1>2, <1>3, <1>4, <1>5, <1>6 DEF Step

\* A step changes something on the server only as it overtakes others.
LEMMA ChangesOvertake ==
  ASSUME TypeOK, NEW d \in Caller, Step(d)
  PROVE  \/ Overtakes(d)
         \/ UNCHANGED <<tree, target, attr, latest, changed, overtaken>>
<1>1. CASE setStat(d)
  BY <1>1 DEF setStat
<1>2. CASE setStatWrites(d)
  BY <1>2 DEF setStatWrites
<1>3. CASE symlink(d)
  BY <1>3 DEF symlink
<1>4. CASE symlinkExplains(d)
  BY <1>4 DEF symlinkExplains
<1>5. CASE rename(d)
  BY <1>5 DEF rename
<1>6. CASE unlink(d)
  BY <1>6 DEF unlink
<1> QED BY <1>1, <1>2, <1>3, <1>4, <1>5, <1>6 DEF Step

\* Only a caller whose session is free begins, and only it can go on.
LEMMA OneAtATime ==
  ASSUME Held, NEW d \in Caller, Step(d), NEW c \in Caller, c # d, Between(c)
  PROVE  SessionOf[c] # SessionOf[d]
<1>1. Between(d) \/ ActorFree(d)
  BY DEF Step, setStat, setStatWrites, symlink, symlinkExplains, rename, unlink, Asks, Between
<1> QED BY <1>1 DEF Held, ActorFree

\* So a call that is between its requests is overtaken or undisturbed.
LEMMA Undisturbed ==
  ASSUME TypeOK, Held, NEW d \in Caller, Step(d), NEW c \in Caller, c # d, Between(c),
         c \notin overtaken'
  PROVE  c \notin overtaken /\ UNCHANGED <<tree, target, attr>>
<1>1. SessionOf[c] # SessionOf[d]
  BY OneAtATime
<1>2. ~Overtakes(d)
  BY <1>1 DEF Overtakes
<1> QED BY <1>2, ChangesOvertake

-----------------------------------------------------------------------------
(* Types. *)

\* Every change of the tree keeps one name for a file at most.
TreeOK ==
    /\ tree \in [Path -> File \cup {None}]
    /\ \A p, q \in Path : tree[p] = tree[q] /\ tree[p] # None => p = q

LEMMA RenameTree ==
  ASSUME TreeOK, NEW p \in Path, NEW q \in Path, sftp_rename(p, q)
  PROVE  TreeOK'
<1>1. tree' \in [Path -> File \cup {None}]
  BY DEF TreeOK, sftp_rename
<1>2. CASE p = q
  <2>1. \A r \in Path : tree'[r] = tree[r]
    BY <1>2 DEF TreeOK, sftp_rename
  <2> QED BY <1>1, <2>1 DEF TreeOK
<1>3. CASE p # q
  <2>1. /\ tree'[p] = None /\ tree'[q] = tree[p]
        /\ \A r \in Path \ {p, q} : tree'[r] = tree[r]
    BY <1>3 DEF TreeOK, sftp_rename
  <2> QED BY <1>1, <2>1 DEF TreeOK
<1> QED BY <1>2, <1>3

LEMMA UnlinkTree ==
  ASSUME TreeOK, NEW p \in Path, sftp_unlink(p)
  PROVE  TreeOK'
<1>1. tree' \in [Path -> File \cup {None}]
  BY DEF TreeOK, sftp_unlink
<1>2. tree'[p] = None /\ \A r \in Path \ {p} : tree'[r] = tree[r]
  BY DEF TreeOK, sftp_unlink
<1> QED BY <1>1, <1>2 DEF TreeOK

LEMMA SymlinkTypes ==
  ASSUME TypeOK, NEW p \in Path, NEW to \in Path, sftp_symlink(to, p)
  PROVE  /\ TreeOK' /\ target' \in [File -> Path \cup {None}]
         /\ attr' \in [File -> [Attribute -> Value]]
         /\ latest' \in [File -> [Attribute -> Value]]
         /\ changed' \in [File -> [Attribute -> Value]]
         /\ \E f \in File :
                /\ \A a \in Attribute : attr'[f][a] = Initial /\ latest'[f][a] = Initial
                /\ \A g \in File \ {f} :
                       attr'[g] = attr[g] /\ latest'[g] = latest[g] /\ changed'[g] = changed[g]
<1> DEFINE Fresh == [a \in Attribute |-> Initial]
<1>1. PICK f \in File :
        /\ \A q \in Path : tree[q] # f
        /\ tree' = [tree EXCEPT ![p] = f]
        /\ target' = [target EXCEPT ![f] = to]
        /\ attr' = [attr EXCEPT ![f] = Fresh]
        /\ latest' = [latest EXCEPT ![f] = Fresh]
        /\ changed' = [changed EXCEPT ![f] = Fresh]
  BY DEF sftp_symlink
<1>2. Fresh \in [Attribute -> Value] /\ \A a \in Attribute : Fresh[a] = Initial
  BY DEF Value
<1> HIDE DEF Fresh
<1>3. TreeOK'
  <2>1. tree' \in [Path -> File \cup {None}]
    BY <1>1 DEF TypeOK
  <2>2. tree'[p] = f /\ \A r \in Path \ {p} : tree'[r] = tree[r]
    BY <1>1 DEF TypeOK
  <2> QED BY <1>1, <2>1, <2>2 DEF TypeOK, TreeOK
<1>4. target' \in [File -> Path \cup {None}]
  BY <1>1 DEF TypeOK
<1>5. /\ attr' \in [File -> [Attribute -> Value]]
      /\ latest' \in [File -> [Attribute -> Value]]
      /\ changed' \in [File -> [Attribute -> Value]]
      /\ attr'[f] = Fresh /\ latest'[f] = Fresh
      /\ \A g \in File \ {f} :
             attr'[g] = attr[g] /\ latest'[g] = latest[g] /\ changed'[g] = changed[g]
  BY <1>1, <1>2 DEF TypeOK
<1> QED BY <1>2, <1>3, <1>4, <1>5

\* What the server keeps, and what the callers keep.
ServerOK ==
    /\ TreeOK
    /\ target \in [File -> Path \cup {None}]
    /\ attr \in [File -> [Attribute -> Value]]
    /\ latest \in [File -> [Attribute -> Value]]
    /\ changed \in [File -> [Attribute -> Value]]

CallersOK ==
    /\ call \in [Caller -> Call \cup {NoCall}]
    /\ pc \in [Caller -> {"idle", "setstat", "lstat", "done"}]
    /\ outcome \in [Caller -> {"none", "ok", "failed", "fileAlreadyExists"}]
    /\ found \in [Caller -> File \cup {None}]
    /\ read \in [Caller -> [Attribute -> Value]]
    /\ overtaken \subseteq Caller

LEMMA Types == TypeOK <=> ServerOK /\ CallersOK
  BY DEF TypeOK, ServerOK, TreeOK, CallersOK

LEMMA StepServerOK ==
  ASSUME TypeOK, ReadIsCurrent, NEW c \in Caller, Step(c)
  PROVE  ServerOK'
<1>1. ServerOK
  BY Types
<1>2. CASE UNCHANGED <<tree, target, attr, latest, changed>>
  BY <1>1, <1>2 DEF ServerOK, TreeOK
<1>3. CASE setStatWrites(c)
  <2>1. UNCHANGED <<tree, target>>
    BY <1>3 DEF setStatWrites
  <2>2. CASE NothingWritten
    BY <1>1, <2>1, <2>2 DEF NothingWritten, ServerOK, TreeOK
  <2>3. CASE ~NothingWritten
    <3>1. /\ attr' \in [File -> [Attribute -> Value]]
          /\ latest' \in [File -> [Attribute -> Value]]
          /\ changed' \in [File -> [Attribute -> Value]]
      BY <1>3, <2>3, SetStatWrites, ValuesTypes, WrittenTypes
    <3> QED BY <1>1, <2>1, <3>1 DEF ServerOK, TreeOK
  <2> QED BY <2>2, <2>3
<1>4. ASSUME NEW k \in Call, sftp_symlink(k.to, k.path), k.op = "symlink" PROVE ServerOK'
  <2>1. k.to \in Path /\ k.path \in Path
    BY <1>4 DEF Call
  <2> QED BY <1>4, <2>1, SymlinkTypes DEF ServerOK
<1>5. ASSUME NEW p \in Path, NEW q \in Path, sftp_rename(p, q),
             UNCHANGED <<target, attr, latest, changed>>
      PROVE  ServerOK'
  BY <1>1, <1>5, RenameTree DEF ServerOK
<1>6. ASSUME NEW p \in Path, sftp_unlink(p), UNCHANGED <<target, attr, latest, changed>>
      PROVE  ServerOK'
  BY <1>1, <1>6, UnlinkTree DEF ServerOK
<1>7. CASE setStat(c)
  BY <1>2, <1>7 DEF setStat
<1>8. CASE symlink(c)
  BY <1>2, <1>4, <1>8 DEF symlink
<1>9. CASE symlinkExplains(c)
  BY <1>2, <1>9 DEF symlinkExplains
<1>10. CASE rename(c)
  BY <1>2, <1>5, <1>10 DEF rename
<1>11. CASE unlink(c)
  BY <1>2, <1>6, <1>11 DEF unlink
<1> QED BY <1>3, <1>7, <1>8, <1>9, <1>10, <1>11 DEF Step

LEMMA StepCallersOK ==
  ASSUME TypeOK, NEW c \in Caller, Step(c)
  PROVE  CallersOK'
<1>1. CallersOK
  BY Types
<1>2. overtaken \subseteq Caller /\ (overtaken' = overtaken \/ overtaken' \subseteq Caller)
  BY <1>1, ChangesOvertake, OvertakenGrows DEF CallersOK
<1>3. ASSUME NEW result \in {"ok", "failed", "fileAlreadyExists"}, Answered(c, result)
      PROVE  /\ call' \in [Caller -> Call \cup {NoCall}]
             /\ pc' \in [Caller -> {"idle", "setstat", "lstat", "done"}]
             /\ outcome' \in [Caller -> {"none", "ok", "failed", "fileAlreadyExists"}]
  BY <1>1, <1>3 DEF CallersOK, Answered
<1>4. ASSUME NEW k \in Call, NEW request \in {"setstat", "lstat"}, GoesOn(c, k, request)
      PROVE  /\ call' \in [Caller -> Call \cup {NoCall}]
             /\ pc' \in [Caller -> {"idle", "setstat", "lstat", "done"}]
             /\ outcome' \in [Caller -> {"none", "ok", "failed", "fileAlreadyExists"}]
  BY <1>1, <1>4 DEF CallersOK, GoesOn
<1>5. CASE UNCHANGED <<found, read>>
  <2>1. \/ \E result \in {"ok", "failed", "fileAlreadyExists"} : Answered(c, result)
        \/ \E k \in Call, request \in {"setstat", "lstat"} : GoesOn(c, k, request)
    BY DEF Step, setStat, setStatWrites, symlink, symlinkExplains, rename, unlink
  <2> QED BY <1>1, <1>2, <1>3, <1>4, <1>5, <2>1 DEF CallersOK
<1>6. CASE setStat(c)
  <2>1. ASSUME NEW k \in Call, Stat(k) # None, GoesOn(c, k, "setstat"),
               found' = [found EXCEPT ![c] = Stat(k)], read' = [read EXCEPT ![c] = attr[Stat(k)]]
        PROVE  CallersOK'
    <3>1. Stat(k) \in File /\ attr[Stat(k)] \in [Attribute -> Value]
      BY <2>1, LookupTypes DEF TypeOK
    <3>2. found' \in [Caller -> File \cup {None}] /\ read' \in [Caller -> [Attribute -> Value]]
      BY <1>1, <2>1, <3>1 DEF CallersOK
    <3> QED BY <1>2, <1>4, <2>1, <3>2, <1>1 DEF CallersOK
  <2> QED BY <1>5, <1>6, <2>1 DEF setStat
<1>7. CASE setStatWrites(c)
  <2>1. [a \in Attribute |-> Initial] \in [Attribute -> Value]
    BY DEF Value
  <2>2. found' \in [Caller -> File \cup {None}] /\ read' \in [Caller -> [Attribute -> Value]]
    BY <1>1, <1>7, <2>1 DEF CallersOK, setStatWrites
  <2>3. \E result \in {"ok", "failed"} : Answered(c, result)
    BY <1>7 DEF setStatWrites
  <2> QED BY <1>1, <1>2, <1>3, <2>2, <2>3 DEF CallersOK
<1>8. CASE symlink(c)
  <2>1. ASSUME NEW k \in Call, GoesOn(c, k, "lstat"), k.op = "symlink",
               found' = [found EXCEPT ![c] = tree[k.path]], read' = read
        PROVE  CallersOK'
    <3>1. tree[k.path] \in File \cup {None}
      BY LookupTypes DEF TypeOK
    <3>2. found' \in [Caller -> File \cup {None}]
      BY <1>1, <2>1, <3>1 DEF CallersOK
    <3> QED BY <1>1, <1>2, <1>4, <2>1, <3>2 DEF CallersOK
  <2> QED BY <1>5, <1>8, <2>1 DEF symlink
<1>9. CASE symlinkExplains(c) \/ rename(c) \/ unlink(c)
  BY <1>5, <1>9 DEF symlinkExplains, rename, unlink
<1> QED BY <1>6, <1>7, <1>8, <1>9 DEF Step

-----------------------------------------------------------------------------
(* The calls that are between their requests. *)

\* What a step makes of the call of its own caller.
LEMMA Own ==
  ASSUME TypeOK, NEW c \in Caller, Step(c)
  PROVE  \/ /\ pc'[c] = "setstat" /\ ActorFree(c) /\ outcome'[c] = outcome[c] /\ pc[c] = "idle"
            /\ call'[c] \in Call /\ call'[c].op = "setStat"
            /\ found'[c] = Stat(call'[c]) /\ read'[c] = attr[found'[c]]
            /\ UNCHANGED <<tree, target, attr>>
         \/ /\ pc'[c] = "lstat" /\ ActorFree(c) /\ outcome'[c] = outcome[c] /\ pc[c] = "idle"
            /\ call'[c] \in Call /\ call'[c].op = "symlink"
            /\ found'[c] = tree[call'[c].path]
            /\ UNCHANGED <<tree, target, attr>>
         \/ /\ pc'[c] = "done"
            /\ outcome'[c] = "fileAlreadyExists" =>
                 pc[c] = "lstat" /\ InTheWay(c) /\ found'[c] = found[c]
            /\ pc[c] \in {"idle", "setstat", "lstat"}
<1> USE DEF TypeOK
<1>1. ASSUME NEW result, Answered(c, result)
      PROVE  pc'[c] = "done" /\ outcome'[c] = result
  BY <1>1 DEF Answered
<1>2. ASSUME NEW k \in Call, NEW request \in {"setstat", "lstat"}, GoesOn(c, k, request)
      PROVE  pc'[c] = request /\ call'[c] = k /\ outcome'[c] = outcome[c]
  BY <1>2 DEF GoesOn
<1>3. CASE setStat(c)
  <2>1. pc[c] = "idle" /\ ActorFree(c) /\ UNCHANGED <<tree, target, attr>>
    BY <1>3 DEF setStat, Asks
  <2>2. ASSUME NEW k \in Call, k.op = "setStat", GoesOn(c, k, "setstat"),
               found' = [found EXCEPT ![c] = Stat(k)], read' = [read EXCEPT ![c] = attr[Stat(k)]]
        PROVE  /\ pc'[c] = "setstat" /\ outcome'[c] = outcome[c]
               /\ call'[c] = k /\ found'[c] = Stat(k) /\ read'[c] = attr[Stat(k)]
    BY <1>2, <2>2
  <2>3. CASE \E k \in Call :
               /\ k.op = "setStat" /\ Stat(k) # None
               /\ found' = [found EXCEPT ![c] = Stat(k)]
               /\ read' = [read EXCEPT ![c] = attr[Stat(k)]]
               /\ GoesOn(c, k, "setstat")
    <3>1. PICK k \in Call :
               /\ k.op = "setStat"
               /\ found' = [found EXCEPT ![c] = Stat(k)]
               /\ read' = [read EXCEPT ![c] = attr[Stat(k)]]
               /\ GoesOn(c, k, "setstat")
      BY <2>3
    <3>2. /\ pc'[c] = "setstat" /\ outcome'[c] = outcome[c]
          /\ call'[c] = k /\ found'[c] = Stat(k) /\ read'[c] = attr[Stat(k)]
      BY <2>2, <3>1
    <3> QED BY <2>1, <3>1, <3>2
  <2>4. CASE Answered(c, "failed")
    BY <1>1, <2>1, <2>4
  <2> QED BY <1>3, <2>3, <2>4 DEF setStat
<1>4. CASE setStatWrites(c)
  BY <1>1, <1>4 DEF setStatWrites
<1>5. CASE symlink(c)
  <2>1. pc[c] = "idle" /\ ActorFree(c)
    BY <1>5 DEF symlink, Asks
  <2>2. CASE \E result \in {"ok", "failed"} : Answered(c, result)
    BY <1>1, <2>1, <2>2
  <2>3. ASSUME NEW k \in Call, k.op = "symlink", GoesOn(c, k, "lstat"),
               found' = [found EXCEPT ![c] = tree[k.path]],
               UNCHANGED <<tree, target, attr>>
        PROVE  /\ pc'[c] = "lstat" /\ outcome'[c] = outcome[c] /\ call'[c] = k
               /\ found'[c] = tree[k.path]
    BY <1>2, <2>3
  <2> QED BY <1>5, <2>1, <2>2, <2>3 DEF symlink
<1>6. CASE symlinkExplains(c)
  BY <1>1, <1>6 DEF symlinkExplains
<1>7. CASE rename(c) \/ unlink(c)
  BY <1>1, <1>7 DEF rename, unlink, Asks
<1> QED BY <1>3, <1>4, <1>5, <1>6, <1>7 DEF Step

LEMMA StepHeld ==
  ASSUME TypeOK, Held, NEW c \in Caller, Step(c)
  PROVE  Held'
<1>1. \A d \in Caller : d # c => (Between(d)' <=> Between(d))
  BY Elsewhere DEF Between
<1>2. Between(c)' => ActorFree(c)
  BY Own DEF Between
<1> QED BY <1>1, <1>2 DEF Held, ActorFree

LEMMA StepReadIsCurrent ==
  ASSUME TypeOK, Held, ReadIsCurrent, NEW c \in Caller, Step(c)
  PROVE  ReadIsCurrent'
<1> SUFFICES ASSUME NEW d \in Caller, pc'[d] = "setstat"
             PROVE  /\ call'[d] \in Call /\ call'[d].op = "setStat"
                    /\ d \notin overtaken' =>
                         Write(call[d])' = found'[d] /\ read'[d] = attr'[found'[d]]
  BY DEF ReadIsCurrent
<1>1. CASE d = c
  <2>1. Write(call'[c]) = Stat(call'[c])
    BY DEF Write, Stat
  <2>2. UNCHANGED <<tree, target>> => Write(call[c])' = Write(call'[c])
    BY DEF Write, sftp_stat, sftp_lstat, IsLink
  <2> QED BY <1>1, <2>1, <2>2, Own
<1>2. CASE d # c
  <2>1. /\ pc[d] = "setstat" /\ call'[d] = call[d] /\ found'[d] = found[d] /\ read'[d] = read[d]
    BY <1>2, Elsewhere
  <2>2. call'[d] \in Call /\ call'[d].op = "setStat"
    BY <2>1 DEF ReadIsCurrent
  <2>3. ASSUME d \notin overtaken'
        PROVE  Write(call[d])' = found'[d] /\ read'[d] = attr'[found'[d]]
    <3>1. d \notin overtaken /\ UNCHANGED <<tree, target, attr>>
      BY <1>2, <2>1, <2>3, Undisturbed DEF Between
    <3>2. Write(call[d])' = Write(call[d])
      BY <2>1, <3>1 DEF Write, sftp_stat, sftp_lstat, IsLink
    <3> QED BY <2>1, <3>1, <3>2 DEF ReadIsCurrent
  <2> QED BY <2>2, <2>3
<1> QED BY <1>1, <1>2

LEMMA StepFoundIsCurrent ==
  ASSUME TypeOK, Held, FoundIsCurrent, NEW c \in Caller, Step(c)
  PROVE  FoundIsCurrent'
<1> SUFFICES ASSUME NEW d \in Caller, pc'[d] = "lstat"
             PROVE  /\ call'[d] \in Call /\ call'[d].op = "symlink"
                    /\ d \notin overtaken' => found'[d] = tree'[call'[d].path]
  BY DEF FoundIsCurrent
<1>1. CASE d = c
  BY <1>1, Own
<1>2. CASE d # c
  <2>1. pc[d] = "lstat" /\ call'[d] = call[d] /\ found'[d] = found[d]
    BY <1>2, Elsewhere
  <2>2. d \notin overtaken' => d \notin overtaken /\ tree' = tree
    BY <1>2, <2>1, Undisturbed DEF Between
  <2> QED BY <2>1, <2>2 DEF FoundIsCurrent
<1> QED BY <1>1, <1>2

LEMMA StepAnswered ==
  ASSUME TypeOK, FoundIsCurrent, AnsweredAtEnd, ExistsIsTrue, NEW c \in Caller, Step(c)
  PROVE  AnsweredAtEnd' /\ ExistsIsTrue'
<1>1. overtaken \subseteq overtaken'
  BY ChangesOvertake, OvertakenGrows DEF TypeOK
<1>2. \A d \in Caller : d # c =>
        pc'[d] = pc[d] /\ outcome'[d] = outcome[d] /\ found'[d] = found[d]
  BY Elsewhere
<1>3. outcome'[c] # "none" => pc'[c] = "done"
  BY Own DEF AnsweredAtEnd
<1>4. outcome'[c] = "fileAlreadyExists" => found'[c] # None \/ c \in overtaken
  BY Own DEF AnsweredAtEnd, FoundIsCurrent, InTheWay, sftp_lstat
<1> QED BY <1>1, <1>2, <1>3, <1>4 DEF AnsweredAtEnd, ExistsIsTrue

\* A call writes back what is there, or was overtaken.
LEMMA StepLostOnlyToOvertaken ==
  ASSUME TypeOK, ReadIsCurrent, LostOnlyToOvertaken, NEW c \in Caller, Step(c)
  PROVE  LostOnlyToOvertaken'
<1>1. overtaken \subseteq overtaken'
  BY ChangesOvertake, OvertakenGrows DEF TypeOK
<1>2. CASE UNCHANGED <<attr, latest, changed>>
  BY <1>1, <1>2 DEF LostOnlyToOvertaken
<1>3. CASE setStatWrites(c) /\ ~NothingWritten
  <2> DEFINE f == Write(call[c])
  <2>1. pc[c] = "setstat"
    BY <1>3 DEF setStatWrites
  <2>2. PICK gs \in SUBSET Group : f \in File /\ Written(c, f, UNION gs, Values(c))
    BY <1>3, SetStatWrites
  <2>3. Values(c) \in [Attribute -> Value]
    BY ValuesTypes
  <2>4. c \notin overtaken => read[c] = attr[f]
    BY <2>1 DEF ReadIsCurrent
  <2>5. \A a \in Attribute : Values(c)[a] = IF a \in call[c].fields THEN c ELSE read[c][a]
    BY DEF Values
  <2> HIDE DEF f
  <2>6. /\ \A g \in File \ {f} :
               attr'[g] = attr[g] /\ latest'[g] = latest[g] /\ changed'[g] = changed[g]
        /\ \A a \in Attribute :
               /\ attr'[f][a] = IF a \in UNION gs THEN Values(c)[a] ELSE attr[f][a]
               /\ latest'[f][a] =
                    IF a \in (UNION gs) \cap call[c].fields THEN c ELSE latest[f][a]
               /\ changed'[f][a] =
                    IF a \in UNION gs /\ (a \in call[c].fields \/ Values(c)[a] # attr[f][a])
                    THEN c ELSE changed[f][a]
    BY <2>2, <2>3, WrittenTypes
  <2>7. ASSUME NEW a \in Attribute, attr'[f][a] # latest'[f][a]
        PROVE  changed'[f][a] \in overtaken'
    <3>1. CASE a \in UNION gs /\ a \in call[c].fields
      BY <2>5, <2>6, <2>7, <3>1
    <3>2. CASE a \in UNION gs /\ a \notin call[c].fields
      <4>1. /\ attr'[f][a] = read[c][a] /\ latest'[f][a] = latest[f][a]
            /\ changed'[f][a] = IF read[c][a] # attr[f][a] THEN c ELSE changed[f][a]
        BY <2>5, <2>6, <3>2
      <4>2. CASE read[c][a] # attr[f][a]
        BY <1>1, <2>4, <4>1, <4>2
      <4>3. CASE read[c][a] = attr[f][a]
        BY <1>1, <2>2, <2>7, <4>1, <4>3 DEF LostOnlyToOvertaken
      <4> QED BY <4>2, <4>3
    <3>3. CASE a \notin UNION gs
      BY <1>1, <2>2, <2>6, <2>7, <3>3 DEF LostOnlyToOvertaken
    <3> QED BY <3>1, <3>2, <3>3
  <2>8. \A g \in File \ {f} : \A a \in Attribute :
          attr'[g][a] # latest'[g][a] => changed'[g][a] \in overtaken'
    BY <1>1, <2>6 DEF LostOnlyToOvertaken
  <2> QED BY <2>7, <2>8 DEF LostOnlyToOvertaken
<1>4. ASSUME NEW k \in Call, k.op = "symlink", sftp_symlink(k.to, k.path)
      PROVE  LostOnlyToOvertaken'
  <2>1. k.to \in Path /\ k.path \in Path
    BY <1>4 DEF Call
  <2>2. PICK f \in File :
          /\ \A a \in Attribute : attr'[f][a] = Initial /\ latest'[f][a] = Initial
          /\ \A g \in File \ {f} :
                 attr'[g] = attr[g] /\ latest'[g] = latest[g] /\ changed'[g] = changed[g]
    BY <1>4, <2>1, SymlinkTypes
  <2> QED BY <1>1, <2>2 DEF LostOnlyToOvertaken
<1>5. CASE setStatWrites(c) /\ NothingWritten
  BY <1>2, <1>5 DEF NothingWritten
<1>6. CASE setStat(c)
  BY <1>2, <1>6 DEF setStat
<1>7. CASE symlink(c)
  BY <1>2, <1>4, <1>7 DEF symlink
<1>8. CASE symlinkExplains(c) \/ rename(c) \/ unlink(c)
  BY <1>2, <1>8 DEF symlinkExplains, rename, unlink
<1> QED BY <1>3, <1>5, <1>6, <1>7, <1>8 DEF Step

-----------------------------------------------------------------------------

LEMMA NextIInv == IInv /\ [Next]_vars => IInv'
<1> SUFFICES ASSUME IInv, [Next]_vars PROVE IInv'
  OBVIOUS
<1> USE DEF IInv
<1>1. ASSUME NEW c \in Caller, Step(c) PROVE IInv'
  <2>1. TypeOK'
    BY <1>1, StepServerOK, StepCallersOK DEF TypeOK, ServerOK, TreeOK, CallersOK
  <2>2. Held' /\ ReadIsCurrent' /\ FoundIsCurrent'
    BY <1>1, StepHeld, StepReadIsCurrent, StepFoundIsCurrent
  <2>3. AnsweredAtEnd' /\ ExistsIsTrue' /\ LostOnlyToOvertaken'
    BY <1>1, StepAnswered, StepLostOnlyToOvertaken
  <2> QED BY <2>1, <2>2, <2>3
<1>2. CASE UNCHANGED vars
  BY <1>2 DEF vars, TypeOK, Held, Between, ReadIsCurrent, Write, sftp_stat, sftp_lstat, IsLink,
       FoundIsCurrent, AnsweredAtEnd, LostOnlyToOvertaken, ExistsIsTrue
<1> QED BY <1>1, <1>2 DEF Next

LEMMA Inductive == Spec => []IInv
  BY InitIInv, NextIInv, PTL DEF Spec

\* Types; no file gets a second name.
THEOREM TypeCorrect == Spec => []TypeOK
<1>1. IInv => TypeOK
  BY DEF IInv
<1> QED BY <1>1, Inductive, PTL

\* The clients of one session never undo each other's changes: what was set
\* is undone only by a call that another session overtook.
THEOREM OnlyOvertakenUndo == Spec => []LostOnlyToOvertaken
<1>1. IInv => LostOnlyToOvertaken
  BY DEF IInv
<1> QED BY <1>1, Inductive, PTL

\* A file that is said to exist was there at the refusal, or came meanwhile.
THEOREM ExistsTold == Spec => []ExistsIsTrue
<1>1. IInv => ExistsIsTrue
  BY DEF IInv
<1> QED BY <1>1, Inductive, PTL

\* Attributes are written to the file they were read from.
THEOREM WritesBack == Spec => WritesWhatItRead
<1> DEFINE Goal == \A c \in Caller : pc[c] = "setstat" /\ pc'[c] = "done" /\ c \notin overtaken =>
                      \A f \in File : attr'[f] # attr[f] => f = found[c]
<1>1. ASSUME IInv, Next PROVE Goal
  <2>1. PICK d \in Caller : Step(d)
    BY <1>1 DEF Next
  <2> SUFFICES ASSUME NEW c \in Caller, pc[c] = "setstat", pc'[c] = "done", c \notin overtaken,
                      NEW f \in File, attr'[f] # attr[f]
               PROVE  f = found[c]
    OBVIOUS
  <2>2. d = c
    BY <1>1, <2>1, Elsewhere DEF IInv
  <2>3. setStatWrites(c)
    BY <2>1, <2>2 DEF Step, setStat, symlink, symlinkExplains, rename, unlink, Asks
  <2>4. /\ Write(call[c]) \in File
        /\ \E gs \in SUBSET Group : Written(c, Write(call[c]), UNION gs, Values(c))
    BY <1>1, <2>3, SetStatWrites DEF IInv, NothingWritten
  <2>5. f = Write(call[c])
    BY <1>1, <2>4, ValuesTypes, WrittenTypes DEF IInv
  <2> QED BY <1>1, <2>5 DEF IInv, ReadIsCurrent
<1>2. IInv /\ [Next]_vars => [Goal]_vars
  BY <1>1
<1> QED BY <1>2, Inductive, PTL DEF Spec, WritesWhatItRead

=============================================================================
