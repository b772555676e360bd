-------------------------- MODULE RemoteTreeProofs --------------------------
(***************************************************************************)
(* Proofs about RemoteTree, for every set of paths and every number of     *)
(* creations and removals.                                                 *)
(*                                                                         *)
(* The argument: no request makes a link and only directories have         *)
(* something below them, so that at most one name of a path is a link, and *)
(* what exists is where its path says.  A removal whose path leads         *)
(* elsewhere began there (Based), and goes down into real directories only *)
(* (Straight).  As long as nobody gets in its way, its directories hold    *)
(* exactly what it has still to handle (Whole).                            *)
(***************************************************************************)
EXTENDS RemoteTree, SequenceTheorems, WellFoundedInduction, TLAPS

Paths == Seq(Name) \ {<<>>}

-----------------------------------------------------------------------------
(* Paths. *)

\* A prefix of a path.
LEMMA PrefixProperties ==
  ASSUME NEW p \in Seq(Name), NEW k \in 0 .. Len(p)
  PROVE  /\ SubSeq(p, 1, k) \in Seq(Name)
         /\ Len(SubSeq(p, 1, k)) = k
         /\ \A i \in 1 .. k : SubSeq(p, 1, k)[i] = p[i]
<1>1. \A i \in 1 .. k : p[i] \in Name
  BY ElementOfSeq
<1>2. /\ SubSeq(p, 1, k) \in Seq(Name)
      /\ Len(SubSeq(p, 1, k)) = IF 1 <= k THEN k - 1 + 1 ELSE 0
      /\ \A i \in 1 .. k - 1 + 1 : SubSeq(p, 1, k)[i] = p[1 + i - 1]
  BY <1>1, SubSeqProperties
<1>3. Len(p) \in Nat
  BY LenProperties
<1>4. k - 1 + 1 = k /\ (IF 1 <= k THEN k - 1 + 1 ELSE 0) = k /\ \A i \in 1 .. k : 1 + i - 1 = i
  BY <1>3
<1> QED BY <1>2, <1>4

\* What follows a prefix of a path.
LEMMA RestProperties ==
  ASSUME NEW p \in Seq(Name), NEW k \in 0 .. Len(p)
  PROVE  /\ SubSeq(p, k + 1, Len(p)) \in Seq(Name)
         /\ Len(SubSeq(p, k + 1, Len(p))) = Len(p) - k
         /\ \A i \in 1 .. Len(p) - k : SubSeq(p, k + 1, Len(p))[i] = p[k + i]
<1>1. \A i \in k + 1 .. Len(p) : p[i] \in Name
  <2>1. Len(p) \in Nat
    BY LenProperties
  <2> QED BY <2>1, ElementOfSeq
<1>2. Len(p) \in Int /\ k + 1 \in Int
  BY LenProperties
<1> DEFINE n == Len(p)
<1>3. n \in Int /\ k + 1 \in Int /\ \A i \in k + 1 .. n : p[i] \in Name
  BY <1>1, <1>2
<1>4. /\ SubSeq(p, k + 1, n) \in Seq(Name)
      /\ Len(SubSeq(p, k + 1, n)) = IF k + 1 <= n THEN n - (k + 1) + 1 ELSE 0
      /\ \A i \in 1 .. n - (k + 1) + 1 : SubSeq(p, k + 1, n)[i] = p[k + 1 + i - 1]
  <2> HIDE DEF n
  <2> QED BY <1>3, SubSeqProperties
<1>5. n - (k + 1) + 1 = n - k /\ (IF k + 1 <= n THEN n - (k + 1) + 1 ELSE 0) = n - k
      /\ \A i \in Int : k + 1 + i - 1 = k + i
  BY <1>2
<1>6. \A i \in 1 .. n - k : i \in Int
  OBVIOUS
<1> QED BY <1>4, <1>5, <1>6

\* A prefix of a prefix.
LEMMA PrefixOfPrefix ==
  ASSUME NEW p \in Seq(Name), NEW k \in 0 .. Len(p), NEW j \in 0 .. k
  PROVE  SubSeq(SubSeq(p, 1, k), 1, j) = SubSeq(p, 1, j)
<1>1. Len(p) \in Nat
  BY LenProperties
<1>2. j \in 0 .. Len(p) /\ \A i \in 1 .. j : i \in 1 .. k
  BY <1>1
<1>3. SubSeq(p, 1, k) \in Seq(Name) /\ Len(SubSeq(p, 1, k)) = k
      /\ \A i \in 1 .. k : SubSeq(p, 1, k)[i] = p[i]
  BY PrefixProperties
<1>4. SubSeq(p, 1, j) \in Seq(Name) /\ Len(SubSeq(p, 1, j)) = j
      /\ \A i \in 1 .. j : SubSeq(p, 1, j)[i] = p[i]
  BY <1>2, PrefixProperties
<1> DEFINE q == SubSeq(p, 1, k)
<1>5. /\ SubSeq(q, 1, j) \in Seq(Name) /\ Len(SubSeq(q, 1, j)) = j
      /\ \A i \in 1 .. j : SubSeq(q, 1, j)[i] = q[i]
  <2> q \in Seq(Name) /\ j \in 0 .. Len(q)
    BY <1>3
  <2> HIDE DEF q
  <2> QED BY PrefixProperties
<1>6. \A i \in 1 .. j : SubSeq(q, 1, j)[i] = SubSeq(p, 1, j)[i]
  BY <1>2, <1>3, <1>4, <1>5
<1> QED BY <1>4, <1>5, <1>6, SeqEqual

\* The whole path is a prefix of itself.
LEMMA PrefixFull ==
  ASSUME NEW p \in Seq(Name)
  PROVE  SubSeq(p, 1, Len(p)) = p /\ Len(p) \in Nat
BY SubSeqFull, LenProperties

\* What lies below a path begins with it.
LEMMA BelowIs ==
  ASSUME NEW p \in Seq(Name), NEW q \in Seq(Name)
  PROVE  Below(p, q) <=> Len(q) <= Len(p) /\ SubSeq(p, 1, Len(q)) = q
<1>1. SubSeq(q, 1, Len(q)) = q
  BY PrefixFull
<1> QED BY <1>1 DEF Below, IsPrefix

LEMMA BelowReflexive ==
  ASSUME NEW p \in Seq(Name)
  PROVE  Below(p, p)
BY BelowIs, PrefixFull

LEMMA BelowTransitive ==
  ASSUME NEW p \in Seq(Name), NEW q \in Seq(Name), NEW s \in Seq(Name),
         Below(p, q), Below(q, s)
  PROVE  Below(p, s)
<1>1. Len(q) <= Len(p) /\ SubSeq(p, 1, Len(q)) = q /\ Len(s) <= Len(q) /\ SubSeq(q, 1, Len(s)) = s
  BY BelowIs
<1>2. Len(p) \in Nat /\ Len(q) \in Nat /\ Len(s) \in Nat
  BY LenProperties
<1>3. Len(q) \in 0 .. Len(p) /\ Len(s) \in 0 .. Len(q) /\ Len(s) <= Len(p)
  BY <1>1, <1>2
<1>4. SubSeq(SubSeq(p, 1, Len(q)), 1, Len(s)) = SubSeq(p, 1, Len(s))
  BY <1>3, PrefixOfPrefix
<1> QED BY <1>1, <1>3, <1>4, BelowIs

\* Of two prefixes of one path the longer lies below the shorter.
LEMMA PrefixesNest ==
  ASSUME NEW p \in Seq(Name), NEW k \in 0 .. Len(p), NEW j \in 0 .. k
  PROVE  Below(SubSeq(p, 1, k), SubSeq(p, 1, j))
<1>1. Len(p) \in Nat
  BY LenProperties
<1>2. j \in 0 .. Len(p)
  BY <1>1
<1>3. SubSeq(p, 1, k) \in Seq(Name) /\ Len(SubSeq(p, 1, k)) = k
  BY PrefixProperties
<1>4. SubSeq(p, 1, j) \in Seq(Name) /\ Len(SubSeq(p, 1, j)) = j
  BY <1>2, PrefixProperties
<1>5. SubSeq(SubSeq(p, 1, k), 1, j) = SubSeq(p, 1, j) /\ j <= k
  BY PrefixOfPrefix
<1> QED BY <1>3, <1>4, <1>5, BelowIs

\* A path is below its prefixes.
LEMMA BelowPrefix ==
  ASSUME NEW p \in Seq(Name), NEW j \in 0 .. Len(p)
  PROVE  Below(p, SubSeq(p, 1, j))
<1>1. Len(p) \in 0 .. Len(p) /\ SubSeq(p, 1, Len(p)) = p
  BY PrefixFull
<1> QED BY <1>1, PrefixesNest

\* A path with one more name.
LEMMA AppendPath ==
  ASSUME NEW p \in Seq(Name), NEW n \in Name
  PROVE  /\ Append(p, n) \in Paths
         /\ Len(Append(p, n)) = Len(p) + 1
         /\ Last(Append(p, n)) = n
         /\ Front(Append(p, n)) = p
         /\ \A k \in 0 .. Len(p) : SubSeq(Append(p, n), 1, k) = SubSeq(p, 1, k)
         /\ Below(Append(p, n), p)
<1> DEFINE q == Append(p, n)
<1>1. /\ q \in Seq(Name) /\ q # <<>> /\ Len(q) = Len(p) + 1
      /\ \A i \in 1 .. Len(p) : q[i] = p[i]
      /\ q[Len(p) + 1] = n
  BY AppendProperties
<1>2. Len(p) \in Nat
  BY LenProperties
<1> HIDE DEF q
<1>3. ASSUME NEW k \in 0 .. Len(p) PROVE SubSeq(q, 1, k) = SubSeq(p, 1, k)
  <2>1. k \in 0 .. Len(q)
    BY <1>1, <1>2
  <2>2. SubSeq(q, 1, k) \in Seq(Name) /\ Len(SubSeq(q, 1, k)) = k
        /\ \A i \in 1 .. k : SubSeq(q, 1, k)[i] = q[i]
    BY <1>1, <2>1, PrefixProperties
  <2>3. SubSeq(p, 1, k) \in Seq(Name) /\ Len(SubSeq(p, 1, k)) = k
        /\ \A i \in 1 .. k : SubSeq(p, 1, k)[i] = p[i]
    BY PrefixProperties
  <2>4. \A i \in 1 .. k : SubSeq(q, 1, k)[i] = SubSeq(p, 1, k)[i]
    <3>1. \A i \in 1 .. k : i \in 1 .. Len(p)
      BY <1>2
    <3> QED BY <1>1, <2>2, <2>3, <3>1
  <2> QED BY <2>2, <2>3, <2>4, SeqEqual
<1>4. Front(q) = p
  <2>1. Len(q) - 1 = Len(p) /\ Len(p) \in 0 .. Len(p)
    BY <1>1, <1>2
  <2> QED BY <1>3, <2>1, PrefixFull DEF Front
<1>5. Last(q) = n
  BY <1>1 DEF Last
<1>6. Below(q, p)
  <2>1. SubSeq(q, 1, Len(p)) = p
    BY <1>2, <1>3, PrefixFull
  <2>2. Len(p) <= Len(q)
    BY <1>1, <1>2
  <2> QED BY <1>1, <2>1, <2>2, BelowIs
<1> QED BY <1>1, <1>3, <1>4, <1>5, <1>6 DEF q, Paths

\* A path is its front and its last name.
LEMMA FrontPath ==
  ASSUME NEW p \in Paths
  PROVE  /\ Len(p) \in Nat \ {0}
         /\ Front(p) \in Seq(Name) /\ Len(Front(p)) = Len(p) - 1
         /\ Front(p) = SubSeq(p, 1, Len(p) - 1)
         /\ Last(p) \in Name
         /\ p = Append(Front(p), Last(p))
         /\ \A k \in 0 .. Len(p) - 1 : SubSeq(Front(p), 1, k) = SubSeq(p, 1, k)
<1>1. Len(p) \in Nat \ {0} /\ p \in Seq(Name)
  BY EmptySeq DEF Paths
<1>2. Len(p) - 1 \in 0 .. Len(p) /\ Len(p) \in 1 .. Len(p)
  BY <1>1
<1>3. /\ Front(p) = SubSeq(p, 1, Len(p) - 1)
      /\ Front(p) \in Seq(Name) /\ Len(Front(p)) = Len(p) - 1
      /\ \A i \in 1 .. Len(p) - 1 : Front(p)[i] = p[i]
  BY <1>1, <1>2, PrefixProperties DEF Front
<1>4. Last(p) \in Name
  BY <1>1, <1>2, ElementOfSeq DEF Last
<1>5. ASSUME NEW k \in 0 .. Len(p) - 1 PROVE SubSeq(Front(p), 1, k) = SubSeq(p, 1, k)
  BY <1>1, <1>2, <1>3, PrefixOfPrefix
<1>6. p = Append(Front(p), Last(p))
  <2> DEFINE q == Append(Front(p), Last(p))
  <2>1. /\ q \in Seq(Name) /\ Len(q) = Len(p) - 1 + 1
        /\ \A i \in 1 .. Len(p) - 1 : q[i] = Front(p)[i]
        /\ q[Len(p) - 1 + 1] = Last(p)
    BY <1>3, <1>4, AppendProperties
  <2> HIDE DEF q
  <2>2. Len(p) - 1 + 1 = Len(p)
    BY <1>1
  <2>3. \A i \in 1 .. Len(p) : p[i] = q[i]
    <3>1. \A i \in 1 .. Len(p) : i \in 1 .. Len(p) - 1 \/ i = Len(p)
      BY <1>1
    <3> QED BY <1>3, <2>1, <2>2, <3>1 DEF Last
  <2>4. p = q
    BY <1>1, <2>1, <2>2, <2>3, SeqEqual
  <2> QED BY <2>4 DEF q
<1> QED BY <1>1, <1>3, <1>4, <1>5, <1>6

-----------------------------------------------------------------------------
(* What a path becomes when its first k names are a link. *)

Moved(p, k) == Elsewhere \o SubSeq(p, k + 1, Len(p))

LEMMA PathTypes ==
  /\ Path \subseteq Paths
  /\ Elsewhere \in Paths /\ Elsewhere \in Seq(Name) /\ Len(Elsewhere) \in Nat \ {0}
  /\ \A x \in Task : At[x] \in Path /\ At[x] \in Paths /\ At[x] \in Seq(Name)
                     /\ Len(At[x]) \in Nat \ {0}
<1>1. Path \subseteq Paths /\ Elsewhere \in Path /\ \A x \in Task : At[x] \in Path
  BY TreeAssumption DEF Paths
<1>2. \A p \in Path : p \in Paths /\ p \in Seq(Name) /\ Len(p) \in Nat \ {0}
  BY <1>1, EmptySeq DEF Paths
<1> QED BY <1>1, <1>2

LEMMA MovedProperties ==
  ASSUME NEW p \in Seq(Name), NEW k \in 0 .. Len(p)
  PROVE  /\ Moved(p, k) \in Paths
         /\ Len(Moved(p, k)) = Len(Elsewhere) + (Len(p) - k)
         /\ \A i \in 1 .. Len(Elsewhere) : Moved(p, k)[i] = Elsewhere[i]
         /\ \A i \in 1 .. Len(p) - k : Moved(p, k)[Len(Elsewhere) + i] = p[k + i]
         /\ Below(Moved(p, k), Elsewhere)
<1> DEFINE rest == SubSeq(p, k + 1, Len(p))
<1>1. Len(Elsewhere) \in Nat \ {0} /\ Elsewhere \in Seq(Name) /\ Len(p) \in Nat
  BY PathTypes, LenProperties
<1>2. rest \in Seq(Name) /\ Len(rest) = Len(p) - k /\ \A i \in 1 .. Len(p) - k : rest[i] = p[k + i]
  BY RestProperties
<1>3. Moved(p, k) = Elsewhere \o rest
  BY DEF Moved
<1> HIDE DEF rest
<1>4. /\ Moved(p, k) \in Seq(Name) /\ Len(Moved(p, k)) = Len(Elsewhere) + (Len(p) - k)
      /\ \A i \in 1 .. Len(Elsewhere) + (Len(p) - k) : Moved(p, k)[i] =
            IF i <= Len(Elsewhere) THEN Elsewhere[i] ELSE rest[i - Len(Elsewhere)]
  <2>1. Elsewhere \in Seq(Name) /\ rest \in Seq(Name)
    BY <1>1, <1>2
  <2>2. /\ Elsewhere \o rest \in Seq(Name) /\ Len(Elsewhere \o rest) = Len(Elsewhere) + Len(rest)
        /\ \A i \in 1 .. Len(Elsewhere) + Len(rest) : (Elsewhere \o rest)[i] =
              IF i <= Len(Elsewhere) THEN Elsewhere[i] ELSE rest[i - Len(Elsewhere)]
    BY <2>1, ConcatProperties
  <2>3. Len(rest) = Len(p) - k
    BY <1>2
  <2> QED BY <1>3, <2>2, <2>3, Zenon
<1>5. \A i \in 1 .. Len(Elsewhere) : Moved(p, k)[i] = Elsewhere[i]
  BY <1>1, <1>4
<1>6. \A i \in 1 .. Len(p) - k : Moved(p, k)[Len(Elsewhere) + i] = p[k + i]
  <2> SUFFICES ASSUME NEW i \in 1 .. Len(p) - k
               PROVE  Moved(p, k)[Len(Elsewhere) + i] = p[k + i]
    OBVIOUS
  <2>1. /\ Len(Elsewhere) + i \in 1 .. Len(Elsewhere) + (Len(p) - k)
        /\ ~(Len(Elsewhere) + i <= Len(Elsewhere))
        /\ Len(Elsewhere) + i - Len(Elsewhere) = i
    BY <1>1
  <2>2. Moved(p, k)[Len(Elsewhere) + i] = rest[i]
    BY <1>4, <2>1
  <2> QED BY <1>2, <2>2
<1>7. Moved(p, k) # <<>>
  BY <1>1, <1>4, EmptySeq
<1>8. Below(Moved(p, k), Elsewhere)
  <2>1. Len(Elsewhere) \in 0 .. Len(Moved(p, k)) /\ Len(Elsewhere) <= Len(Moved(p, k))
    BY <1>1, <1>4
  <2>2. /\ SubSeq(Moved(p, k), 1, Len(Elsewhere)) \in Seq(Name)
        /\ Len(SubSeq(Moved(p, k), 1, Len(Elsewhere))) = Len(Elsewhere)
        /\ \A i \in 1 .. Len(Elsewhere) :
                SubSeq(Moved(p, k), 1, Len(Elsewhere))[i] = Moved(p, k)[i]
    BY <1>4, <2>1, PrefixProperties
  <2>3. SubSeq(Moved(p, k), 1, Len(Elsewhere)) = Elsewhere
    BY <1>1, <1>5, <2>2, SeqEqual
  <2> QED BY <1>1, <1>4, <2>1, <2>3, BelowIs
<1> QED BY <1>4, <1>5, <1>6, <1>7, <1>8 DEF Paths

LEMMA MovedWhole ==
  ASSUME NEW p \in Seq(Name)
  PROVE  Moved(p, Len(p)) = Elsewhere
<1>1. Len(p) \in 0 .. Len(p) /\ Len(p) + 1 \in Int /\ Len(p) \in Int /\ Len(p) < Len(p) + 1
  BY LenProperties
<1>2. SubSeq(p, Len(p) + 1, Len(p)) = <<>>
  BY <1>1, SubSeqEmpty
<1> QED BY <1>2, PathTypes, ConcatEmptySeq DEF Moved

\* A prefix of a path moves with it.
LEMMA MovedPrefix ==
  ASSUME NEW p \in Seq(Name), NEW j \in 0 .. Len(p), NEW k \in 0 .. j
  PROVE  /\ Below(Moved(p, k), Moved(SubSeq(p, 1, j), k))
         /\ SubSeq(Moved(p, k), 1, Len(Elsewhere) + (j - k)) = Moved(SubSeq(p, 1, j), k)
<1> DEFINE q == SubSeq(p, 1, j)
           e == Len(Elsewhere)
           n == e + (j - k)
           a == Moved(p, k)
           b == Moved(q, k)
           c == SubSeq(a, 1, n)
<1>1. e \in Nat /\ Len(p) \in Nat
  BY PathTypes, LenProperties
<1>2. k \in 0 .. Len(p) /\ q \in Seq(Name) /\ Len(q) = j /\ \A i \in 1 .. j : q[i] = p[i]
  BY <1>1, PrefixProperties
<1>3. /\ a \in Seq(Name) /\ Len(a) = e + (Len(p) - k)
      /\ \A i \in 1 .. e : a[i] = Elsewhere[i]
      /\ \A i \in 1 .. Len(p) - k : a[e + i] = p[k + i]
  BY <1>2, MovedProperties DEF Paths
<1>4. /\ b \in Seq(Name) /\ Len(b) = n
      /\ \A i \in 1 .. e : b[i] = Elsewhere[i]
      /\ \A i \in 1 .. j - k : b[e + i] = q[k + i]
  <2> HIDE DEF q
  <2> QED BY <1>2, MovedProperties DEF Paths
<1> HIDE DEF a, b, q
<1>5. n \in 0 .. Len(a) /\ n <= Len(a)
  BY <1>1, <1>3
<1>6. c \in Seq(Name) /\ Len(c) = n /\ \A i \in 1 .. n : c[i] = a[i]
  <2> HIDE DEF n
  <2> QED BY <1>3, <1>5, PrefixProperties
<1>7. \A i \in 1 .. n : c[i] = b[i]
  <2> SUFFICES ASSUME NEW i \in 1 .. n PROVE a[i] = b[i]
    BY <1>6
  <2>1. CASE i <= e
    BY <1>1, <1>3, <1>4, <2>1
  <2>2. CASE ~(i <= e)
    <3> DEFINE d == i - e
    <3>1. d \in 1 .. j - k /\ e + d = i /\ d \in 1 .. Len(p) - k /\ k + d \in 1 .. j
      BY <1>1, <2>2
    <3> HIDE DEF d
    <3>2. a[i] = p[k + d] /\ b[i] = q[k + d]
      BY <1>3, <1>4, <3>1
    <3> QED BY <1>2, <3>1, <3>2
  <2> QED BY <2>1, <2>2
<1>8. c = b
  <2> HIDE DEF c, n
  <2> QED BY <1>4, <1>6, <1>7, SeqEqual
<1>9. Below(a, b)
  <2> HIDE DEF n
  <2> QED BY <1>3, <1>4, <1>5, <1>8, BelowIs DEF c
<1> QED BY <1>8, <1>9 DEF a, b, c, q

LEMMA MovedFront ==
  ASSUME NEW p \in Paths, NEW k \in 0 .. Len(p) - 1
  PROVE  Front(Moved(p, k)) = Moved(Front(p), k)
<1>1. Len(p) \in Nat \ {0} /\ p \in Seq(Name) /\ Front(p) = SubSeq(p, 1, Len(p) - 1)
  BY FrontPath DEF Paths
<1>2. Len(p) - 1 \in 0 .. Len(p) /\ k \in 0 .. Len(p)
  BY <1>1
<1>3. SubSeq(Moved(p, k), 1, Len(Elsewhere) + (Len(p) - 1 - k)) = Moved(Front(p), k)
  BY <1>1, <1>2, MovedPrefix
<1>4. Len(Moved(p, k)) = Len(Elsewhere) + (Len(p) - k)
  BY <1>1, <1>2, MovedProperties
<1>5. Len(Moved(p, k)) - 1 = Len(Elsewhere) + (Len(p) - 1 - k)
  BY <1>1, <1>4, PathTypes
<1> QED BY <1>3, <1>5 DEF Front

-----------------------------------------------------------------------------
(* Trees, and what the server finds in one.  The operators of RemoteTree    *)
(* are about the variable tree; these are about any tree t.                 *)

\* A set of naturals that is not empty has a least element.
LEMMA Least ==
  ASSUME NEW T \in SUBSET Nat, T # {}
  PROVE  \E x \in T : \A y \in T : x <= y
<1> DEFINE R == {ss \in Nat \X Nat : ss[1] < ss[2]}
<1>1. IsWellFoundedOn(R, Nat)
  <2>1. OpToRel(<, Nat) = R BY Zenon DEF OpToRel
  <2> QED BY <2>1, NatLessThanWellFounded
<1>2. \A x, y \in Nat : x < y => <<x, y>> \in R
  OBVIOUS
<1> HIDE DEF R
<1>3. PICK x \in T : \A y \in T : ~(<<y, x>> \in R)
  BY <1>1, WFMin, Zenon
<1>4. \A y \in T : ~(y < x) BY <1>2, <1>3
<1> QED BY <1>4

\* Induction, for membership in a set.
LEMMA Induction ==
  ASSUME NEW n \in Nat, NEW S, 0 \in S, \A i \in 1..n : i - 1 \in S => i \in S
  PROVE  \A i \in 0..n : i \in S
<1> DEFINE D == {i \in 0..n : i \notin S}
<1>1. SUFFICES ASSUME D # {} PROVE FALSE OBVIOUS
<1>2. PICK x \in D : \A y \in D : x <= y
  <2> D \in SUBSET Nat OBVIOUS
  <2> HIDE DEF D
  <2> QED BY <1>1, Least
<1> QED BY <1>2

TreeIn(t) ==
    /\ DOMAIN t \subseteq Path /\ WellFormed(t)
    /\ \A p \in DOMAIN t : t[p] \in Kind

Is(t, p, kind) == p \in DOMAIN t /\ t[p] = kind

Link(t, p, k) == Is(t, SubSeq(p, 1, k), "link")

Found(t, p) ==
    IF \E k \in 1 .. Len(p) - 1 : Link(t, p, k)
    THEN Moved(p, CHOOSE k \in 1 .. Len(p) - 1 : Link(t, p, k))
    ELSE p

Followed(t, p) == IF Is(t, Found(t, p), "link") THEN Elsewhere ELSE Found(t, p)

LEMMA Lookup ==
  /\ \A p, kind : IsA(p, kind) <=> Is(tree, p, kind)
  /\ \A p : Resolve(p) = Found(tree, p)
  /\ \A p : Exists(p) <=> Found(tree, p) \in DOMAIN tree
  /\ \A p : Follow(p) = Followed(tree, p)
<1>1. \A p, kind : IsA(p, kind) <=> Is(tree, p, kind)
  BY DEF IsA, Is
<1>2. \A p : Resolve(p) = Found(tree, p)
  BY DEF Resolve, Found, Link, Moved, IsA, Is
<1> QED BY <1>1, <1>2, Zenon DEF Exists, Follow, Followed

LEMMA LookupNext ==
  /\ \A p, kind : IsA(p, kind)' <=> Is(tree', p, kind)
  /\ \A p : Resolve(p)' = Found(tree', p)
  /\ \A p : Exists(p)' <=> Found(tree', p) \in DOMAIN tree'
  /\ \A p : Follow(p)' = Followed(tree', p)
<1>1. \A p, kind : IsA(p, kind)' <=> Is(tree', p, kind)
  BY DEF IsA, Is
<1>2. \A p : Resolve(p)' = Found(tree', p)
  BY DEF Resolve, Found, Link, Moved, IsA, Is
<1> QED BY <1>1, <1>2, Zenon DEF Exists, Follow, Followed

LEMMA DomainPaths ==
  ASSUME NEW t, TreeIn(t), NEW p \in DOMAIN t
  PROVE  p \in Paths /\ p \in Seq(Name) /\ Len(p) \in Nat \ {0}
<1>1. p \in Paths
  BY PathTypes DEF TreeIn
<1> QED BY <1>1, FrontPath DEF Paths

\* What exists lies in directories.
LEMMA Ancestors ==
  ASSUME NEW t, TreeIn(t), NEW p \in DOMAIN t, NEW k \in 1 .. Len(p) - 1
  PROVE  Is(t, SubSeq(p, 1, k), "directory")
<1>1. p \in Seq(Name) /\ Len(p) \in Nat \ {0}
  BY DomainPaths
<1> DEFINE Q(j) == SubSeq(p, 1, Len(p) - j)
           S == {j \in 0 .. Len(p) - 1 : Q(j) \in DOMAIN t /\ (j = 0 \/ t[Q(j)] = "directory")}
<1>2. 0 \in S
  <2>1. Len(p) - 0 = Len(p) /\ 0 \in 0 .. Len(p) - 1
    BY <1>1
  <2>2. Q(0) = p
    BY <1>1, <2>1, PrefixFull
  <2> QED BY <2>1, <2>2
<1>3. ASSUME NEW j \in 1 .. Len(p) - 1, j - 1 \in S PROVE j \in S
  <2> DEFINE q == Q(j - 1)
  <2>1. Len(p) - (j - 1) \in 0 .. Len(p) /\ Len(p) - j \in 0 .. Len(p) - (j - 1)
        /\ Len(p) - (j - 1) - 1 = Len(p) - j /\ Len(p) - (j - 1) > 1
    BY <1>1
  <2>2. q \in Seq(Name) /\ Len(q) = Len(p) - (j - 1)
    BY <1>1, <2>1, PrefixProperties
  <2>3. SubSeq(q, 1, Len(p) - j) = Q(j)
    BY <1>1, <2>1, PrefixOfPrefix
  <2>4. Front(q) = Q(j)
    BY <2>1, <2>2, <2>3 DEF Front
  <2>5. q \in DOMAIN t
    BY <1>3
  <2>6. Front(q) \in DOMAIN t /\ t[Front(q)] = "directory"
    BY <2>1, <2>2, <2>5 DEF TreeIn, WellFormed
  <2>7. j \in 0 .. Len(p) - 1
    BY <1>1
  <2> QED BY <2>4, <2>6, <2>7
<1>4. \A j \in 0 .. Len(p) - 1 : j \in S
  <2>1. Len(p) - 1 \in Nat
    BY <1>1
  <2> DEFINE n == Len(p) - 1
  <2>2. 0 \in S /\ \A j \in 1 .. n : j - 1 \in S => j \in S
    BY <1>2, <1>3
  <2> HIDE DEF S
  <2>3. n \in Nat
    BY <2>1
  <2> HIDE DEF n
  <2>4. \A j \in 0 .. n : j \in S
    BY <2>2, <2>3, Induction
  <2> QED BY <2>4 DEF n
<1>5. Len(p) - k \in 0 .. Len(p) - 1 /\ Len(p) - k # 0 /\ Len(p) - (Len(p) - k) = k
  BY <1>1
<1>6. Len(p) - k \in S
  BY <1>4, <1>5
<1> QED BY <1>5, <1>6 DEF Is

\* The ancestors of what exists, as an interval of lengths.
LEMMA NoLinkBefore ==
  ASSUME NEW t, TreeIn(t), NEW p \in DOMAIN t, NEW k \in 1 .. Len(p) - 1
  PROVE  ~Link(t, p, k)
BY Ancestors DEF Link, Is

\* At most one prefix of a path is a link.
LEMMA OnlyLink ==
  ASSUME NEW t, TreeIn(t), NEW p \in Seq(Name),
         NEW j \in 1 .. Len(p), NEW k \in 1 .. Len(p), Link(t, p, j), Link(t, p, k)
  PROVE  j = k
<1>1. Len(p) \in Nat
  BY LenProperties
<1>2. ASSUME NEW m \in 1 .. Len(p), NEW n \in 1 .. Len(p), m < n, Link(t, p, m), Link(t, p, n)
      PROVE  FALSE
  <2> DEFINE q == SubSeq(p, 1, n)
  <2>1. n \in 0 .. Len(p) /\ m \in 0 .. n
    BY <1>1, <1>2
  <2>2. Len(q) = n
    BY <2>1, PrefixProperties
  <2>3. q \in DOMAIN t
    BY <1>2 DEF Link, Is
  <2>4. m \in 1 .. Len(q) - 1
    BY <1>1, <1>2, <2>2
  <2>5. SubSeq(q, 1, m) = SubSeq(p, 1, m)
    BY <2>1, PrefixOfPrefix
  <2> HIDE DEF q
  <2>6. ~Link(t, q, m)
    BY <2>3, <2>4, NoLinkBefore
  <2> QED BY <1>2, <2>5, <2>6 DEF Link
<1>3. j < k \/ k < j \/ j = k
  BY <1>1
<1> QED BY <1>2, <1>3

LEMMA FoundPlain ==
  ASSUME NEW t, NEW p, \A k \in 1 .. Len(p) - 1 : ~Link(t, p, k)
  PROVE  Found(t, p) = p
BY DEF Found

LEMMA FoundThrough ==
  ASSUME NEW t, TreeIn(t), NEW p \in Seq(Name), NEW k \in 1 .. Len(p) - 1, Link(t, p, k)
  PROVE  Found(t, p) = Moved(p, k)
<1> DEFINE j == CHOOSE i \in 1 .. Len(p) - 1 : Link(t, p, i)
<1>1. j \in 1 .. Len(p) - 1 /\ Link(t, p, j)
  OBVIOUS
<1>2. Found(t, p) = Moved(p, j)
  BY DEF Found
<1> HIDE DEF j
<1>3. j \in 1 .. Len(p) /\ k \in 1 .. Len(p)
  BY <1>1, LenProperties
<1>4. j = k
  BY <1>1, <1>3, OnlyLink
<1> QED BY <1>2, <1>4

LEMMA FoundPath ==
  ASSUME NEW t, TreeIn(t), NEW p \in Paths
  PROVE  Found(t, p) \in Paths /\ Found(t, p) \in Seq(Name)
<1>1. CASE \E k \in 1 .. Len(p) - 1 : Link(t, p, k)
  <2>1. PICK k \in 1 .. Len(p) - 1 : Link(t, p, k)
    BY <1>1
  <2>2. p \in Seq(Name) /\ Len(p) \in Nat
    BY FrontPath DEF Paths
  <2>3. k \in 0 .. Len(p)
    BY <2>2
  <2>4. Found(t, p) = Moved(p, k)
    BY <2>1, <2>2, FoundThrough
  <2> QED BY <2>2, <2>3, <2>4, MovedProperties DEF Paths
<1>2. CASE ~\E k \in 1 .. Len(p) - 1 : Link(t, p, k)
  BY <1>2, FoundPlain DEF Paths
<1> QED BY <1>1, <1>2

\* What exists is found where it is.
LEMMA FoundExisting ==
  ASSUME NEW t, TreeIn(t), NEW p \in DOMAIN t
  PROVE  Found(t, p) = p
BY NoLinkBefore, FoundPlain

\* Following a path leads through the link on it, or nowhere else.
LEMMA FollowedThrough ==
  ASSUME NEW t, TreeIn(t), NEW p \in Paths, NEW k \in 1 .. Len(p), Link(t, p, k)
  PROVE  Followed(t, p) = Moved(p, k)
<1>1. p \in Seq(Name) /\ Len(p) \in Nat \ {0}
  BY FrontPath DEF Paths
<1>2. CASE k = Len(p)
  <2>1. Link(t, p, Len(p)) /\ SubSeq(p, 1, Len(p)) = p
    BY <1>1, <1>2, PrefixFull
  <2>2. Is(t, p, "link")
    BY <2>1 DEF Link
  <2>3. Found(t, p) = p
    BY <2>2, FoundExisting DEF Is
  <2> QED BY <1>1, <1>2, <2>2, <2>3, MovedWhole DEF Followed
<1>3. CASE k # Len(p)
  <2>1. k \in 1 .. Len(p) - 1 /\ k \in 0 .. Len(p)
    BY <1>1, <1>3
  <2>2. Found(t, p) = Moved(p, k)
    BY <1>1, <2>1, FoundThrough
  <2>3. Below(Moved(p, k), Elsewhere)
    BY <1>1, <2>1, MovedProperties
  <2>4. ~Is(t, Moved(p, k), "link")
    BY <2>3 DEF TreeIn, WellFormed, Is
  <2> QED BY <2>2, <2>4 DEF Followed
<1> QED BY <1>2, <1>3

LEMMA FollowedPlain ==
  ASSUME NEW t, TreeIn(t), NEW p \in Paths, \A k \in 1 .. Len(p) : ~Link(t, p, k)
  PROVE  Followed(t, p) = p
<1>1. p \in Seq(Name) /\ Len(p) \in Nat \ {0}
  BY FrontPath DEF Paths
<1>2. ~Is(t, p, "link")
  <2>1. ~Link(t, p, Len(p)) /\ SubSeq(p, 1, Len(p)) = p
    BY <1>1, PrefixFull
  <2> QED BY <2>1 DEF Link
<1>3. Found(t, p) = p
  BY <1>1, FoundPlain
<1> QED BY <1>2, <1>3 DEF Followed

LEMMA FollowedPath ==
  ASSUME NEW t, TreeIn(t), NEW p \in Paths
  PROVE  Followed(t, p) \in Paths /\ Followed(t, p) \in Seq(Name)
BY FoundPath, PathTypes DEF Followed

-----------------------------------------------------------------------------
(* The inductive invariant. *)

EntryType == [name : Name, kind : Kind]

Dir == [path : Paths, real : Paths, due : SUBSET Name, listed : SUBSET Name,
        entries : SUBSET EntryType]

LocalTypes ==
    /\ outcome \in [Task -> {"none", "ok", "failed"}]
    /\ level \in [Creator -> Nat]
    /\ stage \in [Remover -> {"open", "read", "unlink", "rmdir"}]
    /\ target \in [Remover -> Paths]
    /\ stack \in [Remover -> Seq(Dir)]
    /\ base \in [Remover -> Path]
    /\ excused \subseteq Task

\* The prefixes that a creation is done with exist.
Creating(c) ==
    /\ level[c] <= Len(At[c])
    /\ outcome[c] = "none" => level[c] < Len(At[c])
    /\ outcome[c] = "ok" => level[c] = Len(At[c])
    /\ c \notin excused =>
            \A k \in 1 .. level[c] : Found(tree, SubSeq(At[c], 1, k)) \in DOMAIN tree

Settled(r) == outcome[r] # "none" \/ stage[r] # "open" \/ stack[r] # <<>>

Going(r) == outcome[r] = "none" /\ Settled(r)

Due(r) == \A i \in 1 .. Len(stack[r]) : stack[r][i].due \cap stack[r][i].listed = {}

\* The directories that a removal reads lie in one another, and what it
\* handles in the innermost.
Stacked(r) ==
    /\ Below(target[r], At[r])
    /\ \A i \in 1 .. Len(stack[r]) :
         Below(stack[r][i].path, At[r]) /\ Len(stack[r][i].path) = Len(At[r]) + (i - 1)
    /\ \A i \in 1 .. Len(stack[r]) - 1 : stack[r][i].path = Front(stack[r][i + 1].path)
    /\ outcome[r] = "none" =>
         /\ stack[r] = <<>> => target[r] = At[r] /\ stage[r] \in {"open", "rmdir"}
         /\ stack[r] # <<>> => stack[r][1].path = At[r]
         /\ stack[r] # <<>> /\ stage[r] # "read" => Front(target[r]) = Last(stack[r]).path

\* No link lies on p behind the path that r was given.
NoLink(t, p, r) == \A k \in Len(At[r]) + 1 .. Len(p) : ~Link(t, p, k)

\* What is listed in a directory elsewhere is not taken for what is here.
Real(t, dir) ==
    /\ dir.real # dir.path => \A n \in Name : ~Is(t, Append(dir.path, n), "link")
    /\ \A e \in dir.entries : e.kind = "directory" => ~Is(t, Append(dir.real, e.name), "link")

\* A removal goes down into real directories only.
Straight(r) ==
    /\ \A i \in 1 .. Len(stack[r]) : NoLink(tree, stack[r][i].path, r) /\ Real(tree, stack[r][i])
    /\ outcome[r] = "none" /\ stage[r] \in {"open", "rmdir"} => NoLink(tree, target[r], r)

\* A removal began where its path leads, if there is still a link on it; if
\* not, then where the path is, or some removal has taken the link.
Began(r) ==
    /\ \A k \in 1 .. Len(At[r]) : Link(tree, At[r], k) => base[r] = Moved(At[r], k)
    /\ \/ \E k \in 1 .. Len(At[r]) : Link(tree, At[r], k)
       \/ base[r] = At[r]
       \/ \E s \in Remover : Settled(s) /\ Below(At[r], base[s])

Based(r) == Going(r) => Began(r)

\* The entry of its i-th directory that a removal is busy with.
Current(r, i) ==
    IF i < Len(stack[r]) THEN {Last(stack[r][i + 1].path)}
    ELSE IF stage[r] = "read" THEN {}
    ELSE {Last(target[r])}

\* The names of what lies in p.
NamesIn(t, p) == {n \in Name : Append(p, n) \in DOMAIN t}

\* Whatever lies in a directory is due, an entry to be handled, or current.
Faithful(t, dir, current) ==
    /\ dir.real = dir.path
    /\ Is(t, dir.path, "directory")
    /\ NamesIn(t, dir.path) \subseteq dir.due \cup {e.name : e \in dir.entries} \cup current
    /\ \A e \in dir.entries : Is(t, Append(dir.path, e.name), e.kind) /\ e.name \notin current

Regular(r) ==
    /\ \A i \in 1 .. Len(stack[r]) : Faithful(tree, stack[r][i], Current(r, i))
    /\ stage[r] \in {"open", "rmdir"} => Is(tree, target[r], "directory")
    /\ stage[r] = "rmdir" => NamesIn(tree, target[r]) = {}
    /\ stage[r] = "unlink" =>
            target[r] \in DOMAIN tree /\ ~Is(tree, target[r], "directory")

\* The removal was given no directory: a link, or something behind one.
Astray(r) == \A kind : Is(tree, At[r], kind) => kind = "link"

\* What a removal that nobody gets in the way of has done.
Whole(r) ==
    r \notin excused =>
        /\ Going(r) => Astray(r) \/ Regular(r)
        /\ outcome[r] = "ok" => \A p \in DOMAIN tree : ~Below(p, At[r])
        /\ outcome[r] = "failed" => ~Is(tree, At[r], "directory")

Removing(r) ==
    /\ Due(r)
    /\ Stacked(r)
    /\ Straight(r)
    /\ Based(r)
    /\ Whole(r)

IInv ==
    /\ TreeIn(tree)
    /\ LocalTypes
    /\ \A c \in Creator : Creating(c)
    /\ \A r \in Remover : Removing(r)

-----------------------------------------------------------------------------
(* What requests do to a tree.                                              *)

\* u is t with a directory or a file more, in a directory.
Grown(t, u, q) ==
    /\ q \in Path \ DOMAIN t
    /\ DOMAIN u = DOMAIN t \cup {q}
    /\ u[q] \in {"directory", "file"}
    /\ \A p \in DOMAIN t : u[p] = t[p]
    /\ Len(q) > 1 => Is(t, Front(q), "directory")

\* u is t without something that had nothing below it.
Shrunk(t, u, q) ==
    /\ q \in DOMAIN t
    /\ DOMAIN u = DOMAIN t \ {q}
    /\ \A p \in DOMAIN u : u[p] = t[p]
    /\ \A p \in DOMAIN t : Len(p) > 1 => Front(p) # q

LEMMA GrownTree ==
  ASSUME NEW t, NEW u, NEW q, TreeIn(t), Grown(t, u, q)
  PROVE  /\ TreeIn(u)
         /\ \A p : Is(u, p, "link") <=> Is(t, p, "link")
         /\ \A p, kind : Is(t, p, kind) => Is(u, p, kind)
         /\ \A p, kind : p # q /\ Is(u, p, kind) => Is(t, p, kind)
<1>1. \A p \in DOMAIN u : p \in DOMAIN t \/ p = q
  BY DEF Grown
<1>2. DOMAIN u \subseteq Path /\ \A p \in DOMAIN u : u[p] \in Kind
  BY <1>1 DEF Grown, TreeIn, Kind
<1>3. ASSUME NEW p \in DOMAIN u, Len(p) > 1
      PROVE  Front(p) \in DOMAIN u /\ u[Front(p)] = "directory"
  <2>1. Is(t, Front(p), "directory")
    BY <1>1, <1>3 DEF Grown, TreeIn, WellFormed, Is
  <2> QED BY <2>1 DEF Grown, Is
<1>4. \A p : Is(u, p, "link") <=> Is(t, p, "link")
  BY <1>1 DEF Grown, Is
<1>5. ASSUME NEW p \in DOMAIN u, u[p] = "link"
      PROVE  ~Below(p, Elsewhere) /\ ~Below(Elsewhere, p)
  <2>1. p \in DOMAIN t /\ t[p] = "link"
    BY <1>4, <1>5 DEF Is
  <2> QED BY <2>1 DEF TreeIn, WellFormed
<1>6. WellFormed(u)
  BY <1>3, <1>5 DEF WellFormed
<1>7. \A p, kind : Is(t, p, kind) => Is(u, p, kind)
  BY DEF Grown, Is
<1>8. \A p, kind : p # q /\ Is(u, p, kind) => Is(t, p, kind)
  BY <1>1 DEF Grown, Is
<1> QED BY <1>2, <1>4, <1>6, <1>7, <1>8 DEF TreeIn

LEMMA ShrunkTree ==
  ASSUME NEW t, NEW u, NEW q, TreeIn(t), Shrunk(t, u, q)
  PROVE  /\ TreeIn(u)
         /\ \A p, kind : Is(u, p, kind) <=> p # q /\ Is(t, p, kind)
         /\ DOMAIN u \subseteq DOMAIN t
<1>1. \A p \in DOMAIN u : p \in DOMAIN t /\ p # q /\ u[p] = t[p]
  BY DEF Shrunk
<1>2. DOMAIN u \subseteq Path /\ \A p \in DOMAIN u : u[p] \in Kind
  BY <1>1 DEF TreeIn
<1>3. ASSUME NEW p \in DOMAIN u, Len(p) > 1
      PROVE  Front(p) \in DOMAIN u /\ u[Front(p)] = "directory"
  <2>1. Front(p) \in DOMAIN t /\ t[Front(p)] = "directory"
    BY <1>1, <1>3 DEF TreeIn, WellFormed
  <2>2. Front(p) # q
    BY <1>1, <1>3 DEF Shrunk
  <2> QED BY <2>1, <2>2 DEF Shrunk
<1>4. ASSUME NEW p \in DOMAIN u, u[p] = "link"
      PROVE  ~Below(p, Elsewhere) /\ ~Below(Elsewhere, p)
  BY <1>1, <1>4 DEF TreeIn, WellFormed
<1>5. WellFormed(u)
  BY <1>3, <1>4 DEF WellFormed
<1>6. \A p, kind : Is(u, p, kind) <=> p # q /\ Is(t, p, kind)
  BY DEF Shrunk, Is
<1> QED BY <1>1, <1>2, <1>5, <1>6 DEF TreeIn

\* Where a path leads depends on the links on it.
LEMMA SameLinks ==
  ASSUME NEW t, NEW u, TreeIn(t), TreeIn(u), NEW p \in Seq(Name),
         \A k \in 1 .. Len(p) - 1 : Link(u, p, k) <=> Link(t, p, k)
  PROVE  Found(u, p) = Found(t, p)
<1>1. CASE \E k \in 1 .. Len(p) - 1 : Link(t, p, k)
  <2>1. PICK k \in 1 .. Len(p) - 1 : Link(t, p, k)
    BY <1>1
  <2>2. Found(t, p) = Moved(p, k)
    BY <2>1, FoundThrough
  <2>3. Found(u, p) = Moved(p, k)
    BY <2>1, FoundThrough
  <2> QED BY <2>2, <2>3
<1>2. CASE ~\E k \in 1 .. Len(p) - 1 : Link(t, p, k)
  <2>1. Found(t, p) = p /\ Found(u, p) = p
    BY <1>2, FoundPlain
  <2> QED BY <2>1
<1> QED BY <1>1, <1>2

LEMMA GrownLookup ==
  ASSUME NEW t, NEW u, NEW q, TreeIn(t), Grown(t, u, q), NEW p \in Seq(Name)
  PROVE  /\ Found(u, p) = Found(t, p)
         /\ Found(t, p) \in DOMAIN t => Found(u, p) \in DOMAIN u
<1>1. TreeIn(u) /\ \A x : Is(u, x, "link") <=> Is(t, x, "link")
  BY GrownTree
<1>2. \A k \in 1 .. Len(p) - 1 : Link(u, p, k) <=> Link(t, p, k)
  BY <1>1 DEF Link
<1>3. Found(u, p) = Found(t, p)
  BY <1>1, <1>2, SameLinks
<1> QED BY <1>3 DEF Grown

\* What is made lies in a directory.
LEMMA MadeInDirectory ==
  ASSUME NEW t, TreeIn(t), NEW p \in Paths,
         Front(p) = <<>> \/ Is(t, Followed(t, Front(p)), "directory")
  PROVE  Len(Found(t, p)) > 1 => Is(t, Front(Found(t, p)), "directory")
<1> DEFINE f == Front(p)
<1>1. /\ p \in Seq(Name) /\ Len(p) \in Nat \ {0}
      /\ f \in Seq(Name) /\ Len(f) = Len(p) - 1
      /\ \A k \in 0 .. Len(p) - 1 : SubSeq(f, 1, k) = SubSeq(p, 1, k)
  BY FrontPath DEF Paths
<1>2. ASSUME Len(p) > 1
      PROVE  f \in Paths /\ Is(t, Followed(t, f), "directory")
  <2>1. Len(f) # 0
    BY <1>1, <1>2
  <2>2. f # <<>>
    BY <2>1, EmptySeq
  <2> QED BY <1>1, <2>2 DEF Paths
<1>3. \A k \in 1 .. Len(f) : Link(t, f, k) <=> Link(t, p, k)
  <2>1. \A k \in 1 .. Len(f) : k \in 0 .. Len(p) - 1
    BY <1>1
  <2> QED BY <1>1, <2>1 DEF Link
<1> HIDE DEF f
<1>4. CASE \E k \in 1 .. Len(p) - 1 : Link(t, p, k)
  <2>1. PICK k \in 1 .. Len(p) - 1 : Link(t, p, k)
    BY <1>4
  <2>2. k \in 1 .. Len(f) /\ k \in 0 .. Len(p) - 1 /\ Len(p) > 1
    BY <1>1
  <2>3. Found(t, p) = Moved(p, k)
    BY <1>1, <2>1, FoundThrough
  <2>4. Followed(t, f) = Moved(f, k)
    BY <1>2, <1>3, <2>1, <2>2, FollowedThrough
  <2>5. Front(Moved(p, k)) = Moved(f, k)
    BY <2>2, MovedFront DEF f
  <2> QED BY <1>2, <2>2, <2>3, <2>4, <2>5
<1>5. CASE ~\E k \in 1 .. Len(p) - 1 : Link(t, p, k)
  <2>1. Found(t, p) = p
    BY <1>5, FoundPlain
  <2> SUFFICES ASSUME Len(p) > 1 PROVE Is(t, f, "directory")
    BY <2>1 DEF f
  <2>2. \A k \in 1 .. Len(f) : ~Link(t, f, k)
    BY <1>1, <1>3, <1>5
  <2>3. Followed(t, f) = f
    BY <1>2, <2>2, FollowedPlain
  <2> QED BY <1>2, <2>3
<1> QED BY <1>4, <1>5

\* What the server makes.
LEMMA MadeGrows ==
  ASSUME TreeIn(tree), NEW p \in Paths, NEW kind \in {"directory", "file"},
         CanBeMade(p), Made(p, kind)
  PROVE  Grown(tree, tree', Resolve(p)) /\ tree'[Resolve(p)] = kind
<1> DEFINE q == Found(tree, p)
<1>1. Resolve(p) = q
  BY Lookup
<1>2. q \notin DOMAIN tree /\ q \in Path
  BY <1>1, Lookup DEF CanBeMade
<1>3. Front(p) = <<>> \/ Is(tree, Followed(tree, Front(p)), "directory")
  BY Lookup, Zenon DEF CanBeMade, IsDirectory
<1>4. Len(q) > 1 => Is(tree, Front(q), "directory")
  BY <1>1, <1>3, MadeInDirectory
<1>5. tree' = [x \in DOMAIN tree \cup {q} |-> IF x = q THEN kind ELSE tree[x]]
  BY <1>1 DEF Made
<1> HIDE DEF q
<1>6. Grown(tree, tree', q) /\ tree'[q] = kind
  BY <1>2, <1>4, <1>5 DEF Grown
<1> QED BY <1>1, <1>6

\* What the server removes.
LEMMA RemovedShrinks ==
  ASSUME TreeIn(tree), NEW p \in Paths, Unlinkable(p) \/ EmptyDirectory(p), Removed(p)
  PROVE  Shrunk(tree, tree', Resolve(p))
<1> DEFINE q == Resolve(p)
<1>1. TreeIn(tree)
  OBVIOUS
<1>2. q \in DOMAIN tree
  BY DEF Unlinkable, EmptyDirectory, Exists, IsA
<1>3. tree' = [x \in DOMAIN tree \ {q} |-> tree[x]]
  BY DEF Removed
<1>4. ASSUME NEW x \in DOMAIN tree, Len(x) > 1, Front(x) = q PROVE FALSE
  <2>1. tree[q] = "directory"
    BY <1>1, <1>4 DEF TreeIn, WellFormed
  <2>2. ~Unlinkable(p)
    BY <1>2, <2>1 DEF Unlinkable, IsA
  <2>3. Names(q) = {}
    BY <2>2 DEF EmptyDirectory
  <2>4. x \in Paths
    BY <1>1, DomainPaths
  <2>5. x = Append(q, Last(x))
    BY <1>4, <2>4, FrontPath
  <2>6. Last(x) \in Names(q)
    BY <2>5 DEF Names
  <2> QED BY <2>3, <2>6
<1> HIDE DEF q
<1>5. Shrunk(tree, tree', q)
  BY <1>2, <1>3, <1>4 DEF Shrunk
<1> QED BY <1>5 DEF q

\* A prefix that exists goes on existing when what is removed is neither the
\* path nor where it leads, nor above either.
LEMMA PrefixSurvives ==
  ASSUME NEW t, NEW u, NEW q, TreeIn(t), Shrunk(t, u, q), NEW a \in Paths,
         ~Below(a, q), ~Below(Followed(t, a), q),
         NEW k \in 1 .. Len(a), Found(t, SubSeq(a, 1, k)) \in DOMAIN t
  PROVE  Found(u, SubSeq(a, 1, k)) \in DOMAIN u
<1> DEFINE s == SubSeq(a, 1, k)
<1>1. a \in Seq(Name) /\ Len(a) \in Nat \ {0}
  BY FrontPath DEF Paths
<1>2. k \in 0 .. Len(a)
  BY <1>1
<1>3. s \in Seq(Name) /\ Len(s) = k
  BY <1>1, <1>2, PrefixProperties
<1>4. \A i \in 1 .. k : i \in 0 .. k /\ i \in 0 .. Len(a) /\ i \in 1 .. Len(a)
  BY <1>1
<1>5. \A i \in 1 .. k : SubSeq(s, 1, i) = SubSeq(a, 1, i)
  BY <1>1, <1>2, <1>4, PrefixOfPrefix
<1>6. \A i \in 1 .. k : SubSeq(a, 1, i) # q
  BY <1>1, <1>4, BelowPrefix
<1>7. TreeIn(u) /\ \A p, kind : Is(u, p, kind) <=> p # q /\ Is(t, p, kind)
  BY ShrunkTree
<1>8. \A i \in 1 .. k : Link(t, s, i) <=> Link(t, a, i)
  BY <1>5 DEF Link
<1>9. \A i \in 1 .. k : Link(u, s, i) <=> Link(t, s, i)
  BY <1>5, <1>6, <1>7 DEF Link
<1>10. s # q
  <2>1. k \in 1 .. k
    BY <1>1
  <2> QED BY <1>6, <2>1
<1> HIDE DEF s
<1>11. \A i \in 1 .. Len(s) - 1 : i \in 1 .. k
  BY <1>3
<1>12. Found(u, s) = Found(t, s)
  BY <1>3, <1>7, <1>9, <1>11, SameLinks
<1>13. Found(t, s) # q
  <2>1. CASE \E i \in 1 .. Len(s) - 1 : Link(t, s, i)
    <3>1. PICK i \in 1 .. Len(s) - 1 : Link(t, s, i)
      BY <2>1
    <3>2. i \in 1 .. k /\ i \in 0 .. k /\ i \in 1 .. Len(a)
      BY <1>4, <1>11
    <3>3. Found(t, s) = Moved(s, i)
      BY <1>3, <3>1, FoundThrough
    <3>4. Followed(t, a) = Moved(a, i)
      BY <1>8, <3>1, <3>2, FollowedThrough
    <3>5. Below(Moved(a, i), Moved(s, i))
      BY <1>1, <1>2, <3>2, MovedPrefix DEF s
    <3> QED BY <3>3, <3>4, <3>5
  <2>2. CASE ~\E i \in 1 .. Len(s) - 1 : Link(t, s, i)
    BY <1>10, <2>2, FoundPlain
  <2> QED BY <2>1, <2>2
<1>14. Found(t, s) \in DOMAIN u
  BY <1>13 DEF Shrunk, s
<1> QED BY <1>12, <1>14 DEF s

-----------------------------------------------------------------------------
(* What a step does to the tree, as far as the calls of others notice it.   *)

\* No step makes a link or turns anything into something else.  Of what an
\* undisturbed removal was given nothing comes, and nothing goes but by that
\* removal; what an undisturbed creation is done with stays; and what goes lies where
\* some removal began.
TreeStep(x) ==
    /\ TreeIn(tree')
    /\ excused \subseteq excused'
    /\ \A p : Is(tree', p, "link") => Is(tree, p, "link")
    /\ \A p, kind : Is(tree, p, kind) /\ p \in DOMAIN tree' => Is(tree', p, kind)
    /\ \A r \in Remover \ excused' : \A p, kind :
            Below(p, At[r]) /\ Is(tree', p, kind) => Is(tree, p, kind)
    /\ \A r \in Remover \ (excused' \cup {x}) : \A p, kind :
            Below(p, At[r]) /\ Is(tree, p, kind) => Is(tree', p, kind)
    /\ \A c \in Creator \ excused' : \A k \in 1 .. level[c] :
            Found(tree, SubSeq(At[c], 1, k)) \in DOMAIN tree =>
                Found(tree', SubSeq(At[c], 1, k)) \in DOMAIN tree'
    /\ \A p \in DOMAIN tree \ DOMAIN tree' : \E s \in Remover : Settled(s) /\ Below(p, base[s])

LEMMA SameTree ==
  ASSUME TreeIn(tree), NEW x, tree' = tree, excused \subseteq excused'
  PROVE  TreeStep(x)
BY DEF TreeStep, Is

LEMMA PrefixOfAt ==
  ASSUME NEW c \in Task, NEW k \in 1 .. Len(At[c])
  PROVE  /\ SubSeq(At[c], 1, k) \in Paths /\ SubSeq(At[c], 1, k) \in Seq(Name)
         /\ Len(SubSeq(At[c], 1, k)) = k
<1>1. At[c] \in Seq(Name) /\ Len(At[c]) \in Nat
  BY PathTypes
<1>2. k \in 0 .. Len(At[c]) /\ k # 0
  BY <1>1
<1>3. SubSeq(At[c], 1, k) \in Seq(Name) /\ Len(SubSeq(At[c], 1, k)) = k
  BY <1>1, <1>2, PrefixProperties
<1> QED BY <1>2, <1>3, EmptySeq DEF Paths

\* A creation is done with prefixes of its path only.
LevelsIn == \A c \in Creator : level[c] \in Nat /\ level[c] <= Len(At[c])

LEMMA DoneLevels ==
  ASSUME LevelsIn, NEW c \in Creator
  PROVE  \A k \in 1 .. level[c] : k \in 1 .. Len(At[c]) /\ k \in 0 .. level[c]
<1>1. Len(At[c]) \in Nat
  BY PathTypes DEF Task
<1> QED BY <1>1 DEF LevelsIn

LEMMA DonePrefix ==
  ASSUME LevelsIn, NEW c \in Creator, NEW k \in 1 .. level[c]
  PROVE  Done(c) \in Paths /\ k \in 1 .. Len(Done(c)) /\ SubSeq(Done(c), 1, k) = SubSeq(At[c], 1, k)
<1>1. c \in Task /\ At[c] \in Seq(Name) /\ Len(At[c]) \in Nat
  BY PathTypes DEF Task
<1>2. level[c] \in 1 .. Len(At[c]) /\ level[c] \in 0 .. Len(At[c]) /\ k \in 0 .. level[c]
  BY <1>1 DEF LevelsIn
<1>3. Done(c) \in Paths /\ Len(Done(c)) = level[c]
  BY <1>1, <1>2, PrefixOfAt DEF Done
<1>4. SubSeq(Done(c), 1, k) = SubSeq(At[c], 1, k)
  BY <1>1, <1>2, PrefixOfPrefix DEF Done
<1> QED BY <1>3, <1>4

LEMMA GrownStep ==
  ASSUME TreeIn(tree), LevelsIn, NEW x, NEW p \in Paths, Grown(tree, tree', Resolve(p)),
         excused' = excused \cup InTheWay(p)
  PROVE  TreeStep(x)
<1> DEFINE q == Resolve(p)
<1>1. TreeIn(tree)
  OBVIOUS
<1>2. Grown(tree, tree', q)
  OBVIOUS
<1>3. \A r \in Remover \ excused' : ~Below(q, At[r])
  BY DEF InTheWay
<1> HIDE DEF q
<1>4. /\ TreeIn(tree')
      /\ \A y : Is(tree', y, "link") <=> Is(tree, y, "link")
      /\ \A y, kind : Is(tree, y, kind) => Is(tree', y, kind)
      /\ \A y, kind : y # q /\ Is(tree', y, kind) => Is(tree, y, kind)
  BY <1>1, <1>2, GrownTree
<1>5. \A c \in Creator : \A k \in 1 .. level[c] :
         Found(tree, SubSeq(At[c], 1, k)) \in DOMAIN tree =>
            Found(tree', SubSeq(At[c], 1, k)) \in DOMAIN tree'
  <2>1. \A c \in Creator : c \in Task /\ \A k \in 1 .. level[c] : k \in 1 .. Len(At[c])
    BY DoneLevels DEF Task
  <2> QED BY <1>1, <1>2, <2>1, PrefixOfAt, GrownLookup
<1>6. DOMAIN tree \ DOMAIN tree' = {}
  BY <1>2 DEF Grown
<1>7. \A r \in Remover \ excused' : \A y, kind :
        Below(y, At[r]) /\ Is(tree', y, kind) => Is(tree, y, kind)
  BY <1>3, <1>4
<1> QED BY <1>4, <1>5, <1>6, <1>7 DEF TreeStep

LEMMA ShrunkStep ==
  ASSUME TreeIn(tree), LevelsIn, NEW x, NEW p \in Paths, Shrunk(tree, tree', Resolve(p)),
         excused' = excused \cup (InTheWay(p) \ {x}) \cup Undermines(p),
         NEW s \in Remover, Settled(s), Below(Resolve(p), base[s])
  PROVE  TreeStep(x)
<1> DEFINE q == Resolve(p)
<1>1. TreeIn(tree)
  OBVIOUS
<1>2. Shrunk(tree, tree', q) /\ Below(q, base[s])
  OBVIOUS
<1>3. \A r \in Remover \ (excused' \cup {x}) : ~Below(q, At[r])
  BY DEF InTheWay
<1>4. \A c \in Creator \ excused' : ~Below(Done(c), q) /\ ~Below(Followed(tree, Done(c)), q)
  BY Lookup DEF Undermines
<1> HIDE DEF q
<1>5. /\ TreeIn(tree')
      /\ \A y, kind : Is(tree', y, kind) <=> y # q /\ Is(tree, y, kind)
  BY <1>1, <1>2, ShrunkTree
<1>6. ASSUME NEW c \in Creator \ excused', NEW k \in 1 .. level[c],
             Found(tree, SubSeq(At[c], 1, k)) \in DOMAIN tree
      PROVE  Found(tree', SubSeq(At[c], 1, k)) \in DOMAIN tree'
  <2>1. Done(c) \in Paths /\ k \in 1 .. Len(Done(c)) /\ SubSeq(Done(c), 1, k) = SubSeq(At[c], 1, k)
    BY DonePrefix
  <2> QED BY <1>1, <1>2, <1>4, <1>6, <2>1, PrefixSurvives
<1>7. DOMAIN tree \ DOMAIN tree' = {q}
  BY <1>2 DEF Shrunk
<1>8. \A r \in Remover \ (excused' \cup {x}) : \A y, kind :
        Below(y, At[r]) /\ Is(tree, y, kind) => Is(tree', y, kind)
  BY <1>3, <1>5
<1>9. excused \subseteq excused'
  OBVIOUS
<1>10. \A y, kind : Is(tree, y, kind) /\ y \in DOMAIN tree' => Is(tree', y, kind)
  BY <1>2, <1>5 DEF Shrunk
<1> QED BY <1>2, <1>5, <1>6, <1>7, <1>8, <1>9, <1>10 DEF TreeStep

-----------------------------------------------------------------------------
(* Where things are removed. *)

LEMMA LocalFacts ==
  ASSUME LocalTypes, NEW r \in Remover
  PROVE  /\ r \in Task
         /\ target[r] \in Paths /\ target[r] \in Seq(Name)
         /\ base[r] \in Paths /\ base[r] \in Seq(Name)
         /\ stack[r] \in Seq(Dir) /\ Len(stack[r]) \in Nat
         /\ stack[r] = <<>> <=> Len(stack[r]) = 0
         /\ \A i \in 1 .. Len(stack[r]) :
                /\ stack[r][i] \in Dir
                /\ stack[r][i].path \in Paths /\ stack[r][i].path \in Seq(Name)
         /\ stack[r] # <<>> => Len(stack[r]) \in 1 .. Len(stack[r])
<1>1. r \in Task /\ target[r] \in Paths /\ base[r] \in Path /\ stack[r] \in Seq(Dir)
  BY DEF LocalTypes, Task
<1>2. base[r] \in Paths
  BY <1>1, PathTypes
<1>3. Len(stack[r]) \in Nat /\ (stack[r] = <<>> <=> Len(stack[r]) = 0)
  BY <1>1, EmptySeq, LenProperties
<1>4. \A i \in 1 .. Len(stack[r]) : stack[r][i] \in Dir
  BY <1>1, ElementOfSeq
<1>5. \A d \in Dir : d.path \in Paths /\ d.path \in Seq(Name)
  BY DEF Dir, Paths
<1> QED BY <1>1, <1>2, <1>3, <1>4, <1>5 DEF Paths

\* What a removal removes lies where some removal began.
LEMMA RemovalPlace ==
  ASSUME IInv, NEW r \in Remover, Going(r),
         \/ stage[r] = "unlink"
         \/ stage[r] = "rmdir" /\ EmptyDirectory(target[r])
  PROVE  \E s \in Remover : Settled(s) /\ Below(Resolve(target[r]), base[s])
<1> DEFINE a == At[r]
           p == target[r]
           n == Len(a)
<1>1. a \in Paths /\ a \in Seq(Name) /\ n \in Nat \ {0}
  BY PathTypes DEF Task
<1>2. TreeIn(tree) /\ LocalTypes /\ Stacked(r) /\ Straight(r) /\ Began(r)
  BY DEF IInv, Removing, Based
<1>3. p \in Paths /\ p \in Seq(Name) /\ Len(p) \in Nat \ {0}
  BY <1>2, LocalFacts, FrontPath
<1>4. Below(p, a)
  BY <1>2 DEF Stacked
<1>5. n <= Len(p) /\ SubSeq(p, 1, n) = a
  BY <1>1, <1>3, <1>4, BelowIs
<1>6. outcome[r] = "none"
  BY DEF Going
<1>7. /\ \A k \in n + 1 .. Len(p) - 1 : ~Link(tree, p, k)
      /\ \A k \in 1 .. n : Link(tree, a, k) => k <= Len(p) - 1
  <2>1. CASE stage[r] = "unlink"
    <3> DEFINE L == Len(stack[r])
               d == stack[r][L]
    <3>1. stack[r] # <<>> /\ Front(p) = d.path
      BY <1>2, <1>6, <2>1 DEF Stacked, Last
    <3>2. L \in 1 .. L
      BY <1>2, <3>1, LocalFacts
    <3>3. d.path \in Seq(Name)
      BY <1>2, <3>2, LocalFacts
    <3>4. Below(d.path, a) /\ NoLink(tree, d.path, r)
      BY <1>2, <3>2 DEF Stacked, Straight
    <3> HIDE DEF d, L
    <3>5. Len(d.path) = Len(p) - 1
      BY <1>3, <3>1, FrontPath
    <3>6. n <= Len(d.path)
      BY <1>1, <3>3, <3>4, BelowIs
    <3>7. ASSUME NEW k \in n + 1 .. Len(p) - 1 PROVE ~Link(tree, p, k)
      <4>1. k \in 0 .. Len(p) - 1 /\ k \in Len(At[r]) + 1 .. Len(d.path)
        BY <1>1, <1>3, <3>5
      <4>2. SubSeq(d.path, 1, k) = SubSeq(p, 1, k)
        BY <1>3, <3>1, <4>1, FrontPath
      <4>3. ~Link(tree, d.path, k)
        BY <3>4, <4>1 DEF NoLink
      <4> QED BY <4>2, <4>3 DEF Link
    <3> QED BY <1>1, <1>3, <3>5, <3>6, <3>7
  <2>2. CASE stage[r] = "rmdir" /\ EmptyDirectory(p)
    <3>1. NoLink(tree, p, r)
      BY <1>2, <1>6, <2>2 DEF Straight
    <3>2. \A k \in n + 1 .. Len(p) - 1 : ~Link(tree, p, k)
      BY <1>1, <1>3, <3>1 DEF NoLink
    <3>3. Is(tree, Found(tree, p), "directory")
      BY <2>2, Lookup DEF EmptyDirectory
    <3>4. ~Is(tree, p, "link")
      <4> SUFFICES ASSUME Is(tree, p, "link") PROVE FALSE
        OBVIOUS
      <4>1. Found(tree, p) = p
        BY <1>2, FoundExisting DEF Is
      <4> QED BY <3>3, <4>1 DEF Is
    <3>5. ASSUME NEW k \in 1 .. n, Link(tree, a, k) PROVE k <= Len(p) - 1
      <4> SUFFICES ASSUME k > Len(p) - 1 PROVE FALSE
        BY <1>1, <1>3
      <4>1. k = n /\ n = Len(p)
        BY <1>1, <1>3, <1>5
      <4>2. p = a
        BY <1>3, <1>5, <4>1, PrefixFull
      <4>3. SubSeq(a, 1, n) = p
        BY <1>5, <4>1, <4>2
      <4> QED BY <3>4, <3>5, <4>1, <4>3 DEF Link
    <3> QED BY <3>2, <3>5
  <2> QED BY <2>1, <2>2
<1>8. \A k \in 1 .. n : SubSeq(p, 1, k) = SubSeq(a, 1, k)
  <2>1. \A k \in 1 .. n : k \in 0 .. n /\ n \in 0 .. Len(p)
    BY <1>1, <1>3, <1>5
  <2> QED BY <1>3, <1>5, <2>1, PrefixOfPrefix
<1>9. Settled(r) /\ Resolve(p) = Found(tree, p)
  BY Lookup DEF Going
<1> HIDE DEF a, p, n
<1>10. CASE \E k \in 1 .. n : Link(tree, a, k)
  <2>1. PICK k \in 1 .. n : Link(tree, a, k)
    BY <1>10
  <2>2. Link(tree, p, k) /\ k \in 1 .. Len(p) - 1
    <3>1. SubSeq(p, 1, k) = SubSeq(a, 1, k) /\ k <= Len(p) - 1
      BY <1>7, <1>8, <2>1
    <3>2. k \in 1 .. Len(p) - 1
      BY <1>1, <1>3, <3>1
    <3> QED BY <2>1, <3>1, <3>2 DEF Link
  <2>3. Found(tree, p) = Moved(p, k)
    BY <1>2, <1>3, <2>2, FoundThrough
  <2>4. base[r] = Moved(a, k)
    BY <1>2, <2>1 DEF Began, a, n
  <2>5. n \in 0 .. Len(p) /\ k \in 0 .. n
    BY <1>1, <1>3, <1>5
  <2>6. Below(Moved(p, k), Moved(a, k))
    BY <1>3, <1>5, <2>5, MovedPrefix
  <2> QED BY <1>9, <2>3, <2>4, <2>6 DEF p
<1>11. CASE ~\E k \in 1 .. n : Link(tree, a, k)
  <2>1. \A k \in 1 .. Len(p) - 1 : ~Link(tree, p, k)
    <3>1. \A k \in 1 .. Len(p) - 1 : k \in 1 .. n \/ k \in n + 1 .. Len(p) - 1
      BY <1>1, <1>3
    <3>2. \A k \in 1 .. n : Link(tree, p, k) <=> Link(tree, a, k)
      BY <1>8 DEF Link
    <3> QED BY <1>7, <1>11, <3>1, <3>2
  <2>2. Found(tree, p) = p
    BY <2>1, FoundPlain
  <2>3. base[r] = a \/ \E s \in Remover : Settled(s) /\ Below(a, base[s])
    BY <1>2, <1>11 DEF Began, a, n
  <2>4. CASE base[r] = a
    BY <1>4, <1>9, <2>2, <2>4 DEF p
  <2>5. CASE \E s \in Remover : Settled(s) /\ Below(a, base[s])
    <3>1. PICK s \in Remover : Settled(s) /\ Below(a, base[s])
      BY <2>5
    <3>2. base[s] \in Seq(Name)
      BY <1>2, LocalFacts
    <3>3. Below(p, base[s])
      BY <1>1, <1>3, <1>4, <3>1, <3>2, BelowTransitive
    <3> QED BY <1>9, <2>2, <3>1, <3>3 DEF p
  <2> QED BY <2>3, <2>4, <2>5
<1> QED BY <1>10, <1>11

-----------------------------------------------------------------------------
(* What a step leaves of the invariant to the calls of others.              *)

\* e is d, but for names that are no longer due since they are gone.
SameDir(u, d, e) ==
    /\ e.path = d.path /\ e.real = d.real
    /\ e.listed = d.listed /\ e.entries = d.entries
    /\ e.due \subseteq d.due
    /\ \A n \in d.due : Append(d.real, n) \in DOMAIN u => n \in e.due

SameStack(u, s, s2) ==
    Len(s2) = Len(s) /\ \A i \in 1 .. Len(s) : SameDir(u, s[i], s2[i])

Kept(r) ==
    /\ outcome'[r] = outcome[r] /\ stage'[r] = stage[r]
    /\ target'[r] = target[r] /\ base'[r] = base[r]
    /\ SameStack(tree', stack[r], stack'[r])

\* Removals stay begun, and where they began.
Steady == \A s \in Remover : Settled(s) => Settled(s)' /\ base'[s] = base[s]

LEMMA NoLinkKept ==
  ASSUME NEW x, TreeStep(x), NEW p, NEW r, NoLink(tree, p, r)
  PROVE  NoLink(tree', p, r)
BY DEF TreeStep, NoLink, Link

LEMMA RealKept ==
  ASSUME NEW x, TreeStep(x), NEW d, NEW e, Real(tree, d),
         e.path = d.path, e.real = d.real, e.entries = d.entries
  PROVE  Real(tree', e)
BY DEF TreeStep, Real

LEMMA FaithfulKept ==
  ASSUME NEW t, NEW u, NEW d, NEW e, NEW old, NEW new, Faithful(t, d, old), SameDir(u, d, e),
         Is(u, d.path, "directory"),
         \A n \in Name : Append(d.path, n) \in DOMAIN u => Append(d.path, n) \in DOMAIN t,
         \A f \in d.entries : Is(t, Append(d.path, f.name), f.kind)
                                => Is(u, Append(d.path, f.name), f.kind),
         new \subseteq old, \A n \in old \ new : Append(d.path, n) \notin DOMAIN u
  PROVE  Faithful(u, e, new)
<1>1. e.path = d.path /\ e.real = d.path /\ e.entries = d.entries
  BY DEF Faithful, SameDir
<1>2. ASSUME NEW n \in NamesIn(u, d.path)
      PROVE  n \in e.due \cup {f.name : f \in e.entries} \cup new
  <2>1. n \in Name /\ Append(d.path, n) \in DOMAIN u
    BY DEF NamesIn
  <2>2. n \in NamesIn(t, d.path)
    BY <2>1 DEF NamesIn
  <2>3. n \in d.due \cup {f.name : f \in d.entries} \cup old
    BY <2>2 DEF Faithful
  <2>4. n \in d.due => n \in e.due
    BY <2>1 DEF SameDir, Faithful
  <2> QED BY <1>1, <2>1, <2>3, <2>4
<1>3. \A f \in e.entries : Is(u, Append(d.path, f.name), f.kind) /\ f.name \notin new
  BY <1>1 DEF Faithful
<1> QED BY <1>1, <1>2, <1>3 DEF Faithful

LEMMA BeganKept ==
  ASSUME IInv, NEW x, TreeStep(x), Steady, NEW r \in Remover, Settled(r), Began(r)
  PROVE  Began(r)'
<1> DEFINE a == At[r]
<1>1. a \in Seq(Name) /\ Len(a) \in Nat
  BY PathTypes DEF Task
<1>2. base'[r] = base[r]
  BY DEF Steady
<1>3. \A k \in 1 .. Len(a) : Link(tree', a, k) => Link(tree, a, k)
  BY DEF TreeStep, Link
<1>4. \A k \in 1 .. Len(a) : Link(tree', a, k) => base'[r] = Moved(a, k)
  BY <1>2, <1>3 DEF Began
<1>5. CASE \E k \in 1 .. Len(a) : Link(tree, a, k)
  <2>1. PICK k \in 1 .. Len(a) : Link(tree, a, k)
    BY <1>5
  <2>2. CASE Link(tree', a, k)
    BY <1>4, <2>2 DEF Began
  <2>3. CASE ~Link(tree', a, k)
    <3> DEFINE l == SubSeq(a, 1, k)
    <3>1. l \in DOMAIN tree \ DOMAIN tree'
      BY <2>1, <2>3 DEF Link, Is, TreeStep
    <3>2. PICK s \in Remover : Settled(s) /\ Below(l, base[s])
      BY <3>1 DEF TreeStep
    <3>3. base[s] \in Seq(Name)
      BY LocalFacts DEF IInv
    <3>4. k \in 0 .. Len(a)
      BY <1>1
    <3>5. l \in Seq(Name) /\ Below(a, l)
      BY <1>1, <3>4, PrefixProperties, BelowPrefix
    <3> HIDE DEF l
    <3>6. Below(a, base[s])
      BY <1>1, <3>2, <3>3, <3>5, BelowTransitive
    <3>7. Settled(s)' /\ base'[s] = base[s]
      BY <3>2 DEF Steady
    <3> QED BY <1>4, <3>6, <3>7 DEF Began
  <2> QED BY <2>2, <2>3
<1>6. CASE base[r] = a
  BY <1>2, <1>4, <1>6 DEF Began
<1>7. CASE \E s \in Remover : Settled(s) /\ Below(a, base[s])
  <2>1. PICK s \in Remover : Settled(s) /\ Below(a, base[s])
    BY <1>7
  <2>2. Settled(s)' /\ base'[s] = base[s]
    BY <2>1 DEF Steady
  <2> QED BY <1>4, <2>1, <2>2 DEF Began
<1> QED BY <1>5, <1>6, <1>7 DEF Began

\* What an undisturbed removal has said stays true, and so does that it was
\* given no directory.
LEMMA AstrayKept ==
  ASSUME NEW x, TreeStep(x), NEW r \in Remover, r \notin excused', Astray(r)
  PROVE  Astray(r)'
<1>1. Below(At[r], At[r])
  BY PathTypes, BelowReflexive DEF Task
<1> QED BY <1>1 DEF TreeStep, Astray

LEMMA EndKept ==
  ASSUME IInv, NEW x, TreeStep(x), NEW r \in Remover, r \notin excused'
  PROVE  /\ outcome[r] = "ok" => \A p \in DOMAIN tree' : ~Below(p, At[r])
         /\ outcome[r] = "failed" => ~Is(tree', At[r], "directory")
<1>1. Whole(r) /\ r \notin excused
  BY DEF IInv, Removing, TreeStep
<1>2. \A p \in DOMAIN tree' : Below(p, At[r]) => p \in DOMAIN tree
  <2>1. \A p \in DOMAIN tree' : Is(tree', p, tree'[p])
    BY DEF Is
  <2>2. \A p \in DOMAIN tree' : Below(p, At[r]) => Is(tree, p, tree'[p])
    BY <2>1 DEF TreeStep
  <2> QED BY <2>2 DEF Is
<1>3. Below(At[r], At[r])
  BY PathTypes, BelowReflexive DEF Task
<1> QED BY <1>1, <1>2, <1>3 DEF Whole, TreeStep

LEMMA KeptRemoving ==
  ASSUME IInv, NEW x, TreeStep(x), Steady, NEW r \in Remover, r # x, Kept(r), LocalTypes'
  PROVE  Removing(r)'
<1>1. TreeIn(tree) /\ LocalTypes /\ Due(r) /\ Stacked(r) /\ Straight(r) /\ Based(r) /\ Whole(r)
  BY DEF IInv, Removing
<1> DEFINE L == Len(stack[r])
<1>2. /\ L \in Nat /\ Len(stack'[r]) = L /\ (stack[r] = <<>> <=> L = 0)
      /\ (stack'[r] = <<>> <=> L = 0)
  <2>1. Len(stack'[r]) = L
    BY DEF Kept, SameStack
  <2>2. stack'[r] \in Seq(Dir)
    BY DEF LocalTypes
  <2>3. stack'[r] = <<>> <=> Len(stack'[r]) = 0
    BY <2>2, EmptySeq
  <2> QED BY <1>1, <2>1, <2>3, LocalFacts
<1>3. \A i \in 1 .. L : SameDir(tree', stack[r][i], stack'[r][i])
  BY DEF Kept, SameStack
<1>4. \A i \in 1 .. L : stack'[r][i].path = stack[r][i].path
  BY <1>3 DEF SameDir
<1>5. outcome'[r] = outcome[r] /\ stage'[r] = stage[r] /\ target'[r] = target[r]
  BY DEF Kept
<1>6. \A i \in 1 .. L : stack[r][i].path \in Seq(Name)
  BY <1>1, LocalFacts
<1>7. (Settled(r)' <=> Settled(r)) /\ (Going(r)' <=> Going(r))
  BY <1>2, <1>5 DEF Settled, Going
<1>8. Due(r)'
  <2>1. \A i \in 1 .. L : stack'[r][i].due \cap stack'[r][i].listed = {}
    BY <1>1, <1>3 DEF Due, SameDir
  <2> QED BY <1>2, <2>1 DEF Due
<1>9. Stacked(r)'
  <2>1. Below(target'[r], At[r])
    BY <1>1, <1>5 DEF Stacked
  <2>2. \A i \in 1 .. L : Below(stack'[r][i].path, At[r])
                          /\ Len(stack'[r][i].path) = Len(At[r]) + (i - 1)
    BY <1>1, <1>4 DEF Stacked
  <2>3. \A i \in 1 .. L - 1 : stack'[r][i].path = Front(stack'[r][i + 1].path)
    <3>1. \A i \in 1 .. L - 1 : i \in 1 .. L /\ i + 1 \in 1 .. L
      BY <1>2
    <3>2. \A i \in 1 .. L - 1 : stack[r][i].path = Front(stack[r][i + 1].path)
      BY <1>1 DEF Stacked
    <3> QED BY <1>4, <3>1, <3>2
  <2>4. ASSUME outcome'[r] = "none"
        PROVE  /\ stack'[r] = <<>> => target'[r] = At[r] /\ stage'[r] \in {"open", "rmdir"}
               /\ stack'[r] # <<>> => stack'[r][1].path = At[r]
               /\ stack'[r] # <<>> /\ stage'[r] # "read" =>
                    Front(target'[r]) = Last(stack'[r]).path
    <3>1. stack'[r] = <<>> => target'[r] = At[r] /\ stage'[r] \in {"open", "rmdir"}
      BY <1>1, <1>2, <1>5, <2>4 DEF Stacked
    <3>2. ASSUME stack'[r] # <<>>
          PROVE  /\ stack'[r][1].path = At[r]
                 /\ stage'[r] # "read" => Front(target'[r]) = Last(stack'[r]).path
      <4>1. 1 \in 1 .. L /\ L \in 1 .. L /\ stack[r] # <<>>
        BY <1>2, <3>2
      <4>2. Last(stack'[r]).path = Last(stack[r]).path
        BY <1>2, <1>4, <4>1 DEF Last
      <4> QED BY <1>1, <1>4, <1>5, <2>4, <4>1, <4>2 DEF Stacked
    <3> QED BY <3>1, <3>2
  <2> QED BY <1>2, <2>1, <2>2, <2>3, <2>4 DEF Stacked
<1>10. Straight(r)'
  <2>1. ASSUME NEW i \in 1 .. L
        PROVE  NoLink(tree', stack'[r][i].path, r) /\ Real(tree', stack'[r][i])
    <3>1. NoLink(tree, stack[r][i].path, r) /\ Real(tree, stack[r][i])
      BY <1>1 DEF Straight
    <3>2. NoLink(tree', stack'[r][i].path, r)
      BY <1>4, <3>1, NoLinkKept
    <3>3. Real(tree', stack'[r][i])
      BY <1>3, <3>1, RealKept DEF SameDir
    <3> QED BY <3>2, <3>3
  <2>2. outcome'[r] = "none" /\ stage'[r] \in {"open", "rmdir"} => NoLink(tree', target'[r], r)
    BY <1>1, <1>5, NoLinkKept DEF Straight
  <2> QED BY <1>2, <2>1, <2>2 DEF Straight
<1>11. Based(r)'
  <2>1. SUFFICES ASSUME Going(r) PROVE Began(r)'
    BY <1>7 DEF Based
  <2>2. Settled(r) /\ Began(r)
    BY <1>1, <2>1 DEF Based, Going
  <2> QED BY <2>2, BeganKept
<1>12. Whole(r)'
  <2>1. SUFFICES ASSUME r \notin excused'
                 PROVE  /\ Going(r) => Astray(r)' \/ Regular(r)'
                        /\ outcome[r] = "ok" => \A p \in DOMAIN tree' : ~Below(p, At[r])
                        /\ outcome[r] = "failed" => ~Is(tree', At[r], "directory")
    BY <1>5, <1>7 DEF Whole
  <2>2. r \notin excused
    BY <2>1 DEF TreeStep
  <2>3. ASSUME Going(r), Regular(r) PROVE Regular(r)'
    <3>1. \A p, kind : Below(p, At[r]) => (Is(tree', p, kind) <=> Is(tree, p, kind))
      BY <2>1 DEF TreeStep
    <3>2. \A p : Below(p, At[r]) => (p \in DOMAIN tree' <=> p \in DOMAIN tree)
      BY <3>1 DEF Is
    <3>3. ASSUME NEW p \in Seq(Name), Below(p, At[r])
          PROVE  \A n \in Name : Below(Append(p, n), At[r])
      BY <3>3, PathTypes, AppendPath, BelowTransitive DEF Task, Paths
    <3>4. ASSUME NEW i \in 1 .. L PROVE Faithful(tree', stack'[r][i], Current(r, i)')
      <4> DEFINE d == stack[r][i]
                 e == stack'[r][i]
                 now == Current(r, i)
                 next == Current(r, i)'
      <4>1. Current(r, i)' = Current(r, i)
        <5>1. i < L => i + 1 \in 1 .. L
          BY <1>2
        <5> QED BY <1>2, <1>4, <1>5, <5>1 DEF Current
      <4>2. Faithful(tree, d, now)
        BY <2>3 DEF Regular
      <4>3. SameDir(tree', d, e)
        BY <1>3
      <4>4. Below(d.path, At[r]) /\ d.path \in Seq(Name)
        BY <1>1, <1>6 DEF Stacked
      <4>5. d.entries \subseteq EntryType
        BY <1>1, LocalFacts DEF Dir
      <4> HIDE DEF d, e, now, next
      <4>6. \A n \in Name : Below(Append(d.path, n), At[r])
        BY <3>3, <4>4
      <4>7. \A f \in d.entries : f.name \in Name
        BY <4>5 DEF EntryType
      <4>8. Is(tree', d.path, "directory")
        BY <3>1, <4>2, <4>4 DEF Faithful
      <4>9. /\ \A n \in Name :
                 Append(d.path, n) \in DOMAIN tree' => Append(d.path, n) \in DOMAIN tree
            /\ \A f \in d.entries : Is(tree, Append(d.path, f.name), f.kind)
                                    => Is(tree', Append(d.path, f.name), f.kind)
        BY <3>1, <3>2, <4>6, <4>7
      <4>10. now \subseteq now /\ \A n \in now \ now : Append(d.path, n) \notin DOMAIN tree'
        OBVIOUS
      <4>11. Faithful(tree', e, now)
        BY <4>2, <4>3, <4>8, <4>9, <4>10, FaithfulKept
      <4> QED BY <4>1, <4>11 DEF e, now, next
    <3>5. Below(target[r], At[r]) /\ target[r] \in Seq(Name)
      BY <1>1, LocalFacts DEF Stacked
    <3>6. NamesIn(tree', target[r]) = NamesIn(tree, target[r])
      BY <3>2, <3>3, <3>5 DEF NamesIn
    <3> QED BY <1>2, <1>5, <2>3, <3>1, <3>2, <3>4, <3>5, <3>6 DEF Regular
  <2>4. Going(r) => Astray(r)' \/ Regular(r)'
    BY <1>1, <2>1, <2>2, <2>3, AstrayKept DEF Whole
  <2> QED BY <2>1, <2>4, EndKept
<1> QED BY <1>8, <1>9, <1>10, <1>11, <1>12 DEF Removing

-----------------------------------------------------------------------------
(* The steps of others and of creations.                                    *)

LEMMA KeptCreating ==
  ASSUME IInv, NEW x, TreeStep(x), NEW c \in Creator,
         outcome'[c] = outcome[c], level'[c] = level[c]
  PROVE  Creating(c)'
<1>1. Creating(c)
  BY DEF IInv
<1>2. c \notin excused' =>
        \A k \in 1 .. level[c] : Found(tree', SubSeq(At[c], 1, k)) \in DOMAIN tree'
  BY <1>1 DEF Creating, TreeStep
<1> QED BY <1>1, <1>2 DEF Creating

LEMMA Idle ==
  ASSUME NEW r, outcome'[r] = outcome[r], stage'[r] = stage[r], target'[r] = target[r],
         base'[r] = base[r], stack'[r] = stack[r]
  PROVE  Kept(r)
BY DEF Kept, SameStack, SameDir

LEMMA Another ==
  ASSUME NEW r
  PROVE  \E x : x # r
<1>1. r # 1 \/ r # 2
  OBVIOUS
<1> QED BY <1>1

\* A step that leaves the progress of removals alone.
LEMMA RemoversIdle ==
  ASSUME IInv, \A x : TreeStep(x), LocalTypes', UNCHANGED <<stage, target, stack, base>>,
         \A r \in Remover : outcome'[r] = outcome[r]
  PROVE  \A r \in Remover : Removing(r)'
<1>1. Steady
  BY DEF Steady, Settled
<1> TAKE r \in Remover
<1>2. PICK x : x # r
  BY Another
<1>3. Kept(r)
  BY Idle
<1> QED BY <1>1, <1>2, <1>3, KeptRemoving

LEMMA UploadStep ==
  ASSUME IInv, NEW p \in Path, Upload(p)
  PROVE  IInv' /\ TreeStep(p)
<1>1. TreeIn(tree) /\ LocalTypes /\ LevelsIn /\ p \in Paths
  BY PathTypes DEF IInv, LocalTypes, Creating, LevelsIn
<1>2. Grown(tree, tree', Resolve(p))
  BY <1>1, MadeGrows DEF Upload
<1>3. ASSUME NEW x PROVE TreeStep(x)
  BY <1>1, <1>2, GrownStep DEF Upload
<1>4. LocalTypes'
  BY <1>1 DEF LocalTypes, Upload, progress, InTheWay, Task
<1>5. \A r \in Remover : Removing(r)'
  BY <1>3, <1>4, RemoversIdle DEF Upload, progress
<1>6. \A c \in Creator : Creating(c)'
  BY <1>3, KeptCreating DEF Upload, progress
<1>7. TreeIn(tree')
  BY <1>3 DEF TreeStep
<1> QED BY <1>3, <1>4, <1>5, <1>6, <1>7 DEF IInv

LEMMA CreateStep ==
  ASSUME IInv, NEW c \in Creator, createDirectory(c)
  PROVE  IInv' /\ TreeStep(c)
<1> DEFINE p == SubSeq(At[c], 1, level[c] + 1)
<1>1. /\ TreeIn(tree) /\ LocalTypes /\ Creating(c) /\ outcome[c] = "none"
      /\ level[c] \in Nat /\ Len(At[c]) \in Nat /\ c \in Task /\ c \notin Remover /\ LevelsIn
  BY PathTypes, TreeAssumption DEF IInv, createDirectory, LocalTypes, Task, Creating, LevelsIn
<1>2. level[c] + 1 \in 1 .. Len(At[c])
  BY <1>1 DEF Creating
<1>3. p \in Paths /\ p \in Seq(Name)
  BY <1>1, <1>2, PrefixOfAt
<1>4. UNCHANGED <<stage, target, stack, base>>
  BY DEF createDirectory
<1>5. ASSUME \A x : TreeStep(x), excused' \subseteq Task,
             outcome' \in [Task -> {"none", "ok", "failed"}], level' \in [Creator -> Nat],
             \A x \in Task \ {c} : outcome'[x] = outcome[x],
             \A d \in Creator \ {c} : level'[d] = level[d],
             Creating(c)'
      PROVE  IInv' /\ TreeStep(c)
  <2>1. LocalTypes'
    BY <1>1, <1>4, <1>5 DEF LocalTypes
  <2>2. \A r \in Remover : outcome'[r] = outcome[r]
    BY <1>1, <1>5 DEF Task
  <2>3. \A r \in Remover : Removing(r)'
    BY <1>4, <1>5, <2>1, <2>2, RemoversIdle
  <2>4. ASSUME NEW d \in Creator, d # c PROVE Creating(d)'
    <3>1. d \in Task
      BY DEF Task
    <3> QED BY <1>5, <2>4, <3>1, KeptCreating
  <2>5. TreeIn(tree')
    BY <1>5 DEF TreeStep
  <2> QED BY <1>5, <2>1, <2>3, <2>4, <2>5 DEF IInv
<1>6. ASSUME Advance(c), \A x : TreeStep(x), excused' \subseteq Task,
             Found(tree', p) \in DOMAIN tree'
      PROVE  IInv' /\ TreeStep(c)
  <2>1. /\ level' = [level EXCEPT ![c] = @ + 1]
        /\ outcome' = [outcome EXCEPT ![c] = IF level'[c] = Len(At[c]) THEN "ok" ELSE @]
    BY <1>6 DEF Advance
  <2>2. level'[c] = level[c] + 1 /\ level' \in [Creator -> Nat]
        /\ \A d \in Creator \ {c} : level'[d] = level[d]
    BY <1>1, <2>1 DEF LocalTypes
  <2>3. /\ outcome' \in [Task -> {"none", "ok", "failed"}]
        /\ outcome'[c] = IF level'[c] = Len(At[c]) THEN "ok" ELSE "none"
        /\ \A x \in Task \ {c} : outcome'[x] = outcome[x]
    BY <1>1, <2>1 DEF LocalTypes
  <2>4. ASSUME c \notin excused', NEW k \in 1 .. level[c] + 1
        PROVE  Found(tree', SubSeq(At[c], 1, k)) \in DOMAIN tree'
    <3>1. CASE k = level[c] + 1
      BY <1>6, <3>1
    <3>2. CASE k # level[c] + 1
      <4>1. k \in 1 .. level[c] /\ k \in 1 .. Len(At[c])
        BY <1>1, <1>2, <3>2
      <4>2. c \notin excused
        BY <1>6, <2>4 DEF TreeStep
      <4>3. Found(tree, SubSeq(At[c], 1, k)) \in DOMAIN tree
        BY <1>1, <4>1, <4>2 DEF Creating
      <4> QED BY <1>6, <2>4, <4>1, <4>3 DEF TreeStep
    <3> QED BY <3>1, <3>2
  <2>5. Creating(c)'
    <3>1. level'[c] <= Len(At[c])
      BY <1>1, <1>2, <2>2
    <3>2. /\ outcome'[c] = "none" => level'[c] < Len(At[c])
          /\ outcome'[c] = "ok" => level'[c] = Len(At[c])
      BY <1>1, <1>2, <2>2, <2>3
    <3>3. c \notin excused' =>
            \A k \in 1 .. level'[c] : Found(tree', SubSeq(At[c], 1, k)) \in DOMAIN tree'
      BY <2>2, <2>4
    <3> QED BY <3>1, <3>2, <3>3 DEF Creating
  <2> QED BY <1>5, <1>6, <2>2, <2>3, <2>5
<1>7. ASSUME Throws(c), UNCHANGED <<tree, level>>,
             excused \subseteq excused', excused' \subseteq Task
      PROVE  IInv' /\ TreeStep(c)
  <2>1. \A x : TreeStep(x)
    BY <1>1, <1>7, SameTree
  <2>2. /\ outcome' \in [Task -> {"none", "ok", "failed"}] /\ outcome'[c] = "failed"
        /\ \A x \in Task \ {c} : outcome'[x] = outcome[x]
    BY <1>1, <1>7 DEF LocalTypes, Throws
  <2>3. Creating(c)'
    <3>1. level'[c] = level[c] /\ tree' = tree
      BY <1>7
    <3>2. c \notin excused' => c \notin excused
      BY <1>7
    <3> QED BY <1>1, <2>2, <3>1, <3>2 DEF Creating
  <2>4. level' \in [Creator -> Nat] /\ \A d \in Creator \ {c} : level'[d] = level[d]
    BY <1>1, <1>7 DEF LocalTypes
  <2> QED BY <1>5, <1>7, <2>1, <2>2, <2>3, <2>4
<1>8. excused \subseteq Task
  BY <1>1 DEF LocalTypes
<1>9. CASE sftp_mkdir(p) /\ excused' = excused \cup InTheWay(p) /\ Advance(c)
  <2>1. Grown(tree, tree', Resolve(p))
    BY <1>1, <1>3, <1>9, MadeGrows DEF sftp_mkdir
  <2>2. ASSUME NEW x PROVE TreeStep(x)
    BY <1>1, <1>3, <1>9, <2>1, GrownStep
  <2>3. Resolve(p) = Found(tree, p)
    BY Lookup
  <2>4. Found(tree', p) \in DOMAIN tree'
    <3>1. Found(tree', p) = Found(tree, p)
      BY <1>1, <1>3, <2>1, GrownLookup
    <3> QED BY <2>1, <2>3, <3>1 DEF Grown
  <2>5. excused' \subseteq Task
    BY <1>8, <1>9 DEF InTheWay, Task
  <2> QED BY <1>6, <1>9, <2>2, <2>4, <2>5
<1>10. CASE fileAlreadyExists(p) /\ Advance(c) /\ UNCHANGED <<tree, excused>>
  <2>1. \A x : TreeStep(x)
    BY <1>1, <1>10, SameTree
  <2>2. Found(tree, p) \in DOMAIN tree
    BY <1>10, Lookup DEF fileAlreadyExists
  <2>3. tree' = tree /\ excused' = excused
    BY <1>10
  <2> QED BY <1>6, <1>8, <1>10, <2>1, <2>2, <2>3
<1>11. CASE Throws(c) /\ UNCHANGED <<tree, level, excused>>
  BY <1>7, <1>8, <1>11
<1>12. CASE Refused(c) /\ Throws(c) /\ UNCHANGED level
  BY <1>1, <1>7, <1>8, <1>12 DEF Refused
<1>13. \/ sftp_mkdir(p) /\ excused' = excused \cup InTheWay(p) /\ Advance(c)
       \/ fileAlreadyExists(p) /\ Advance(c) /\ UNCHANGED <<tree, excused>>
       \/ Throws(c) /\ UNCHANGED <<tree, level, excused>>
       \/ Refused(c) /\ Throws(c) /\ UNCHANGED level
  BY Zenon DEF createDirectory
<1> QED BY <1>9, <1>10, <1>11, <1>12, <1>13

-----------------------------------------------------------------------------
(* The steps of removals: failing, and opening a directory.                 *)

LEMMA RemoverStep ==
  ASSUME IInv, NEW r \in Remover, TreeStep(r), LocalTypes', Steady,
         \A s \in Remover \ {r} : Kept(s), \A c \in Creator : outcome'[c] = outcome[c],
         UNCHANGED level, Removing(r)'
  PROVE  IInv' /\ TreeStep(r)
<1>1. ASSUME NEW s \in Remover PROVE Removing(s)'
  <2>1. CASE s = r
    BY <2>1
  <2>2. CASE s # r
    BY <2>2, KeptRemoving
  <2> QED BY <2>1, <2>2
<1>2. \A c \in Creator : Creating(c)'
  BY KeptCreating
<1> QED BY <1>1, <1>2 DEF IInv, TreeStep

\* What a removal changes of the progress is its own.
Own(r) ==
    /\ \A s \in Remover \ {r} :
         /\ stage'[s] = stage[s] /\ target'[s] = target[s]
         /\ base'[s] = base[s] /\ stack'[s] = stack[s]
    /\ \A x \in Task \ {r} : outcome'[x] = outcome[x]

LEMMA OwnStep ==
  ASSUME IInv, NEW r \in Remover, TreeStep(r), LocalTypes', Own(r), UNCHANGED level,
         Settled(r) => Settled(r)' /\ base'[r] = base[r], Removing(r)'
  PROVE  IInv' /\ TreeStep(r)
<1>1. \A s \in Remover \ {r} : Kept(s)
  <2>1. \A s \in Remover \ {r} : s \in Task \ {r}
    BY DEF Task
  <2> QED BY <2>1, Idle DEF Own
<1>2. ASSUME NEW s \in Remover, Settled(s) PROVE Settled(s)' /\ base'[s] = base[s]
  <2>1. CASE s = r
    BY <1>2, <2>1
  <2>2. CASE s # r
    <3>1. s \in Task
      BY DEF Task
    <3> QED BY <1>2, <2>2, <3>1 DEF Own, Settled
  <2> QED BY <2>1, <2>2
<1>3. Steady
  BY <1>2 DEF Steady
<1>4. \A c \in Creator : outcome'[c] = outcome[c]
  <2>1. \A c \in Creator : c \in Task \ {r}
    BY TreeAssumption DEF Task
  <2> QED BY <2>1 DEF Own
<1> QED BY <1>1, <1>3, <1>4, RemoverStep

LEMMA FailsStep ==
  ASSUME IInv, NEW r \in Remover, outcome[r] = "none", Fails(r), UNCHANGED tree,
         excused \subseteq excused', excused' \subseteq Task,
         r \notin excused' => ~Is(tree, At[r], "directory")
  PROVE  IInv' /\ TreeStep(r)
<1>1. TreeIn(tree) /\ LocalTypes /\ Removing(r) /\ r \in Task
  BY DEF IInv, Task
<1>2. /\ outcome' = [outcome EXCEPT ![r] = "failed"]
      /\ stack' = [stack EXCEPT ![r] = <<>>]
      /\ level' = level /\ stage' = stage /\ target' = target /\ base' = base
  BY DEF Fails, Throws
<1>3. /\ outcome' \in [Task -> {"none", "ok", "failed"}] /\ outcome'[r] = "failed"
      /\ \A x \in Task \ {r} : outcome'[x] = outcome[x]
  BY <1>1, <1>2 DEF LocalTypes
<1>4. /\ stack' \in [Remover -> Seq(Dir)] /\ stack'[r] = <<>>
      /\ \A s \in Remover \ {r} : stack'[s] = stack[s]
  <2>1. <<>> \in Seq(Dir)
    BY EmptySeq
  <2> QED BY <1>1, <1>2, <2>1 DEF LocalTypes
<1>5. LocalTypes'
  BY <1>1, <1>2, <1>3, <1>4 DEF LocalTypes
<1>6. TreeStep(r)
  BY <1>1, SameTree
<1>7. Len(stack'[r]) = 0
  BY <1>4, EmptySeq
<1>8. Due(r)' /\ Straight(r)' /\ Based(r)'
  BY <1>3, <1>7 DEF Due, Straight, Based, Going
<1>9. Stacked(r)'
  BY <1>1, <1>2, <1>3, <1>7 DEF Stacked, Removing
<1>10. Whole(r)'
  BY <1>3 DEF Whole, Going
<1>11. Own(r)
  BY <1>2, <1>3, <1>4 DEF Own
<1>12. Settled(r) => Settled(r)' /\ base'[r] = base[r]
  BY <1>2, <1>3 DEF Settled
<1> QED BY <1>2, <1>5, <1>6, <1>8, <1>9, <1>10, <1>11, <1>12, OwnStep DEF Removing

\* What is a directory is opened as what it is.
LEMMA DirectoryFound ==
  ASSUME TreeIn(tree), NEW p, Is(tree, p, "directory")
  PROVE  Resolve(p) = p /\ Follow(p) = p /\ IsDirectory(p)
<1>1. Found(tree, p) = p
  BY FoundExisting DEF Is
<1>2. Followed(tree, p) = p
  BY <1>1 DEF Followed, Is
<1> QED BY <1>1, <1>2, Lookup, Zenon DEF IsDirectory

LEMMA NamesAre ==
  ASSUME TreeIn(tree), NEW p \in Seq(Name)
  PROVE  Names(p) = NamesIn(tree, p)
<1>1. ASSUME NEW n \in Names(p) PROVE n \in NamesIn(tree, p)
  <2>1. PICK q \in DOMAIN tree : q = Append(p, Last(q)) /\ n = Last(q)
    BY DEF Names
  <2>2. Last(q) \in Name
    BY DomainPaths, FrontPath
  <2> QED BY <2>1, <2>2 DEF NamesIn
<1>2. ASSUME NEW n \in NamesIn(tree, p) PROVE n \in Names(p)
  <2>1. n \in Name /\ Append(p, n) \in DOMAIN tree /\ Last(Append(p, n)) = n
    BY AppendPath DEF NamesIn
  <2> DEFINE q == Append(p, n)
  <2>2. q \in DOMAIN tree /\ q = Append(p, Last(q)) /\ n = Last(q)
    BY <2>1
  <2> QED BY <2>2 DEF Names
<1> QED BY <1>1, <1>2

\* A path that is opened elsewhere has nothing, and no link, below itself.
LEMMA ElsewhereIsReal ==
  ASSUME NEW t, TreeIn(t), NEW p \in Paths, Followed(t, p) # p, NEW n \in Name
  PROVE  ~Is(t, Append(p, n), "link")
<1>1. p \in Seq(Name) /\ Len(p) \in Nat
  BY FrontPath DEF Paths
<1>2. PICK k \in 1 .. Len(p) : Link(t, p, k)
  BY FollowedPlain
<1> DEFINE q == Append(p, n)
<1>3. Len(q) = Len(p) + 1 /\ SubSeq(q, 1, k) = SubSeq(p, 1, k)
  <2>1. k \in 0 .. Len(p)
    BY <1>1
  <2> QED BY <1>1, <2>1, AppendPath
<1> HIDE DEF q
<1>4. k \in 1 .. Len(q) - 1 /\ Link(t, q, k)
  <2>1. k \in 1 .. Len(q) - 1
    BY <1>1, <1>3
  <2> QED BY <1>2, <1>3, <2>1 DEF Link
<1>5. q \notin DOMAIN t
  BY <1>4, NoLinkBefore
<1> QED BY <1>5 DEF Is, q

LEMMA OpenStep ==
  ASSUME IInv, NEW r \in Remover, openDirectory(r)
  PROVE  IInv' /\ TreeStep(r)
<1> DEFINE p == target[r]
           dir == sftp_opendir(p)
           L == Len(stack[r])
<1>1. /\ TreeIn(tree) /\ LocalTypes /\ Due(r) /\ Stacked(r) /\ Straight(r) /\ Based(r) /\ Whole(r)
      /\ outcome[r] = "none" /\ stage[r] = "open" /\ excused \subseteq Task /\ r \in Task
  BY DEF IInv, Removing, LocalTypes, openDirectory, Calls, Task
<1>2. /\ p \in Paths /\ p \in Seq(Name) /\ p # <<>>
      /\ stack[r] \in Seq(Dir) /\ L \in Nat /\ (stack[r] = <<>> <=> L = 0)
      /\ At[r] \in Paths /\ At[r] \in Seq(Name) /\ Len(At[r]) \in Nat
  BY <1>1, LocalFacts, PathTypes DEF Paths
<1>3. L = 0 => p = At[r]
  BY <1>1, <1>2 DEF Stacked
<1>4. CASE /\ IsDirectory(p)
           /\ stack' = [stack EXCEPT ![r] = Append(@, dir)]
           /\ base' = [base EXCEPT ![r] = IF stack[r] = <<>> THEN dir.real ELSE @]
           /\ Go(r, "read", p)
           /\ UNCHANGED <<tree, outcome, level, excused>>
  <2>1. /\ tree' = tree /\ outcome' = outcome /\ level' = level /\ excused' = excused
        /\ stage' = [stage EXCEPT ![r] = "read"] /\ target' = [target EXCEPT ![r] = p]
    BY <1>4 DEF Go
  <2>2. /\ dir.path = p /\ dir.real = Followed(tree, p) /\ dir.due = NamesIn(tree, dir.real)
        /\ dir.listed = {} /\ dir.entries = {} /\ dir \in Dir
        /\ Is(tree, dir.real, "directory") /\ dir.real \in Path
    <3>1. Follow(p) = Followed(tree, p) /\ Followed(tree, p) \in Paths
          /\ Followed(tree, p) \in Seq(Name)
      BY <1>1, <1>2, Lookup, FollowedPath
    <3>2. Names(Follow(p)) = NamesIn(tree, Followed(tree, p))
      BY <1>1, <3>1, NamesAre
    <3>3. Is(tree, Followed(tree, p), "directory")
      BY <1>2, <1>4, <3>1, Lookup DEF IsDirectory
    <3>4. NamesIn(tree, Followed(tree, p)) \subseteq Name
      BY DEF NamesIn
    <3>5. Followed(tree, p) \in Path
      BY <1>1, <3>3 DEF Is, TreeIn
    <3> QED BY <1>2, <3>1, <3>2, <3>3, <3>4, <3>5 DEF sftp_opendir, Dir
  <2> HIDE DEF dir
  <2>3. /\ stage' \in [Remover -> {"open", "read", "unlink", "rmdir"}] /\ stage'[r] = "read"
        /\ target' = target
        /\ stack' \in [Remover -> Seq(Dir)] /\ stack'[r] = Append(stack[r], dir)
        /\ base' \in [Remover -> Path]
        /\ base'[r] = IF L = 0 THEN dir.real ELSE base[r]
        /\ \A s \in Remover \ {r} :
             stage'[s] = stage[s] /\ base'[s] = base[s] /\ stack'[s] = stack[s]
    <3>1. Append(stack[r], dir) \in Seq(Dir)
      BY <1>2, <2>2, AppendProperties
    <3>2. stage' \in [Remover -> {"open", "read", "unlink", "rmdir"}] /\ stage'[r] = "read"
          /\ \A s \in Remover \ {r} : stage'[s] = stage[s]
      BY <1>1, <2>1 DEF LocalTypes
    <3>3. target' = target
      BY <1>1, <2>1 DEF LocalTypes
    <3>4. stack' \in [Remover -> Seq(Dir)] /\ stack'[r] = Append(stack[r], dir)
          /\ \A s \in Remover \ {r} : stack'[s] = stack[s]
      BY <1>1, <1>4, <3>1 DEF LocalTypes
    <3>5. base' \in [Remover -> Path] /\ base'[r] = (IF L = 0 THEN dir.real ELSE base[r])
          /\ \A s \in Remover \ {r} : base'[s] = base[s]
      BY <1>1, <1>2, <1>4, <2>2 DEF LocalTypes
    <3> QED BY <3>2, <3>3, <3>4, <3>5
  <2>4. LocalTypes'
    BY <1>1, <2>1, <2>3 DEF LocalTypes
  <2>5. /\ Len(stack'[r]) = L + 1 /\ stack'[r] # <<>>
        /\ \A i \in 1 .. L : stack'[r][i] = stack[r][i]
        /\ stack'[r][L + 1] = dir
    BY <1>2, <2>2, <2>3, AppendProperties
  <2>6. \A i \in 1 .. L + 1 : i \in 1 .. L \/ i = L + 1
    BY <1>2
  <2>7. TreeStep(r)
    BY <1>1, <2>1, SameTree
  <2>8. Own(r)
    BY <2>1, <2>3 DEF Own
  <2>9. Settled(r) => Settled(r)' /\ base'[r] = base[r]
    BY <1>1, <1>2, <2>3 DEF Settled
  <2>10. Due(r)'
    <3>1. \A i \in 1 .. L + 1 : stack'[r][i].due \cap stack'[r][i].listed = {}
      BY <1>1, <2>2, <2>5, <2>6 DEF Due
    <3> QED BY <2>5, <3>1 DEF Due
  <2>11. Stacked(r)'
    <3>1. L # 0 => L \in 1 .. L /\ Front(p) = stack[r][L].path
                   /\ Len(stack[r][L].path) = Len(At[r]) + (L - 1)
      <4> SUFFICES ASSUME L # 0
                   PROVE  L \in 1 .. L /\ Front(p) = stack[r][L].path
                          /\ Len(stack[r][L].path) = Len(At[r]) + (L - 1)
        OBVIOUS
      <4>1. L \in 1 .. L /\ stack[r] # <<>>
        BY <1>2
      <4>2. Front(p) = stack[r][L].path
        BY <1>1, <4>1 DEF Stacked, Last
      <4>3. Len(stack[r][L].path) = Len(At[r]) + (L - 1)
        BY <1>1, <4>1 DEF Stacked
      <4> QED BY <4>1, <4>2, <4>3
    <3>2. Len(p) = Len(At[r]) + L
      <4>1. CASE L = 0
        BY <1>2, <1>3, <4>1
      <4>2. CASE L # 0
        <5>1. Len(Front(p)) = Len(p) - 1 /\ Len(p) \in Nat
          BY <1>2, FrontPath
        <5>2. Len(Front(p)) = Len(At[r]) + (L - 1)
          BY <3>1, <4>2
        <5>3. \A a, b, c \in Int : a - 1 = b + (c - 1) => a = b + c
          OBVIOUS
        <5>4. Len(p) \in Int /\ Len(At[r]) \in Int /\ L \in Int
          BY <1>2, <5>1
        <5>5. Len(p) - 1 = Len(At[r]) + (L - 1)
          BY <5>1, <5>2
        <5> QED BY <5>3, <5>4, <5>5
      <4> QED BY <4>1, <4>2
    <3>3. L + 1 - 1 = L
      BY <1>2
    <3>4. Below(p, At[r])
      BY <1>1 DEF Stacked
    <3>5. \A i \in 1 .. L + 1 : Below(stack'[r][i].path, At[r])
                                /\ Len(stack'[r][i].path) = Len(At[r]) + (i - 1)
      <4>1. \A i \in 1 .. L : Below(stack'[r][i].path, At[r])
                             /\ Len(stack'[r][i].path) = Len(At[r]) + (i - 1)
        BY <1>1, <2>5 DEF Stacked
      <4> TAKE i \in 1 .. L + 1
      <4>2. CASE i \in 1 .. L
        BY <4>1, <4>2
      <4>3. CASE i = L + 1
        <5>1. stack'[r][i].path = p /\ i - 1 = L
          BY <1>2, <2>2, <2>5, <4>3
        <5> QED BY <3>2, <3>4, <5>1
      <4> QED BY <2>6, <4>2, <4>3
    <3>6. ASSUME NEW i \in 1 .. L PROVE stack'[r][i].path = Front(stack'[r][i + 1].path)
      <4>1. CASE i = L
        <5>1. L # 0 /\ L \in 1 .. L
          BY <1>2
        <5>2. stack'[r][L].path = Front(p) /\ stack'[r][L + 1].path = p
          BY <2>2, <2>5, <3>1, <5>1
        <5> QED BY <4>1, <5>2
      <4>2. CASE i # L
        <5>1. i \in 1 .. L - 1 /\ i + 1 \in 1 .. L
          BY <1>2, <4>2
        <5> QED BY <1>1, <2>5, <5>1 DEF Stacked
      <4> QED BY <4>1, <4>2
    <3>7. stack'[r][1].path = At[r]
      <4>1. CASE L = 0
        BY <1>3, <2>2, <2>5, <4>1
      <4>2. CASE L # 0
        <5>1. 1 \in 1 .. L
          BY <1>2, <4>2
        <5> QED BY <1>1, <1>2, <2>5, <4>2, <5>1 DEF Stacked
      <4> QED BY <4>1, <4>2
    <3>8. target'[r] = p /\ stage'[r] = "read"
      BY <2>3
    <3>9. \A i \in 1 .. Len(stack'[r]) : Below(stack'[r][i].path, At[r])
                                        /\ Len(stack'[r][i].path) = Len(At[r]) + (i - 1)
      BY <2>5, <3>5
    <3>10. \A i \in 1 .. Len(stack'[r]) - 1 : stack'[r][i].path = Front(stack'[r][i + 1].path)
      BY <2>5, <3>3, <3>6
    <3> QED BY <2>5, <3>4, <3>7, <3>8, <3>9, <3>10 DEF Stacked
  <2>12. Straight(r)'
    <3>1. NoLink(tree, p, r)
      BY <1>1 DEF Straight
    <3>2. Real(tree, dir)
      BY <1>1, <1>2, <2>2, ElsewhereIsReal DEF Real
    <3>3. \A i \in 1 .. L + 1 : NoLink(tree', stack'[r][i].path, r) /\ Real(tree', stack'[r][i])
      BY <1>1, <2>1, <2>2, <2>5, <2>6, <3>1, <3>2 DEF Straight
    <3> QED BY <2>3, <2>5, <3>3 DEF Straight
  <2>13. Began(r)'
    <3>1. CASE L = 0
      <4>1. base'[r] = Followed(tree, At[r])
        BY <1>3, <2>2, <2>3, <3>1
      <4>2. \A k \in 1 .. Len(At[r]) : Link(tree', At[r], k) => base'[r] = Moved(At[r], k)
        BY <1>1, <1>2, <2>1, <4>1, FollowedThrough
      <4>3. (\E k \in 1 .. Len(At[r]) : Link(tree', At[r], k)) \/ base'[r] = At[r]
        BY <1>1, <1>2, <2>1, <4>1, FollowedPlain
      <4> QED BY <4>2, <4>3 DEF Began
    <3>2. CASE L # 0
      <4>1. Going(r) /\ Settled(r) /\ Began(r)
        BY <1>1, <1>2, <3>2 DEF Based, Going, Settled
      <4>2. \A k \in 1 .. Len(At[r]) : Link(tree', At[r], k) => base'[r] = Moved(At[r], k)
        BY <2>1, <2>9, <4>1 DEF Began
      <4>3. \/ \E k \in 1 .. Len(At[r]) : Link(tree', At[r], k)
            \/ base'[r] = At[r]
            \/ \E s \in Remover : Settled(s) /\ Below(At[r], base[s])
        BY <2>1, <2>9, <4>1 DEF Began
      <4>4. \A s \in Remover : Settled(s) => Settled(s)' /\ base'[s] = base[s]
        <5>1. \A s \in Remover \ {r} : Settled(s) => Settled(s)' /\ base'[s] = base[s]
          BY <2>1, <2>3 DEF Settled
        <5> QED BY <2>9, <5>1
      <4> QED BY <4>2, <4>3, <4>4 DEF Began
    <3> QED BY <3>1, <3>2
  <2>14. Whole(r)'
    <3>1. SUFFICES ASSUME r \notin excused PROVE Astray(r)' \/ Regular(r)'
      BY <1>1, <2>1 DEF Whole, Going
    <3>2. ASSUME Is(tree, p, "directory"),
                 \A i \in 1 .. L : Faithful(tree, stack[r][i], Current(r, i))
          PROVE  Regular(r)'
      <4>1. dir.real = p
        BY <1>1, <2>2, <3>2, DirectoryFound, Lookup
      <4>2. Faithful(tree, dir, {})
        BY <2>2, <4>1 DEF Faithful
      <4>3. ASSUME NEW i \in 1 .. L PROVE Current(r, i)' = Current(r, i)
        <5>1. i < L => i + 1 \in 1 .. L
          BY <1>2
        <5>2. i < L + 1 /\ i <= L
          BY <1>2
        <5>3. Current(r, i)' = {Last(stack'[r][i + 1].path)}
          BY <2>5, <5>2 DEF Current
        <5>4. CASE i < L
          BY <2>5, <5>1, <5>3, <5>4 DEF Current
        <5>5. CASE i = L
          <6>1. ~(i < L)
            BY <1>2, <5>5
          <6>2. Current(r, i) = {Last(p)}
            BY <1>1, <6>1 DEF Current
          <6>3. stack'[r][i + 1].path = p
            BY <2>2, <2>5, <5>5
          <6> QED BY <5>3, <6>2, <6>3
        <5> QED BY <1>2, <5>2, <5>4, <5>5
      <4>4. \A i : i = L + 1 => Current(r, i)' = {}
        BY <1>2, <2>3, <2>5 DEF Current
      <4>5. \A i \in 1 .. L + 1 : Faithful(tree', stack'[r][i], Current(r, i)')
        <5>1. \A i \in 1 .. L : Faithful(tree', stack'[r][i], Current(r, i)')
          BY <2>1, <2>5, <3>2, <4>3
        <5>2. Faithful(tree', stack'[r][L + 1], {})
          BY <2>1, <2>5, <4>2
        <5>3. ASSUME NEW i \in 1 .. L + 1 PROVE Faithful(tree', stack'[r][i], Current(r, i)')
          <6>1. CASE i \in 1 .. L
            BY <5>1, <6>1
          <6>2. CASE i = L + 1
            BY <4>4, <5>2, <6>2
          <6> QED BY <2>6, <6>1, <6>2
        <5> QED BY <5>3
      <4> QED BY <2>3, <2>5, <4>5 DEF Regular
    <3>3. CASE L = 0
      <4>1. CASE Is(tree, p, "directory")
        BY <1>2, <3>2, <3>3, <4>1
      <4>2. CASE ~Is(tree, p, "directory")
        <5> SUFFICES ASSUME NEW kind, Is(tree, p, kind), kind # "link" PROVE FALSE
          BY <1>3, <2>1, <3>3 DEF Astray
        <5>1. Found(tree, p) = p
          BY <1>1, FoundExisting DEF Is
        <5>2. Followed(tree, p) = p
          BY <5>1 DEF Followed, Is
        <5> QED BY <2>2, <4>2, <5>2
      <4> QED BY <4>1, <4>2
    <3>4. CASE L # 0
      <4>1. Astray(r) \/ Regular(r)
        BY <1>1, <1>2, <3>1, <3>4 DEF Whole, Going, Settled
      <4>2. Astray(r) => Astray(r)'
        BY <2>1 DEF Astray
      <4>3. Regular(r) => Regular(r)'
        BY <1>1, <3>2 DEF Regular
      <4> QED BY <4>1, <4>2, <4>3
    <3> QED BY <3>3, <3>4
  <2>15. Removing(r)'
    BY <2>10, <2>11, <2>12, <2>13, <2>14 DEF Removing, Based
  <2> QED BY <2>1, <2>4, <2>7, <2>8, <2>9, <2>15, OwnStep
<1>5. CASE ~IsDirectory(p) /\ Fails(r) /\ UNCHANGED <<tree, excused>>
  <2>1. ~Is(tree, p, "directory")
    BY <1>1, <1>5, DirectoryFound
  <2>2. ASSUME r \notin excused PROVE ~Is(tree, At[r], "directory")
    <3>1. CASE L = 0
      BY <1>3, <2>1, <3>1
    <3>2. CASE L # 0
      <4>1. Astray(r)
        BY <1>1, <1>2, <2>1, <2>2, <3>2 DEF Whole, Going, Settled, Regular
      <4> QED BY <4>1 DEF Astray
    <3> QED BY <3>1, <3>2
  <2>3. tree' = tree /\ excused' = excused
    BY <1>5
  <2> QED BY <1>1, <1>5, <2>2, <2>3, FailsStep
<1>6. CASE Refused(r) /\ Fails(r)
  BY <1>1, <1>6, FailsStep DEF Refused
<1> QED BY <1>4, <1>5, <1>6, Zenon DEF openDirectory

-----------------------------------------------------------------------------
(* The steps of removals: reading a directory.                              *)

LEMMA GoTypes ==
  ASSUME LocalTypes, NEW r \in Remover, NEW s \in {"open", "read", "unlink", "rmdir"},
         NEW p \in Paths, Go(r, s, p)
  PROVE  /\ stage' \in [Remover -> {"open", "read", "unlink", "rmdir"}]
         /\ target' \in [Remover -> Paths]
         /\ stage'[r] = s /\ target'[r] = p
         /\ \A q \in Remover \ {r} : stage'[q] = stage[q] /\ target'[q] = target[q]
BY DEF LocalTypes, Go

\* The innermost directory of a removal becomes d2, and the entry is handled.
LEMMA HandleStep ==
  ASSUME IInv, NEW r \in Remover, Calls(r, "read"), NEW L, L = Len(stack[r]),
         NEW d, d = stack[r][L], NEW d2 \in Dir, d2.path = d.path,
         d2.due \cap d2.listed = {}, Real(tree, d2), NEW entry \in EntryType,
         entry.kind = "directory" => ~Is(tree, Append(d.real, entry.name), "link"),
         Faithful(tree, d, {}) =>
            /\ Faithful(tree, d2, {entry.name})
            /\ Is(tree, Append(d.path, entry.name), entry.kind),
         stack' = [stack EXCEPT ![r] = [stack[r] EXCEPT ![L] = d2]],
         Handle(r, d, entry), UNCHANGED <<tree, outcome, excused, level, base>>
  PROVE  IInv' /\ TreeStep(r)
<1> DEFINE q == Append(d.path, entry.name)
           next == IF entry.kind = "directory" THEN "open" ELSE "unlink"
<1>1. /\ TreeIn(tree) /\ LocalTypes /\ Due(r) /\ Stacked(r) /\ Straight(r) /\ Based(r) /\ Whole(r)
      /\ outcome[r] = "none" /\ stage[r] = "read" /\ r \in Task
  BY DEF IInv, Removing, Calls, Task
<1>2. stack[r] \in Seq(Dir) /\ L \in Nat /\ stack[r] # <<>> /\ L \in 1 .. L
  <2>1. stack[r] # <<>>
    BY <1>1 DEF Stacked
  <2> QED BY <1>1, <2>1, LocalFacts
<1>3. d \in Dir /\ d.path \in Paths /\ d.path \in Seq(Name) /\ Below(d.path, At[r])
      /\ NoLink(tree, d.path, r) /\ Real(tree, d)
      /\ Len(d.path) = Len(At[r]) + (L - 1)
  BY <1>1, <1>2, LocalFacts DEF Stacked, Straight
<1>4. entry.name \in Name /\ entry.kind \in Kind
  BY DEF EntryType
<1>5. /\ q \in Paths /\ Len(q) = Len(d.path) + 1 /\ Last(q) = entry.name /\ Front(q) = d.path
      /\ \A k \in 0 .. Len(d.path) : SubSeq(q, 1, k) = SubSeq(d.path, 1, k)
      /\ Below(q, d.path) /\ q \in Seq(Name)
  BY <1>3, <1>4, AppendPath DEF Paths
<1>6. Go(r, next, q) /\ next \in {"open", "read", "unlink", "rmdir"}
  BY DEF Handle
<1> HIDE DEF q, next
<1>7. /\ stage' \in [Remover -> {"open", "read", "unlink", "rmdir"}]
      /\ target' \in [Remover -> Paths]
      /\ stage'[r] = next /\ target'[r] = q
      /\ \A s \in Remover \ {r} : stage'[s] = stage[s] /\ target'[s] = target[s]
  BY <1>1, <1>5, <1>6, GoTypes
<1>8. /\ stack' \in [Remover -> Seq(Dir)] /\ Len(stack'[r]) = L /\ stack'[r] # <<>>
      /\ stack'[r][L] = d2
      /\ \A i \in 1 .. L : stack'[r][i].path = stack[r][i].path
      /\ \A i \in 1 .. L : i # L => stack'[r][i] = stack[r][i]
      /\ \A s \in Remover \ {r} : stack'[s] = stack[s]
  <2> DEFINE s2 == [stack[r] EXCEPT ![L] = d2]
  <2>1. /\ s2 \in Seq(Dir) /\ Len(s2) = L
        /\ \A j \in 1 .. L : s2[j] = IF j = L THEN d2 ELSE stack[r][j]
    BY <1>2, ExceptSeq
  <2>2. stack' = [stack EXCEPT ![r] = s2]
    OBVIOUS
  <2> HIDE DEF s2
  <2>3. /\ stack' \in [Remover -> Seq(Dir)] /\ stack'[r] = s2
        /\ \A s \in Remover \ {r} : stack'[s] = stack[s]
    BY <1>1, <2>1, <2>2 DEF LocalTypes
  <2>4. s2 # <<>>
    BY <1>2, <2>1, EmptySeq
  <2> QED BY <1>2, <2>1, <2>3, <2>4
<1>9. tree' = tree /\ outcome' = outcome /\ excused' = excused /\ level' = level /\ base' = base
  OBVIOUS
<1>10. LocalTypes'
  BY <1>1, <1>7, <1>8, <1>9 DEF LocalTypes
<1>11. TreeStep(r)
  BY <1>1, <1>9, SameTree
<1>12. Own(r)
  BY <1>7, <1>8, <1>9 DEF Own
<1>13. Settled(r)' /\ Settled(r) /\ Going(r)
  BY <1>1, <1>2, <1>8 DEF Settled, Going
<1>14. Due(r)'
  <2>1. ASSUME NEW i \in 1 .. L PROVE stack'[r][i].due \cap stack'[r][i].listed = {}
    BY <1>1, <1>8, <2>1 DEF Due
  <2> QED BY <1>8, <2>1 DEF Due
<1>15. Stacked(r)'
  <2>1. Below(q, At[r])
    <3>1. At[r] \in Seq(Name)
      BY <1>1, PathTypes
    <3> QED BY <1>3, <1>5, <3>1, BelowTransitive
  <2>2. \A i \in 1 .. L : Below(stack'[r][i].path, At[r])
                          /\ Len(stack'[r][i].path) = Len(At[r]) + (i - 1)
    <3>1. \A i \in 1 .. L : Below(stack[r][i].path, At[r])
                            /\ Len(stack[r][i].path) = Len(At[r]) + (i - 1)
      BY <1>1 DEF Stacked
    <3>2. \A i \in 1 .. L : stack'[r][i].path = stack[r][i].path
      BY <1>8
    <3> QED BY <3>1, <3>2, Zenon
  <2>3. \A i \in 1 .. L - 1 : stack'[r][i].path = Front(stack'[r][i + 1].path)
    <3>1. \A i \in 1 .. L - 1 : i \in 1 .. L /\ i + 1 \in 1 .. L
      BY <1>2
    <3>2. \A i \in 1 .. L - 1 : stack[r][i].path = Front(stack[r][i + 1].path)
      BY <1>1 DEF Stacked
    <3> QED BY <1>8, <3>1, <3>2
  <2>4. stack'[r][1].path = At[r]
    <3>1. 1 \in 1 .. L
      BY <1>2
    <3> QED BY <1>1, <1>2, <1>8, <3>1 DEF Stacked
  <2>5. Front(target'[r]) = Last(stack'[r]).path
    BY <1>5, <1>7, <1>8 DEF Last
  <2> QED BY <1>7, <1>8, <2>1, <2>2, <2>3, <2>4, <2>5 DEF Stacked
<1>16. Straight(r)'
  <2>1. ASSUME NEW i \in 1 .. L
        PROVE  NoLink(tree', stack'[r][i].path, r) /\ Real(tree', stack'[r][i])
    BY <1>1, <1>8, <1>9, <2>1 DEF Straight
  <2>2. ASSUME next = "open" PROVE NoLink(tree, q, r)
    <3>1. entry.kind = "directory"
      BY <2>2 DEF next
    <3>2. ~Is(tree, q, "link")
      BY <1>3, <1>4, <3>1 DEF Real, q
    <3>3. ASSUME NEW k \in Len(At[r]) + 1 .. Len(q) PROVE ~Link(tree, q, k)
      <4>1. Len(d.path) \in Nat /\ Len(At[r]) \in Nat
        BY <1>1, <1>3, LenProperties, PathTypes
      <4>2. CASE k = Len(q)
        <5>1. SubSeq(q, 1, k) = q
          BY <1>5, <4>2, PrefixFull
        <5> QED BY <3>2, <5>1 DEF Link
      <4>3. CASE k # Len(q)
        <5>1. k \in Len(At[r]) + 1 .. Len(d.path) /\ k \in 0 .. Len(d.path)
          <6>1. Len(q) = Len(d.path) + 1
            BY <1>5
          <6> QED BY <4>1, <4>3, <6>1
        <5>2. ~Link(tree, d.path, k)
          BY <1>3, <5>1 DEF NoLink
        <5> QED BY <1>5, <5>1, <5>2 DEF Link
      <4> QED BY <4>2, <4>3
    <3> QED BY <3>3 DEF NoLink
  <2>3. stage'[r] \in {"open", "rmdir"} => NoLink(tree', target'[r], r)
    BY <1>7, <1>9, <2>2 DEF next
  <2> QED BY <1>8, <2>1, <2>3 DEF Straight
<1>17. Based(r)'
  <2>1. \A s \in Remover : Settled(s) => Settled(s)' /\ base'[s] = base[s]
    <3>1. \A s \in Remover \ {r} : Settled(s) => Settled(s)'
      BY <1>7, <1>8, <1>9 DEF Settled
    <3> QED BY <1>9, <1>13, <3>1
  <2>2. Began(r)
    BY <1>1, <1>13 DEF Based
  <2>3. Began(r)'
    BY <1>11, <1>13, <2>1, <2>2, BeganKept DEF Steady
  <2> QED BY <2>3 DEF Based
<1>18. Whole(r)'
  <2>1. SUFFICES ASSUME r \notin excused PROVE Astray(r)' \/ Regular(r)'
    BY <1>1, <1>9 DEF Whole, Going
  <2>2. Astray(r) => Astray(r)'
    BY <1>9 DEF Astray
  <2>3. ASSUME Regular(r) PROVE Regular(r)'
    <3>1. \A i \in 1 .. L : Faithful(tree, stack[r][i], Current(r, i))
      BY <2>3 DEF Regular
    <3>2. Current(r, L) = {}
      BY <1>1, <1>2 DEF Current
    <3>3. Faithful(tree, d2, {entry.name}) /\ Is(tree, q, entry.kind)
      BY <1>2, <3>1, <3>2 DEF q
    <3>4. ASSUME NEW i \in 1 .. L PROVE Faithful(tree', stack'[r][i], Current(r, i)')
      <4>1. CASE i = L
        <5>1. Current(r, i)' = {entry.name}
          BY <1>2, <1>5, <1>7, <1>8, <4>1 DEF Current, next
        <5> QED BY <1>8, <1>9, <3>3, <4>1, <5>1
      <4>2. CASE i # L
        <5>1. i < L /\ i + 1 \in 1 .. L
          BY <1>2, <4>2
        <5>2. Current(r, i)' = Current(r, i)
          BY <1>8, <5>1 DEF Current
        <5> QED BY <1>8, <1>9, <3>1, <4>2, <5>2
      <4> QED BY <4>1, <4>2
    <3>5. stage'[r] = "open" => Is(tree', target'[r], "directory")
      BY <1>7, <1>9, <3>3 DEF next
    <3>6. stage'[r] = "unlink" => target'[r] \in DOMAIN tree' /\ ~Is(tree', target'[r], "directory")
      BY <1>7, <1>9, <3>3 DEF next, Is
    <3>7. stage'[r] \in {"open", "unlink"}
      BY <1>7 DEF next
    <3> QED BY <1>8, <3>4, <3>5, <3>6, <3>7 DEF Regular
  <2>4. Astray(r) \/ Regular(r)
    BY <1>1, <1>13, <2>1 DEF Whole
  <2> QED BY <2>2, <2>3, <2>4
<1>19. Removing(r)'
  BY <1>14, <1>15, <1>16, <1>17, <1>18 DEF Removing
<1> QED BY <1>9, <1>10, <1>11, <1>12, <1>13, <1>19, OwnStep

\* The innermost directory after some names were listed.
LEMMA ListedProperties ==
  ASSUME NEW d \in Dir, NEW names \in SUBSET Name, NEW entries \in SUBSET EntryType,
         d.due \cap d.listed = {}
  PROVE  LET d2 == Listed(d, names, entries) IN
         /\ d2 \in Dir /\ d2.path = d.path /\ d2.real = d.real
         /\ d2.due = d.due \ names /\ d2.entries = entries
         /\ d2.due \cap d2.listed = {}
BY DEF Listed, Dir

\* At the end of a directory it is closed, and to be removed.
LEMMA AtEndStep ==
  ASSUME IInv, NEW r \in Remover, Calls(r, "read"), NEW L, L = Len(stack[r]),
         NEW d, d = stack[r][L], AtEnd(d), stack' = [stack EXCEPT ![r] = Front(stack[r])],
         Go(r, "rmdir", d.path), UNCHANGED <<tree, outcome, excused, level, base>>
  PROVE  IInv' /\ TreeStep(r)
<1>1. /\ TreeIn(tree) /\ LocalTypes /\ Due(r) /\ Stacked(r) /\ Straight(r) /\ Based(r) /\ Whole(r)
      /\ outcome[r] = "none" /\ stage[r] = "read" /\ r \in Task
  BY DEF IInv, Removing, Calls, Task
<1>2. stack[r] \in Seq(Dir) /\ L \in Nat /\ stack[r] # <<>> /\ L \in 1 .. L
  <2>1. stack[r] # <<>>
    BY <1>1 DEF Stacked
  <2> QED BY <1>1, <2>1, LocalFacts
<1>3. d.path \in Paths /\ Below(d.path, At[r]) /\ NoLink(tree, d.path, r)
  BY <1>1, <1>2, LocalFacts DEF Stacked, Straight
<1>4. /\ stage' \in [Remover -> {"open", "read", "unlink", "rmdir"}]
      /\ target' \in [Remover -> Paths]
      /\ stage'[r] = "rmdir" /\ target'[r] = d.path
      /\ \A s \in Remover \ {r} : stage'[s] = stage[s] /\ target'[s] = target[s]
  BY <1>1, <1>3, GoTypes
<1> DEFINE s2 == Front(stack[r])
<1>5. /\ s2 \in Seq(Dir) /\ Len(s2) = L - 1
      /\ \A i \in 1 .. L - 1 : s2[i] = stack[r][i]
  <2>1. L - 1 \in Int /\ 1 \in Int /\ \A i \in 1 .. L - 1 : i \in 1 .. L
    BY <1>2
  <2>2. \A i \in 1 .. L - 1 : stack[r][i] \in Dir
    BY <1>2, <2>1, ElementOfSeq
  <2> DEFINE s == stack[r]
             m == L - 1
  <2>3. m \in Int /\ 1 \in Int /\ \A i \in 1 .. m : s[i] \in Dir
    BY <2>1, <2>2
  <2> HIDE DEF s, m
  <2>4. /\ SubSeq(s, 1, m) \in Seq(Dir)
        /\ Len(SubSeq(s, 1, m)) = IF 1 <= m THEN m - 1 + 1 ELSE 0
        /\ \A i \in 1 .. m - 1 + 1 : SubSeq(s, 1, m)[i] = s[1 + i - 1]
    BY <2>3, SubSeqProperties
  <2>5. m - 1 + 1 = m /\ (IF 1 <= m THEN m - 1 + 1 ELSE 0) = m
        /\ \A i \in 1 .. m : 1 + i - 1 = i
    BY <1>2 DEF m
  <2>6. s2 = SubSeq(s, 1, m)
    BY DEF Front, s, m
  <2> HIDE DEF s2
  <2>7. s2 \in Seq(Dir) /\ Len(s2) = m /\ \A i \in 1 .. m : s2[i] = s[i]
    BY <2>4, <2>5, <2>6
  <2> QED BY <2>7 DEF s, m
<1>6. /\ stack' \in [Remover -> Seq(Dir)] /\ stack'[r] = s2
      /\ \A s \in Remover \ {r} : stack'[s] = stack[s]
  <2> HIDE DEF s2
  <2>1. stack' = [stack EXCEPT ![r] = s2]
    BY DEF s2
  <2> QED BY <1>1, <1>5, <2>1 DEF LocalTypes
<1>7. /\ Len(stack'[r]) = L - 1 /\ (stack'[r] = <<>> <=> L - 1 = 0)
      /\ \A i \in 1 .. L - 1 : stack'[r][i] = stack[r][i]
  BY <1>5, <1>6, EmptySeq
<1> HIDE DEF s2
<1>8. \A i \in 1 .. L - 1 : i \in 1 .. L
  BY <1>2
<1>9. tree' = tree /\ outcome' = outcome /\ excused' = excused /\ level' = level /\ base' = base
  OBVIOUS
<1>10. LocalTypes'
  BY <1>1, <1>4, <1>6, <1>9 DEF LocalTypes
<1>11. TreeStep(r)
  BY <1>1, <1>9, SameTree
<1>12. Own(r)
  BY <1>4, <1>6, <1>9 DEF Own
<1>13. Settled(r)' /\ Settled(r) /\ Going(r)
  BY <1>1, <1>2, <1>4 DEF Settled, Going
<1>14. Due(r)'
  <2>1. \A i \in 1 .. L - 1 : stack'[r][i].due \cap stack'[r][i].listed = {}
    BY <1>1, <1>7, <1>8 DEF Due
  <2> QED BY <1>7, <2>1 DEF Due
<1>15. Stacked(r)'
  <2>1. \A i \in 1 .. L - 1 : Below(stack'[r][i].path, At[r])
                              /\ Len(stack'[r][i].path) = Len(At[r]) + (i - 1)
    BY <1>1, <1>7, <1>8 DEF Stacked
  <2>2. \A i \in 1 .. L - 1 - 1 : stack'[r][i].path = Front(stack'[r][i + 1].path)
    <3>1. \A i \in 1 .. L - 1 - 1 : i \in 1 .. L - 1 /\ i + 1 \in 1 .. L - 1
      BY <1>2
    <3>2. \A i \in 1 .. L - 1 : stack[r][i].path = Front(stack[r][i + 1].path)
      BY <1>1 DEF Stacked
    <3> QED BY <1>7, <3>1, <3>2
  <2>3. stack'[r] = <<>> => target'[r] = At[r]
    <3> SUFFICES ASSUME L - 1 = 0 PROVE d.path = At[r]
      BY <1>4, <1>7
    <3>1. L = 1
      BY <1>2
    <3> QED BY <1>1, <1>2, <3>1 DEF Stacked
  <2>4. ASSUME stack'[r] # <<>>
        PROVE  stack'[r][1].path = At[r] /\ Front(target'[r]) = Last(stack'[r]).path
    <3>1. 1 \in 1 .. L - 1 /\ L - 1 \in 1 .. L - 1 /\ L - 1 + 1 = L
      BY <1>2, <1>7, <2>4
    <3>2. stack'[r][1].path = At[r]
      BY <1>1, <1>2, <1>7, <3>1 DEF Stacked
    <3>3. Last(stack'[r]).path = stack[r][L - 1].path
      BY <1>7, <3>1 DEF Last
    <3>4. \A i \in 1 .. L - 1 : stack[r][i].path = Front(stack[r][i + 1].path)
      BY <1>1 DEF Stacked
    <3>5. stack[r][L - 1].path = Front(d.path)
      BY <3>1, <3>4
    <3> QED BY <1>4, <3>2, <3>3, <3>5
  <2> QED BY <1>3, <1>4, <1>7, <2>1, <2>2, <2>3, <2>4 DEF Stacked
<1>16. Straight(r)'
  <2>1. \A i \in 1 .. L - 1 : NoLink(tree', stack'[r][i].path, r) /\ Real(tree', stack'[r][i])
    BY <1>1, <1>7, <1>8, <1>9 DEF Straight
  <2> QED BY <1>3, <1>4, <1>7, <1>9, <2>1 DEF Straight
<1>17. Based(r)'
  <2>1. \A s \in Remover : Settled(s) => Settled(s)' /\ base'[s] = base[s]
    <3>1. \A s \in Remover \ {r} : Settled(s) => Settled(s)'
      BY <1>4, <1>6, <1>9 DEF Settled
    <3> QED BY <1>9, <1>13, <3>1
  <2>2. Began(r)
    BY <1>1, <1>13 DEF Based
  <2>3. Began(r)'
    BY <1>11, <1>13, <2>1, <2>2, BeganKept DEF Steady
  <2> QED BY <2>3 DEF Based
<1>18. Whole(r)'
  <2>1. SUFFICES ASSUME r \notin excused PROVE Astray(r)' \/ Regular(r)'
    BY <1>1, <1>9 DEF Whole, Going
  <2>2. Astray(r) => Astray(r)'
    BY <1>9 DEF Astray
  <2>3. ASSUME Regular(r) PROVE Regular(r)'
    <3>1. \A i \in 1 .. L : Faithful(tree, stack[r][i], Current(r, i))
      BY <2>3 DEF Regular
    <3>2. Current(r, L) = {}
      BY <1>1, <1>2 DEF Current
    <3>3. Faithful(tree, d, {})
      BY <1>2, <3>1, <3>2
    <3>4. Is(tree, d.path, "directory") /\ NamesIn(tree, d.path) = {}
      BY <3>3 DEF Faithful, AtEnd, sftp_dir_eof
    <3>5. ASSUME NEW i \in 1 .. L - 1 PROVE Faithful(tree', stack'[r][i], Current(r, i)')
      <4>1. i < L /\ i + 1 \in 1 .. L /\ i \in 1 .. L
        BY <1>2
      <4>2. Current(r, i) = {Last(stack[r][i + 1].path)}
        BY <4>1 DEF Current
      <4>3. Current(r, i)' = Current(r, i)
        <5>1. CASE i < L - 1
          <6>1. i + 1 \in 1 .. L - 1
            BY <1>2, <5>1
          <6> QED BY <1>7, <4>2, <5>1, <6>1 DEF Current
        <5>2. CASE i = L - 1
          <6>1. ~(i < L - 1) /\ i + 1 = L
            BY <1>2, <5>2
          <6>2. Current(r, i)' = {Last(d.path)}
            BY <1>4, <1>7, <6>1 DEF Current
          <6> QED BY <4>2, <6>1, <6>2
        <5> QED BY <1>2, <5>1, <5>2
      <4> QED BY <1>7, <1>9, <3>1, <4>1, <4>3
    <3> QED BY <1>4, <1>7, <1>9, <3>4, <3>5 DEF Regular
  <2>4. Astray(r) \/ Regular(r)
    BY <1>1, <1>13, <2>1 DEF Whole
  <2> QED BY <2>2, <2>3, <2>4
<1>19. Removing(r)'
  BY <1>14, <1>15, <1>16, <1>17, <1>18 DEF Removing
<1> QED BY <1>9, <1>10, <1>11, <1>12, <1>13, <1>19, OwnStep

LEMMA ReadStep ==
  ASSUME IInv, NEW r \in Remover, readDirectory(r)
  PROVE  IInv' /\ TreeStep(r)
<1> DEFINE L == Len(stack[r])
           d == Last(stack[r])
           New(names, entries) ==
                stack' = [stack EXCEPT ![r] = [stack[r] EXCEPT ![L] = Listed(d, names, entries)]]
<1>1. Calls(r, "read") /\ level' = level /\ base' = base
  BY DEF readDirectory
<1>2. \/ \E entry \in d.entries :
           /\ New({}, d.entries \ {entry})
           /\ Handle(r, d, entry)
           /\ UNCHANGED <<tree, outcome, excused>>
      \/ \E names \in (SUBSET (Names(d.real) \ d.listed)) \ {{}} : \E name \in names :
           /\ d.entries = {}
           /\ New(names, {Entry(d, n) : n \in names \ {name}})
           /\ Handle(r, d, Entry(d, name))
           /\ UNCHANGED <<tree, outcome, excused>>
      \/ /\ AtEnd(d)
         /\ stack' = [stack EXCEPT ![r] = Front(@)]
         /\ Go(r, "rmdir", d.path)
         /\ UNCHANGED <<tree, outcome, excused>>
      \/ d.entries = {} /\ Refused(r) /\ Fails(r)
  BY DEF readDirectory, sftp_readdir
<1>3. /\ TreeIn(tree) /\ LocalTypes /\ Due(r) /\ Stacked(r) /\ Straight(r)
      /\ outcome[r] = "none" /\ stage[r] = "read" /\ excused \subseteq Task /\ r \in Task
  BY <1>1 DEF IInv, Removing, Calls, LocalTypes, Task
<1>4. L \in 1 .. L /\ d = stack[r][L]
  <2>1. stack[r] # <<>>
    BY <1>3 DEF Stacked
  <2> QED BY <1>3, <2>1, LocalFacts DEF Last
<1>5. d \in Dir /\ d.due \cap d.listed = {} /\ Real(tree, d)
  BY <1>3, <1>4, LocalFacts DEF Due, Straight
<1>6. /\ d.path \in Paths /\ d.path \in Seq(Name) /\ d.real \in Seq(Name)
      /\ d.entries \in SUBSET EntryType
  BY <1>5 DEF Dir, Paths
<1> HIDE DEF d
<1>7. \A n \in Names(d.real) : n \in Name /\ Append(d.real, n) \in DOMAIN tree
  BY <1>3, <1>6, NamesAre DEF NamesIn
<1>8. CASE \E entry \in d.entries :
             /\ New({}, d.entries \ {entry})
             /\ Handle(r, d, entry)
             /\ UNCHANGED <<tree, outcome, excused>>
  <2>1. PICK entry \in d.entries :
             /\ New({}, d.entries \ {entry})
             /\ Handle(r, d, entry)
             /\ UNCHANGED <<tree, outcome, excused>>
    BY <1>8
  <2> DEFINE d2 == Listed(d, {}, d.entries \ {entry})
  <2>2. /\ d2 \in Dir /\ d2.path = d.path /\ d2.real = d.real
        /\ d2.due = d.due \ {} /\ d2.entries = d.entries \ {entry}
        /\ d2.due \cap d2.listed = {}
    <3>1. {} \in SUBSET Name /\ d.entries \ {entry} \in SUBSET EntryType
      BY <1>6
    <3> QED BY <1>5, <3>1, ListedProperties
  <2>3. stack' = [stack EXCEPT ![r] = [stack[r] EXCEPT ![L] = d2]]
    BY <2>1
  <2> HIDE DEF d2
  <2>4. entry \in EntryType
    BY <1>6
  <2>5. Real(tree, d2)
    BY <1>5, <2>2 DEF Real
  <2>6. entry.kind = "directory" => ~Is(tree, Append(d.real, entry.name), "link")
    BY <1>5 DEF Real
  <2>7. ASSUME Faithful(tree, d, {})
        PROVE  /\ Faithful(tree, d2, {entry.name})
               /\ Is(tree, Append(d.path, entry.name), entry.kind)
    <3>1. Is(tree, Append(d.path, entry.name), entry.kind)
      BY <2>7 DEF Faithful
    <3>2. ASSUME NEW f \in d.entries \ {entry} PROVE f.name # entry.name
      <4> SUFFICES ASSUME f.name = entry.name PROVE FALSE
        OBVIOUS
      <4>1. f.kind = entry.kind
        BY <2>7, <3>1 DEF Faithful, Is
      <4> QED BY <1>6, <2>4, <4>1 DEF EntryType
    <3>3. NamesIn(tree, d.path) \subseteq
             d2.due \cup {f.name : f \in d2.entries} \cup {entry.name}
      BY <2>2, <2>7 DEF Faithful
    <3>4. \A f \in d2.entries : Is(tree, Append(d2.path, f.name), f.kind)
                                /\ f.name \notin {entry.name}
      BY <2>2, <2>7, <3>2 DEF Faithful
    <3>5. /\ d2.real = d2.path /\ d2.path = d.path /\ Is(tree, d2.path, "directory")
      BY <2>2, <2>7 DEF Faithful
    <3>6. NamesIn(tree, d2.path) \subseteq
             d2.due \cup {f.name : f \in d2.entries} \cup {entry.name}
      BY <3>3, <3>5
    <3>7. Faithful(tree, d2, {entry.name})
      BY <3>4, <3>5, <3>6, Zenon DEF Faithful
    <3> QED BY <3>1, <3>7
  <2>8. /\ L = Len(stack[r]) /\ d = stack[r][L] /\ Calls(r, "read") /\ Handle(r, d, entry)
        /\ UNCHANGED <<tree, outcome, excused, level, base>>
    BY <1>1, <1>4, <2>1
  <2>9. Faithful(tree, d, {}) =>
            /\ Faithful(tree, d2, {entry.name})
            /\ Is(tree, Append(d.path, entry.name), entry.kind)
    BY <2>7
  <2> HIDE DEF L
  <2> QED BY <2>2, <2>3, <2>4, <2>5, <2>6, <2>8, <2>9, HandleStep, Zenon
<1>9. CASE \E names \in (SUBSET (Names(d.real) \ d.listed)) \ {{}} : \E name \in names :
             /\ d.entries = {}
             /\ New(names, {Entry(d, n) : n \in names \ {name}})
             /\ Handle(r, d, Entry(d, name))
             /\ UNCHANGED <<tree, outcome, excused>>
  <2>1. PICK names \in SUBSET Names(d.real) : \E name \in names :
             /\ d.entries = {}
             /\ New(names, {Entry(d, n) : n \in names \ {name}})
             /\ Handle(r, d, Entry(d, name))
             /\ UNCHANGED <<tree, outcome, excused>>
    BY <1>9
  <2>2. PICK name \in names :
             /\ d.entries = {}
             /\ New(names, {Entry(d, n) : n \in names \ {name}})
             /\ Handle(r, d, Entry(d, name))
             /\ UNCHANGED <<tree, outcome, excused>>
    BY <2>1
  <2> DEFINE entries == {Entry(d, n) : n \in names \ {name}}
             d2 == Listed(d, names, entries)
             entry == Entry(d, name)
  <2>3. ASSUME NEW n \in names
        PROVE  /\ n \in Name /\ Entry(d, n) \in EntryType /\ Entry(d, n).name = n
               /\ Is(tree, Append(d.real, n), Entry(d, n).kind)
    <3>1. n \in Name /\ Append(d.real, n) \in DOMAIN tree
      BY <1>7, <2>1
    <3>2. tree[Append(d.real, n)] \in Kind
      BY <1>3, <3>1 DEF TreeIn
    <3> QED BY <3>1, <3>2 DEF Entry, EntryKind, EntryType, Is
  <2>4. names \in SUBSET Name /\ entries \in SUBSET EntryType
    BY <2>3
  <2>5. ASSUME NEW f \in entries
        PROVE  f.name \in names /\ f.name # name /\ Is(tree, Append(d.real, f.name), f.kind)
    <3>1. PICK n \in names \ {name} : f = Entry(d, n)
      OBVIOUS
    <3> QED BY <2>3, <3>1
  <2>6. /\ d2 \in Dir /\ d2.path = d.path /\ d2.real = d.real
        /\ d2.due = d.due \ names /\ d2.entries = entries
        /\ d2.due \cap d2.listed = {}
    <3> HIDE DEF entries
    <3> QED BY <1>5, <2>4, ListedProperties
  <2>7. stack' = [stack EXCEPT ![r] = [stack[r] EXCEPT ![L] = d2]]
    BY <2>2
  <2>8. \A n \in names \ {name} : \E f \in entries : f.name = n
    BY <2>3
  <2>9. entry \in EntryType /\ entry.name = name /\ Is(tree, Append(d.real, name), entry.kind)
        /\ Handle(r, d, entry)
    BY <2>2, <2>3
  <2> HIDE DEF d2, entries, entry
  <2>10. Real(tree, d2)
    BY <1>5, <2>5, <2>6 DEF Real, Is
  <2>11. entry.kind = "directory" => ~Is(tree, Append(d.real, entry.name), "link")
    BY <2>9 DEF Is
  <2>12. ASSUME Faithful(tree, d, {})
         PROVE  /\ Faithful(tree, d2, {entry.name})
                /\ Is(tree, Append(d.path, entry.name), entry.kind)
    <3>1. d.real = d.path
      BY <2>12 DEF Faithful
    <3>2. NamesIn(tree, d.path) \subseteq d.due
      BY <2>2, <2>12 DEF Faithful
    <3>3. ASSUME NEW n \in d.due PROVE n \in d2.due \cup {f.name : f \in d2.entries} \cup {name}
      BY <2>6, <2>8
    <3>4. \A f \in d2.entries : Is(tree, Append(d2.path, f.name), f.kind)
                                /\ f.name \notin {entry.name}
      BY <2>5, <2>6, <2>9, <3>1
    <3>5. Is(tree, d2.path, "directory") /\ d2.real = d2.path
      BY <2>6, <2>12 DEF Faithful
    <3>6. NamesIn(tree, d2.path) \subseteq
             d2.due \cup {f.name : f \in d2.entries} \cup {entry.name}
      BY <2>6, <2>9, <3>2, <3>3
    <3>7. Faithful(tree, d2, {entry.name})
      BY <3>4, <3>5, <3>6, Zenon DEF Faithful
    <3>8. Is(tree, Append(d.path, entry.name), entry.kind)
      BY <2>9, <3>1
    <3> QED BY <3>7, <3>8
  <2>13. /\ L = Len(stack[r]) /\ d = stack[r][L] /\ Calls(r, "read") /\ Handle(r, d, entry)
         /\ UNCHANGED <<tree, outcome, excused, level, base>>
    BY <1>1, <1>4, <2>2, <2>9
  <2>14. Faithful(tree, d, {}) =>
            /\ Faithful(tree, d2, {entry.name})
            /\ Is(tree, Append(d.path, entry.name), entry.kind)
    BY <2>12
  <2> HIDE DEF L
  <2> QED BY <2>6, <2>7, <2>9, <2>10, <2>11, <2>13, <2>14, HandleStep, Zenon
<1>10. CASE /\ AtEnd(d)
            /\ stack' = [stack EXCEPT ![r] = Front(@)]
            /\ Go(r, "rmdir", d.path)
            /\ UNCHANGED <<tree, outcome, excused>>
  BY <1>1, <1>4, <1>10, AtEndStep
<1>11. CASE d.entries = {} /\ Refused(r) /\ Fails(r)
  BY <1>3, <1>11, FailsStep DEF Refused
<1> QED BY <1>2, <1>8, <1>9, <1>10, <1>11

-----------------------------------------------------------------------------
(* The steps of removals: removing.                                         *)

LEMMA ForgetStack ==
  ASSUME LocalTypes, NEW p \in Paths, Resolve(p) \notin DOMAIN tree', stack' = Forget(stack, p)
  PROVE  /\ stack' \in [Remover -> Seq(Dir)]
         /\ \A s \in Remover : SameStack(tree', stack[s], stack'[s])
<1> DEFINE n == Last(p)
<1>1. ASSUME NEW s \in Remover
      PROVE  stack'[s] \in Seq(Dir) /\ SameStack(tree', stack[s], stack'[s])
  <2> DEFINE old == stack[s]
             new == [i \in DOMAIN old |-> IF Append(old[i].real, n) = Resolve(p)
                                          THEN [old[i] EXCEPT !.due = @ \ {n}]
                                          ELSE old[i]]
             m == Len(old)
  <2>1. stack'[s] = new
    BY DEF Forget
  <2>2. old \in Seq(Dir) /\ m \in Nat /\ DOMAIN old = 1 .. m
    BY LocalFacts, LenProperties
  <2>3. ASSUME NEW i \in 1 .. m PROVE new[i] \in Dir /\ SameDir(tree', old[i], new[i])
    <3> DEFINE d == old[i]
               e == new[i]
    <3>1. d \in Dir
      BY <2>2, ElementOfSeq
    <3>2. e = IF Append(d.real, n) = Resolve(p) THEN [d EXCEPT !.due = @ \ {n}] ELSE d
      BY <2>2
    <3> HIDE DEF d, e, n
    <3>3. CASE Append(d.real, n) = Resolve(p)
      <4>1. e = [d EXCEPT !.due = @ \ {n}]
        BY <3>2, <3>3
      <4>2. /\ e \in Dir /\ e.path = d.path /\ e.real = d.real /\ e.listed = d.listed
            /\ e.entries = d.entries /\ e.due = d.due \ {n}
        BY <3>1, <4>1 DEF Dir
      <4>3. \A name \in d.due : Append(d.real, name) \in DOMAIN tree' => name \in e.due
        BY <3>3, <4>2
      <4> QED BY <4>2, <4>3 DEF SameDir, d, e
    <3>4. CASE Append(d.real, n) # Resolve(p)
      <4>1. e = d
        BY <3>2, <3>4
      <4> QED BY <3>1, <4>1 DEF SameDir, d, e
    <3> QED BY <3>3, <3>4
  <2>4. DOMAIN new = 1 .. m
    BY <2>2
  <2> HIDE DEF new
  <2>5. new = [i \in 1 .. m |-> new[i]]
    BY <2>4 DEF new
  <2>6. new \in [1 .. m -> Dir]
    BY <2>3, <2>5
  <2>7. new \in Seq(Dir) /\ Len(new) = m
    BY <2>2, <2>6
  <2> QED BY <2>1, <2>3, <2>7 DEF SameStack
<1>2. stack' = [s \in Remover |-> stack'[s]]
  BY DEF Forget
<1> QED BY <1>1, <1>2

\* What lies below a directory without names is the directory.
LEMMA NothingBelow ==
  ASSUME NEW t, TreeIn(t), NEW a \in Paths, NEW y \in DOMAIN t, Below(y, a), y # a
  PROVE  Is(t, a, "directory") /\ NamesIn(t, a) # {}
<1> DEFINE n == Len(a)
           m == Len(y)
           z == SubSeq(y, 1, n + 1)
<1>1. /\ y \in Seq(Name) /\ m \in Nat \ {0}
      /\ a \in Seq(Name) /\ n \in Nat \ {0}
  BY DomainPaths, FrontPath DEF Paths
<1>2. n <= m /\ SubSeq(y, 1, n) = a
  BY <1>1, BelowIs
<1>3. n # m
  BY <1>1, <1>2, PrefixFull
<1>4. n \in 1 .. m - 1 /\ n + 1 \in 0 .. m /\ n \in 0 .. n + 1 /\ n + 1 - 1 = n
  BY <1>1, <1>2, <1>3
<1>5. Is(t, a, "directory")
  BY <1>2, <1>4, Ancestors
<1>6. z \in DOMAIN t
  <2>1. CASE n + 1 = m
    BY <1>1, <2>1, PrefixFull
  <2>2. CASE n + 1 # m
    <3>1. n + 1 \in 1 .. m - 1
      BY <1>1, <1>4, <2>2
    <3> QED BY <3>1, Ancestors DEF Is
  <2> QED BY <2>1, <2>2
<1>7. Len(z) = n + 1 /\ SubSeq(z, 1, n) = a
  BY <1>1, <1>2, <1>4, PrefixProperties, PrefixOfPrefix
<1> HIDE DEF z
<1>8. z \in Paths
  BY <1>6, DomainPaths
<1>9. Front(z) = a
  BY <1>4, <1>7, <1>8, FrontPath
<1>10. Last(z) \in Name /\ Append(a, Last(z)) = z
  BY <1>8, <1>9, FrontPath
<1> QED BY <1>5, <1>6, <1>10 DEF NamesIn

\* A removal of what r has come to, and the loop above it goes on.
LEMMA RemovesStep ==
  ASSUME IInv, NEW r \in Remover, outcome[r] = "none", NEW p, p = target[r],
         \/ stage[r] = "unlink" /\ Unlinkable(p)
         \/ stage[r] = "rmdir" /\ EmptyDirectory(p),
         Removes(r, p), Go(r, "read", p),
         outcome' = [outcome EXCEPT ![r] = IF stack[r] = <<>> THEN "ok" ELSE @],
         UNCHANGED <<level, base>>
  PROVE  IInv' /\ TreeStep(r)
<1> DEFINE q == Resolve(p)
           L == Len(stack[r])
<1>1. /\ TreeIn(tree) /\ LocalTypes /\ Due(r) /\ Stacked(r) /\ Straight(r) /\ Based(r) /\ Whole(r)
      /\ r \in Task /\ excused \subseteq Task /\ LevelsIn
  BY DEF IInv, Removing, LocalTypes, Task, Creating, LevelsIn
<1>2. /\ p \in Paths /\ p \in Seq(Name) /\ stack[r] \in Seq(Dir) /\ L \in Nat
      /\ (stack[r] = <<>> <=> L = 0)
      /\ At[r] \in Paths /\ At[r] \in Seq(Name) /\ Len(At[r]) \in Nat
  BY <1>1, LocalFacts, PathTypes
<1>3. stage[r] \in {"unlink", "rmdir"} /\ Settled(r) /\ Going(r)
  BY DEF Settled, Going
<1>4. Shrunk(tree, tree', q)
  BY <1>1, <1>2, RemovedShrinks DEF Removes
<1>5. PICK s \in Remover : Settled(s) /\ Below(q, base[s])
  BY <1>3, RemovalPlace
<1>6. TreeStep(r)
  BY <1>1, <1>2, <1>4, <1>5, ShrunkStep DEF Removes
<1>7. /\ q \notin DOMAIN tree' /\ stack' = Forget(stack, p)
      /\ excused' = excused \cup (InTheWay(p) \ {r}) \cup Undermines(p)
  BY <1>4 DEF Removes, Shrunk
<1>8. stack' \in [Remover -> Seq(Dir)] /\ \A x \in Remover : SameStack(tree', stack[x], stack'[x])
  BY <1>1, <1>2, <1>7, ForgetStack
<1>9. excused' \subseteq Task
  BY <1>1, <1>7 DEF InTheWay, Undermines, Task
<1> HIDE DEF q
<1>10. /\ stage' \in [Remover -> {"open", "read", "unlink", "rmdir"}]
       /\ target' \in [Remover -> Paths] /\ stage'[r] = "read" /\ target'[r] = target[r]
       /\ \A x \in Remover \ {r} : stage'[x] = stage[x] /\ target'[x] = target[x]
  BY <1>1, <1>2, GoTypes
<1>11. /\ outcome' \in [Task -> {"none", "ok", "failed"}]
       /\ outcome'[r] = IF L = 0 THEN "ok" ELSE "none"
       /\ \A x \in Task \ {r} : outcome'[x] = outcome[x]
  BY <1>1, <1>2 DEF LocalTypes
<1>12. level' = level /\ base' = base
  OBVIOUS
<1>13. LocalTypes'
  BY <1>1, <1>8, <1>9, <1>10, <1>11, <1>12 DEF LocalTypes
<1>14. \A x \in Remover \ {r} : x \in Task \ {r}
  BY DEF Task
<1>15. \A x \in Remover \ {r} : Kept(x)
  BY <1>8, <1>10, <1>11, <1>12, <1>14 DEF Kept
<1>16. \A x \in Remover : stack'[x] = <<>> <=> stack[x] = <<>>
  <2> TAKE x \in Remover
  <2>1. stack'[x] \in Seq(Dir) /\ stack[x] \in Seq(Dir) /\ Len(stack'[x]) = Len(stack[x])
    BY <1>1, <1>8 DEF LocalTypes, SameStack
  <2> QED BY <2>1, EmptySeq
<1>17. Settled(r)'
  BY <1>10 DEF Settled
<1>18. Steady
  <2>1. ASSUME NEW x \in Remover, Settled(x) PROVE Settled(x)'
    <3>1. CASE x = r
      BY <1>17, <3>1
    <3>2. CASE x # r
      BY <1>10, <1>11, <1>14, <1>16, <2>1, <3>2 DEF Settled
    <3> QED BY <3>1, <3>2
  <2> QED BY <1>12, <2>1 DEF Steady
<1>19. \A c \in Creator : outcome'[c] = outcome[c]
  <2>1. \A c \in Creator : c \in Task \ {r}
    BY TreeAssumption DEF Task
  <2> QED BY <1>11, <2>1
<1>20. /\ Len(stack'[r]) = L /\ \A i \in 1 .. L : SameDir(tree', stack[r][i], stack'[r][i])
       /\ \A i \in 1 .. L : stack'[r][i].path = stack[r][i].path
  BY <1>8 DEF SameStack, SameDir
<1>21. Due(r)'
  <2>1. \A i \in 1 .. L : stack'[r][i].due \cap stack'[r][i].listed = {}
    BY <1>1, <1>20 DEF Due, SameDir
  <2> QED BY <1>20, <2>1 DEF Due
<1>22. Stacked(r)'
  <2>1. Below(target'[r], At[r])
    BY <1>1, <1>10 DEF Stacked
  <2>2. \A i \in 1 .. L : Below(stack'[r][i].path, At[r])
                          /\ Len(stack'[r][i].path) = Len(At[r]) + (i - 1)
    BY <1>1, <1>20 DEF Stacked
  <2>3. \A i \in 1 .. L - 1 : stack'[r][i].path = Front(stack'[r][i + 1].path)
    <3>1. \A i \in 1 .. L - 1 : i \in 1 .. L /\ i + 1 \in 1 .. L
      BY <1>2
    <3>2. \A i \in 1 .. L - 1 : stack[r][i].path = Front(stack[r][i + 1].path)
      BY <1>1 DEF Stacked
    <3> QED BY <1>20, <3>1, <3>2
  <2>4. ASSUME stack'[r] # <<>> PROVE stack'[r][1].path = At[r]
    <3>1. 1 \in 1 .. L /\ stack[r] # <<>>
      BY <1>2, <1>16, <2>4
    <3> QED BY <1>1, <1>20, <3>1 DEF Stacked
  <2>5. outcome'[r] = "none" => stack'[r] # <<>>
    BY <1>2, <1>11, <1>16
  <2> QED BY <1>10, <1>20, <2>1, <2>2, <2>3, <2>4, <2>5 DEF Stacked
<1>23. Straight(r)'
  <2>1. ASSUME NEW i \in 1 .. L
        PROVE  NoLink(tree', stack'[r][i].path, r) /\ Real(tree', stack'[r][i])
    <3>1. NoLink(tree, stack[r][i].path, r) /\ Real(tree, stack[r][i])
      BY <1>1 DEF Straight
    <3>2. NoLink(tree', stack'[r][i].path, r)
      BY <1>6, <1>20, <3>1, NoLinkKept
    <3>3. Real(tree', stack'[r][i])
      BY <1>6, <1>20, <3>1, RealKept DEF SameDir
    <3> QED BY <3>2, <3>3
  <2> QED BY <1>10, <1>20, <2>1 DEF Straight
<1>24. Based(r)'
  <2>1. Began(r)
    BY <1>1, <1>3 DEF Based
  <2>2. Began(r)'
    BY <1>3, <1>6, <1>18, <2>1, BeganKept
  <2> QED BY <2>2 DEF Based
<1>25. ASSUME r \notin excused', L = 0
       PROVE  \A y \in DOMAIN tree' : ~Below(y, At[r])
  <2>1. p = At[r] /\ stage[r] = "rmdir"
    BY <1>1, <1>2, <1>3, <1>25 DEF Stacked
  <2>2. EmptyDirectory(p)
    BY <2>1
  <2> SUFFICES ASSUME NEW y \in DOMAIN tree', Below(y, p) PROVE FALSE
    BY <2>1
  <2>3. y \in DOMAIN tree /\ y # q
    BY <1>4 DEF Shrunk
  <2>4. y # p
    <3> SUFFICES ASSUME y = p PROVE FALSE
      OBVIOUS
    <3>1. Found(tree, p) = p
      BY <1>1, <2>3, FoundExisting
    <3> QED BY <2>3, <3>1, Lookup DEF q
  <2>5. Is(tree, p, "directory") /\ NamesIn(tree, p) # {}
    BY <1>1, <1>2, <2>3, <2>4, NothingBelow
  <2>6. Resolve(p) = p
    BY <1>1, <2>5, DirectoryFound
  <2>7. Names(p) = {}
    BY <2>2, <2>6 DEF EmptyDirectory
  <2> QED BY <1>1, <1>2, <2>5, <2>7, NamesAre
<1>26. ASSUME r \notin excused', L # 0, Regular(r)
       PROVE  Regular(r)'
  <2>1. q = p
    <3>1. p \in DOMAIN tree
      BY <1>3, <1>26 DEF Regular, Is
    <3>2. Found(tree, p) = p
      BY <1>1, <3>1, FoundExisting
    <3> QED BY <3>2, Lookup DEF q
  <2>2. L \in 1 .. L /\ Front(p) = stack[r][L].path
    <3>1. L \in 1 .. L /\ stack[r] # <<>>
      BY <1>2, <1>26
    <3> QED BY <1>1, <1>3, <3>1 DEF Stacked, Last
  <2>3. /\ Len(p) = Len(At[r]) + L /\ Last(p) \in Name
        /\ Append(Front(p), Last(p)) = p
    <3>1. Len(Front(p)) = Len(p) - 1 /\ Len(p) \in Nat /\ Last(p) \in Name
          /\ Append(Front(p), Last(p)) = p
      BY <1>2, FrontPath
    <3>2. Len(Front(p)) = Len(At[r]) + (L - 1)
      BY <1>1, <2>2 DEF Stacked
    <3>3. Len(p) - 1 = Len(At[r]) + (L - 1)
      BY <3>1, <3>2
    <3>4. \A a, b, c \in Int : a - 1 = b + (c - 1) => a = b + c
      OBVIOUS
    <3>5. Len(p) \in Int /\ Len(At[r]) \in Int /\ L \in Int
      BY <1>2, <3>1
    <3> QED BY <3>1, <3>3, <3>4, <3>5
  <2>4. /\ TreeIn(tree')
        /\ \A y, kind : Is(tree', y, kind) <=> y # p /\ Is(tree, y, kind)
        /\ DOMAIN tree' \subseteq DOMAIN tree
    BY <1>1, <1>4, <2>1, ShrunkTree
  <2>5. ASSUME NEW i \in 1 .. L PROVE Faithful(tree', stack'[r][i], Current(r, i)')
    <3> DEFINE d == stack[r][i]
               e == stack'[r][i]
               old == Current(r, i)
               new == IF i < L THEN old ELSE {}
    <3>1. Current(r, i)' = new
      <4>1. CASE i < L
        <5>1. i + 1 \in 1 .. L
          BY <1>2, <4>1
        <5> QED BY <1>20, <4>1, <5>1 DEF Current
      <4>2. CASE ~(i < L)
        BY <1>10, <1>20, <4>2 DEF Current
      <4> QED BY <4>1, <4>2
    <3>2. Faithful(tree, d, old)
      BY <1>26 DEF Regular
    <3>3. SameDir(tree', d, e)
      BY <1>20
    <3>4. /\ d.path \in Seq(Name) /\ Len(d.path) = Len(At[r]) + (i - 1)
          /\ d.entries \subseteq EntryType
      BY <1>1, LocalFacts DEF Stacked, Dir
    <3>5. i = L => d.path = Front(p) /\ old = {Last(p)}
      <4>1. ASSUME i = L PROVE old = {Last(p)}
        <5>1. ~(i < L)
          BY <1>2, <4>1
        <5> QED BY <1>3, <5>1 DEF Current
      <4> QED BY <2>2, <4>1
    <3> HIDE DEF d, e, old
    <3>6. \A n \in Name : /\ Append(d.path, n) \in Paths
                          /\ Len(Append(d.path, n)) = Len(At[r]) + i
                          /\ Last(Append(d.path, n)) = n
      <4>1. \A n \in Name : /\ Append(d.path, n) \in Paths
                            /\ Len(Append(d.path, n)) = Len(d.path) + 1
                            /\ Last(Append(d.path, n)) = n
        BY <3>4, AppendPath
      <4>2. Len(d.path) + 1 = Len(At[r]) + i
        BY <1>2, <3>4
      <4> QED BY <4>1, <4>2
    <3>7. i \in Int /\ L \in Int /\ Len(At[r]) \in Int /\ i <= L
      BY <1>2
    <3>8. \A a, b, c \in Int : b <= c => a + (b - 1) # a + c
      OBVIOUS
    <3>9. \A a, b, c \in Int : b # c => a + b # a + c
      OBVIOUS
    <3> HIDE DEF L
    <3>10. d.path # p
      <4>1. Len(d.path) # Len(p)
        BY <2>3, <3>4, <3>7, <3>8
      <4> QED BY <4>1
    <3>11. Is(tree', d.path, "directory")
      BY <2>4, <3>2, <3>10 DEF Faithful
    <3>12. ASSUME NEW f \in d.entries, Is(tree, Append(d.path, f.name), f.kind)
          PROVE  Is(tree', Append(d.path, f.name), f.kind)
      <4>1. f.name \in Name /\ f.name \notin old
        BY <3>2, <3>4 DEF Faithful, EntryType
      <4>2. Append(d.path, f.name) # p
        <5>1. CASE i = L
          BY <3>5, <3>6, <4>1, <5>1
        <5>2. CASE i # L
          <6>1. Len(Append(d.path, f.name)) = Len(At[r]) + i
            BY <3>6, <4>1
          <6>2. Len(Append(d.path, f.name)) # Len(p)
            BY <2>3, <3>7, <3>9, <5>2, <6>1
          <6> QED BY <6>2
        <5> QED BY <5>1, <5>2
      <4> QED BY <2>4, <3>12, <4>2
    <3>13. new \subseteq old /\ \A n \in old \ new : Append(d.path, n) \notin DOMAIN tree'
      <4>1. CASE i < L
        BY <4>1
      <4>2. CASE ~(i < L)
        <5>1. i = L
          BY <1>2, <4>2
        <5>2. Append(d.path, Last(p)) \notin DOMAIN tree'
          BY <1>7, <2>1, <2>3, <3>5, <5>1
        <5> QED BY <3>5, <4>2, <5>1, <5>2
      <4> QED BY <4>1, <4>2
    <3>14. \A n \in Name : Append(d.path, n) \in DOMAIN tree' => Append(d.path, n) \in DOMAIN tree
      BY <2>4
    <3> HIDE DEF new
    <3>15. Faithful(tree', e, new)
      BY <3>2, <3>3, <3>11, <3>12, <3>13, <3>14, FaithfulKept
    <3> QED BY <3>1, <3>15 DEF e
  <2> QED BY <1>10, <1>20, <2>5 DEF Regular
<1>27. Whole(r)'
  <2>1. SUFFICES ASSUME r \notin excused'
                 PROVE  /\ Going(r)' => Astray(r)' \/ Regular(r)'
                        /\ outcome'[r] = "ok" => \A y \in DOMAIN tree' : ~Below(y, At[r])
                        /\ outcome'[r] = "failed" => ~Is(tree', At[r], "directory")
    BY DEF Whole
  <2>2. r \notin excused
    BY <1>6, <2>1 DEF TreeStep
  <2>3. Astray(r) \/ Regular(r)
    BY <1>1, <1>3, <2>2 DEF Whole
  <2>4. Astray(r) => Astray(r)'
    BY <1>6, <2>1, AstrayKept
  <2>5. Going(r)' => L # 0
    BY <1>11 DEF Going
  <2>6. Going(r)' => Astray(r)' \/ Regular(r)'
    BY <1>26, <2>1, <2>3, <2>4, <2>5
  <2>7. outcome'[r] = "ok" => L = 0
    BY <1>11
  <2>8. outcome'[r] # "failed"
    BY <1>11
  <2> QED BY <1>25, <2>1, <2>6, <2>7, <2>8
<1>28. Removing(r)'
  BY <1>21, <1>22, <1>23, <1>24, <1>27 DEF Removing
<1> QED BY <1>6, <1>12, <1>13, <1>15, <1>18, <1>19, <1>28, RemoverStep

LEMMA UnlinkStep ==
  ASSUME IInv, NEW r \in Remover, unlink(r)
  PROVE  IInv' /\ TreeStep(r)
<1> DEFINE p == target[r]
<1>1. /\ TreeIn(tree) /\ LocalTypes /\ Stacked(r) /\ Whole(r) /\ excused \subseteq Task
      /\ outcome[r] = "none" /\ stage[r] = "unlink" /\ r \in Task
  BY DEF IInv, Removing, LocalTypes, unlink, Calls, Task
<1>2. CASE Unlinkable(p) /\ Removes(r, p) /\ Go(r, "read", p) /\ UNCHANGED <<outcome, level, base>>
  <2>1. stack[r] # <<>>
    BY <1>1 DEF Stacked
  <2>2. outcome' = [outcome EXCEPT ![r] = IF stack[r] = <<>> THEN "ok" ELSE @]
    BY <1>1, <1>2, <2>1 DEF LocalTypes
  <2> QED BY <1>1, <1>2, <2>2, RemovesStep
<1>3. CASE ~Unlinkable(p) /\ Fails(r) /\ UNCHANGED <<tree, excused>>
  <2>1. ~Regular(r)
    <3> SUFFICES ASSUME Regular(r) PROVE FALSE
      OBVIOUS
    <3>1. p \in DOMAIN tree /\ ~Is(tree, p, "directory")
      BY <1>1 DEF Regular
    <3>2. Found(tree, p) = p
      BY <1>1, <3>1, FoundExisting
    <3> QED BY <1>3, <3>1, <3>2, Lookup DEF Unlinkable
  <2>2. r \notin excused => ~Is(tree, At[r], "directory")
    BY <1>1, <2>1 DEF Whole, Going, Settled, Astray
  <2>3. tree' = tree /\ excused' = excused
    BY <1>3
  <2> QED BY <1>1, <1>3, <2>2, <2>3, FailsStep
<1>4. CASE Refused(r) /\ Fails(r)
  BY <1>1, <1>4, FailsStep DEF Refused
<1> QED BY <1>2, <1>3, <1>4, Zenon DEF unlink

LEMMA RmdirStep ==
  ASSUME IInv, NEW r \in Remover, rmdir(r)
  PROVE  IInv' /\ TreeStep(r)
<1> DEFINE p == target[r]
<1>1. /\ TreeIn(tree) /\ LocalTypes /\ Stacked(r) /\ Whole(r) /\ excused \subseteq Task
      /\ outcome[r] = "none" /\ stage[r] = "rmdir" /\ r \in Task /\ p \in Seq(Name)
  BY LocalFacts DEF IInv, Removing, LocalTypes, rmdir, Calls, Task
<1>2. CASE /\ EmptyDirectory(p)
           /\ Removes(r, p)
           /\ Go(r, "read", p)
           /\ outcome' = [outcome EXCEPT ![r] = IF stack[r] = <<>> THEN "ok" ELSE @]
           /\ UNCHANGED <<level, base>>
  BY <1>1, <1>2, RemovesStep
<1>3. CASE ~EmptyDirectory(p) /\ Fails(r) /\ UNCHANGED <<tree, excused>>
  <2>1. ~Regular(r)
    <3> SUFFICES ASSUME Regular(r) PROVE FALSE
      OBVIOUS
    <3>1. Is(tree, p, "directory") /\ NamesIn(tree, p) = {}
      BY <1>1 DEF Regular
    <3>2. Resolve(p) = p
      BY <1>1, <3>1, DirectoryFound
    <3>3. Names(p) = {}
      BY <1>1, <3>1, NamesAre
    <3> QED BY <1>3, <3>1, <3>2, <3>3, Lookup DEF EmptyDirectory
  <2>2. r \notin excused => ~Is(tree, At[r], "directory")
    BY <1>1, <2>1 DEF Whole, Going, Settled, Astray
  <2>3. tree' = tree /\ excused' = excused
    BY <1>3
  <2> QED BY <1>1, <1>3, <2>2, <2>3, FailsStep
<1>4. CASE Refused(r) /\ Fails(r)
  BY <1>1, <1>4, FailsStep DEF Refused
<1> QED BY <1>2, <1>3, <1>4, Zenon DEF rmdir

-----------------------------------------------------------------------------
(* The invariant.                                                           *)

LEMMA Initially == Init => IInv
<1> SUFFICES ASSUME Init PROVE IInv
  OBVIOUS
<1>1. /\ outcome = [x \in Task |-> "none"]
      /\ level = [c \in Creator |-> 0]
      /\ stage = [r \in Remover |-> "open"]
      /\ target = [r \in Remover |-> At[r]]
      /\ stack = [r \in Remover |-> <<>>]
      /\ base = [r \in Remover |-> At[r]]
      /\ excused = {}
  BY DEF Init
<1>2. TreeIn(tree)
  <2>1. PICK paths \in SUBSET Path : tree \in [paths -> Kind]
    BY DEF Init
  <2>2. WellFormed(tree)
    BY DEF Init
  <2> QED BY <2>1, <2>2 DEF TreeIn
<1>3. /\ \A x \in Task : /\ At[x] \in Path /\ At[x] \in Paths /\ At[x] \in Seq(Name)
                         /\ Len(At[x]) \in Nat \ {0}
      /\ Creator \subseteq Task /\ Remover \subseteq Task
  BY PathTypes DEF Task
<1>4. <<>> \in Seq(Dir)
  BY EmptySeq
<1>5. LocalTypes
  BY <1>1, <1>3, <1>4 DEF LocalTypes
<1>6. \A c \in Creator : Creating(c)
  BY <1>1, <1>3 DEF Creating
<1>7. ASSUME NEW r \in Remover PROVE Removing(r)
  <2>1. /\ outcome[r] = "none" /\ stage[r] = "open" /\ target[r] = At[r]
        /\ stack[r] = <<>> /\ Len(stack[r]) = 0 /\ r \in Task
    BY <1>1, <1>3, EmptySeq
  <2>2. Below(At[r], At[r])
    BY <1>3, <2>1, BelowReflexive
  <2>3. Due(r) /\ Based(r) /\ Whole(r)
    BY <2>1 DEF Due, Based, Whole, Going, Settled
  <2>4. Stacked(r)
    BY <2>1, <2>2 DEF Stacked
  <2>5. NoLink(tree, target[r], r)
    <3>1. Len(At[r]) \in Nat
      BY <1>3, <2>1
    <3> QED BY <2>1, <3>1 DEF NoLink
  <2>6. Straight(r)
    BY <2>1, <2>5 DEF Straight
  <2> QED BY <2>3, <2>4, <2>6 DEF Removing
<1> QED BY <1>2, <1>5, <1>6, <1>7 DEF IInv

LEMMA Stutter ==
  ASSUME IInv, UNCHANGED vars
  PROVE  IInv' /\ DOMAIN tree' = DOMAIN tree
<1>1. /\ tree' = tree /\ outcome' = outcome /\ excused' = excused /\ level' = level
      /\ UNCHANGED <<stage, target, stack, base>>
  BY DEF vars, progress
<1>2. TreeIn(tree) /\ LocalTypes
  BY DEF IInv
<1>3. \A x : TreeStep(x)
  BY <1>1, <1>2, SameTree
<1>4. LocalTypes'
  BY <1>1, <1>2 DEF LocalTypes
<1>5. \A r \in Remover : Removing(r)'
  BY <1>1, <1>3, <1>4, RemoversIdle
<1>6. \A c \in Creator : Creating(c)'
  BY <1>1, <1>3, KeptCreating
<1> QED BY <1>1, <1>2, <1>4, <1>5, <1>6 DEF IInv

\* What a step of the program removes lies where some removal began.
LEMMA Step ==
  ASSUME IInv, [Next]_vars
  PROVE  /\ IInv'
         /\ \A p \in DOMAIN tree \ DOMAIN tree' : \E r \in Remover : Below(p, base[r])
<1>1. ASSUME NEW x, IInv' /\ TreeStep(x)
      PROVE  /\ IInv'
             /\ \A p \in DOMAIN tree \ DOMAIN tree' : \E r \in Remover : Below(p, base[r])
  BY <1>1 DEF TreeStep
<1>2. ASSUME NEW c \in Creator, createDirectory(c) PROVE IInv' /\ TreeStep(c)
  BY <1>2, CreateStep
<1>3. ASSUME NEW r \in Remover, openDirectory(r) PROVE IInv' /\ TreeStep(r)
  BY <1>3, OpenStep
<1>4. ASSUME NEW r \in Remover, readDirectory(r) PROVE IInv' /\ TreeStep(r)
  BY <1>4, ReadStep
<1>5. ASSUME NEW r \in Remover, unlink(r) PROVE IInv' /\ TreeStep(r)
  BY <1>5, UnlinkStep
<1>6. ASSUME NEW r \in Remover, rmdir(r) PROVE IInv' /\ TreeStep(r)
  BY <1>6, RmdirStep
<1>7. ASSUME NEW p \in Path, Upload(p) PROVE IInv' /\ TreeStep(p)
  BY <1>7, UploadStep
<1>8. CASE UNCHANGED vars
  BY <1>8, Stutter
<1>9. \/ \E c \in Creator : createDirectory(c)
      \/ \E r \in Remover : openDirectory(r)
      \/ \E r \in Remover : readDirectory(r)
      \/ \E r \in Remover : unlink(r)
      \/ \E r \in Remover : rmdir(r)
      \/ \E p \in Path : Upload(p)
      \/ UNCHANGED vars
  BY Zenon DEF Next
<1>10. CASE \E c \in Creator : createDirectory(c)
  BY <1>1, <1>2, <1>10
<1>11. CASE \E r \in Remover : openDirectory(r)
  BY <1>1, <1>3, <1>11
<1>12. CASE \E r \in Remover : readDirectory(r)
  BY <1>1, <1>4, <1>12
<1>13. CASE \E r \in Remover : unlink(r)
  BY <1>1, <1>5, <1>13
<1>14. CASE \E r \in Remover : rmdir(r)
  BY <1>1, <1>6, <1>14
<1>15. CASE \E p \in Path : Upload(p)
  BY <1>1, <1>7, <1>15
<1> QED BY <1>8, <1>9, <1>10, <1>11, <1>12, <1>13, <1>14, <1>15

\* The invariant holds in every state of every behaviour.
LEMMA Invariance == Spec => []IInv
<1>1. Init => IInv
  BY Initially
<1>2. IInv /\ [Next]_vars => IInv'
  BY Step
<1> QED BY <1>1, <1>2, PTL DEF Spec

-----------------------------------------------------------------------------
(* What follows from it.                                                    *)

\* The tree stays one, and what the calls keep about it has its type: the
\* directories of a removal lie below what it was given, and no name that is
\* still due was listed (SFTPClient.swift:22-54).
THEOREM RemoteTypeCorrect == Spec => []TypeOK
<1>1. IInv => TypeOK
  <2> SUFFICES ASSUME IInv PROVE TypeOK
    OBVIOUS
  <2>1. TreeIn(tree) /\ LocalTypes
    BY DEF IInv
  <2>2. ASSUME NEW c \in Creator PROVE level[c] \in 0 .. Len(At[c])
    <3>1. level[c] \in Nat /\ level[c] <= Len(At[c]) /\ Len(At[c]) \in Nat
      BY <2>1, PathTypes DEF IInv, LocalTypes, Creating, Task
    <3> QED BY <3>1
  <2>3. ASSUME NEW r \in Remover, NEW i \in DOMAIN stack[r]
        PROVE  Below(stack[r][i].path, At[r]) /\ stack[r][i].due \cap stack[r][i].listed = {}
    <3>1. i \in 1 .. Len(stack[r])
      BY <2>1, LocalFacts, LenProperties
    <3> QED BY <3>1 DEF IInv, Removing, Stacked, Due
  <2> QED BY <2>1, <2>2, <2>3 DEF TypeOK, TreeIn, LocalTypes
<1> QED BY <1>1, Invariance, PTL

\* Whatever the others do, a creation that returns has found or made every
\* prefix of its path, and they are there until a removal takes one
\* (SFTPClient.swift:22-35).
THEOREM CreatedDirectoriesExist == Spec => []CreatedExists
<1>1. IInv => CreatedExists
  BY Lookup DEF IInv, Creating, CreatedExists
<1> QED BY <1>1, Invariance, PTL

\* However the server splits its listings and whatever the links, a removal
\* that nobody gets in the way of leaves nothing if it returns, and was given
\* no directory if it throws (SFTPClient.swift:41-54).
THEOREM UndisturbedRemovalsAreWhole == Spec => []UndisturbedRemovalIsWhole
<1>1. IInv => UndisturbedRemovalIsWhole
  BY Lookup DEF IInv, Removing, Whole, UndisturbedRemovalIsWhole
<1> QED BY <1>1, Invariance, PTL

\* No step takes anything that lies outside the directory a removal began in:
\* links found on the way are removed and not followed, whatever others do to
\* the tree in between (SFTPClient.swift:41-54).
THEOREM RemovalsStayBelow == Spec => RemovesOnlyBelow
<1>1. IInv /\ [Next]_vars =>
        [\A p \in DOMAIN tree \ DOMAIN tree' : \E r \in Remover : Below(p, base[r])]_vars
  BY Step
<1> QED BY <1>1, Invariance, PTL DEF Spec, RemovesOnlyBelow

=============================================================================
