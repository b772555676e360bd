------------------------- MODULE SFTPTransferProofs -------------------------
(***************************************************************************)
(* Proofs about SFTPTransfer, for every set of transfers, every file and   *)
(* every window.                                                           *)
(*                                                                         *)
(* The argument: the requests in a transfer's queue ask for one stretch of *)
(* its file, which ends at libssh's offset (QueueInv); every answer, in the*)
(* socket or taken from it, says what was there to read or was stored      *)
(* (Accurate); so that what lies before the oldest request is delivered or *)
(* stored (ReaderInv, WriterInv).  The window, what the server owes, and   *)
(* what is under way never exceed the server's window (WindowInv).         *)
(***************************************************************************)
EXTENDS SFTPTransfer, SequenceTheorems, WellFoundedInduction, TLAPS

-----------------------------------------------------------------------------
(* Sums, which Total computes by recursion over a sequence.                 *)

\* A set of naturals that is not empty has a least element.
LEMMA Least ==
  ASSUME NEW T \in SUBSET Nat, T # {}
  PROVE  \E x \in T : \A y \in T : x <= y
<1> DEFINE R == {ss \in Nat \X Nat : ss[1] < ss[2]}
<1>1. IsWellFoundedOn(R, Nat)
  <2>1. OpToRel(<, Nat) = R BY Zenon DEF OpToRel
  <2> QED BY <2>1, NatLessThanWellFounded
<1>2. \A x, y \in Nat : x < y => <<x, y>> \in R
  OBVIOUS
<1> HIDE DEF R
<1>3. PICK x \in T : \A y \in T : ~(<<y, x>> \in R)
  BY <1>1, WFMin, Zenon
<1>4. \A y \in T : ~(y < x) BY <1>2, <1>3
<1> QED BY <1>4

\* Induction, for membership in a set.
LEMMA Induction ==
  ASSUME NEW n \in Nat, NEW S, 0 \in S, \A i \in 1..n : i - 1 \in S => i \in S
  PROVE  \A i \in 0..n : i \in S
<1> DEFINE D == {i \in 0..n : i \notin S}
<1>1. SUFFICES ASSUME D # {} PROVE FALSE OBVIOUS
<1>2. PICK x \in D : \A y \in D : x <= y
  <2> D \in SUBSET Nat OBVIOUS
  <2> HIDE DEF D
  <2> QED BY <1>1, Least
<1> QED BY <1>2

\* f holds the sums of first and each number of the amounts.
Tally(f, first, a, n) ==
    f \in [0 .. n -> Int] /\ f[0] = first /\ \A i \in 1 .. n : f[i] = f[i - 1] + a[i]

\* Total is well defined: it is what any tally ends with.
LEMMA TotalOfTally ==
  ASSUME NEW n \in Nat, NEW first, NEW f, NEW a, Tally(f, first, a, n)
  PROVE  Total(first, a, n) = f[n]
<1> DEFINE Body(g) == [i \in 0 .. n |-> IF i = 0 THEN first ELSE g[i - 1] + a[i]]
           total == CHOOSE g : g = Body(g)
           S == {i \in 0 .. n : total[i] = f[i]}
<1>1. Total(first, a, n) = total[n]
  BY DEF Total
<1>2. f = Body(f)
  BY DEF Tally
<1>3. total = Body(total)
  BY <1>2
<1> HIDE DEF total
<1>4. 0 \in S
  BY <1>3 DEF Tally
<1>5. ASSUME NEW i \in 1 .. n, i - 1 \in S PROVE i \in S
  BY <1>3, <1>5 DEF Tally
<1>6. \A i \in 0 .. n : i \in S
  <2> HIDE DEF S
  <2> QED BY <1>4, <1>5, Induction
<1> QED BY <1>1, <1>6

\* Every sequence of integers has a tally.
LEMMA TallyExists ==
  ASSUME NEW n \in Nat, NEW first \in Int, NEW a, \A i \in 1 .. n : a[i] \in Int
  PROVE  \E f : Tally(f, first, a, n)
<1> DEFINE S == {m \in 0 .. n : \E f : Tally(f, first, a, m)}
<1>1. 0 \in S
  <2>1. Tally([i \in 0 .. 0 |-> first], first, a, 0)
    BY DEF Tally
  <2> QED BY <2>1
<1>2. ASSUME NEW m \in 1 .. n, m - 1 \in S PROVE m \in S
  <2>1. PICK f : Tally(f, first, a, m - 1)
    BY <1>2
  <2>2. Tally([i \in 0 .. m |-> IF i = m THEN f[m - 1] + a[m] ELSE f[i]], first, a, m)
    BY <2>1 DEF Tally
  <2> QED BY <2>2
<1>3. n \in S
  <2> HIDE DEF S
  <2> QED BY <1>1, <1>2, Induction
<1> QED BY <1>3

\* What the sum of integers is.
LEMMA TotalProperties ==
  ASSUME NEW n \in Nat, NEW first \in Int, NEW a, \A i \in 1 .. n : a[i] \in Int
  PROVE  /\ \A m \in 0 .. n : Total(first, a, m) \in Int
         /\ Total(first, a, 0) = first
         /\ \A m \in 1 .. n : Total(first, a, m) = Total(first, a, m - 1) + a[m]
<1>1. PICK f : Tally(f, first, a, n)
  BY TallyExists
<1>2. ASSUME NEW m \in 0 .. n PROVE Total(first, a, m) = f[m]
  <2> DEFINE g == [i \in 0 .. m |-> f[i]]
  <2>1. Tally(g, first, a, m)
    BY <1>1 DEF Tally
  <2>2. m \in Nat /\ g[m] = f[m]
    OBVIOUS
  <2> HIDE DEF g
  <2> QED BY <2>1, <2>2, TotalOfTally
<1> QED BY <1>1, <1>2 DEF Tally

\* The first n amounts are integers, and what Total makes of them.
Summands(a, n) == \A i \in 1 .. n : a[i] \in Int

Sums(first, a, n) ==
    /\ \A m \in 0 .. n : Total(first, a, m) \in Int
    /\ Total(first, a, 0) = first
    /\ \A m \in 1 .. n : Total(first, a, m) = Total(first, a, m - 1) + a[m]

LEMMA TotalSums ==
  ASSUME NEW n \in Nat, NEW first \in Int, NEW a, Summands(a, n)
  PROVE  Sums(first, a, n)
<1>1. \A i \in 1 .. n : a[i] \in Int
  BY DEF Summands
<1>2. /\ \A m \in 0 .. n : Total(first, a, m) \in Int
      /\ Total(first, a, 0) = first
      /\ \A m \in 1 .. n : Total(first, a, m) = Total(first, a, m - 1) + a[m]
  BY <1>1, TotalProperties
<1> QED BY <1>2 DEF Sums

\* A sum of naturals grows with their number.
LEMMA TotalMonotone ==
  ASSUME NEW n \in Nat, NEW first \in Int, NEW a, \A i \in 1 .. n : a[i] \in Nat
  PROVE  \A m \in 0 .. n : first <= Total(first, a, m) /\ Total(first, a, m) <= Total(first, a, n)
<1> DEFINE up == {m \in 0 .. n : first <= Total(first, a, m)}
           down == {m \in 0 .. n : Total(first, a, n - m) <= Total(first, a, n)}
<1>0. \A i \in 1 .. n : a[i] \in Int
  OBVIOUS
<1>1. /\ \A m \in 0 .. n : Total(first, a, m) \in Int
      /\ Total(first, a, 0) = first
      /\ \A m \in 1 .. n : Total(first, a, m) = Total(first, a, m - 1) + a[m]
  BY <1>0, TotalProperties
<1>2. \A m \in 0 .. n : m \in up
  <2>1. 0 \in up /\ \A m \in 1 .. n : m - 1 \in up => m \in up
    BY <1>1
  <2> HIDE DEF up
  <2> QED BY <2>1, Induction
<1>3. \A m \in 0 .. n : m \in down
  <2>1. 0 \in down
    BY <1>1
  <2>2. ASSUME NEW m \in 1 .. n, m - 1 \in down PROVE m \in down
    <3>1. Total(first, a, n - m + 1) = Total(first, a, n - m) + a[n - m + 1]
      BY <1>1
    <3>2. n - (m - 1) = n - m + 1 /\ n - m \in 0 .. n /\ n - m + 1 \in 1 .. n
      OBVIOUS
    <3> QED BY <1>1, <2>2, <3>1, <3>2
  <2> HIDE DEF down
  <2> QED BY <2>1, <2>2, Induction
<1>4. ASSUME NEW m \in 0 .. n PROVE Total(first, a, m) <= Total(first, a, n)
  <2>1. n - m \in down /\ n - (n - m) = m
    BY <1>3
  <2> QED BY <2>1
<1> QED BY <1>2, <1>4

\* The sum of one amount more.
LEMMA TotalOfMore ==
  ASSUME NEW n \in Nat, NEW first \in Int, NEW a, NEW b,
         \A i \in 1 .. n + 1 : b[i] \in Int, \A i \in 1 .. n : a[i] = b[i]
  PROVE  Total(first, b, n + 1) = Total(first, a, n) + b[n + 1]
<1>1. PICK f : Tally(f, first, a, n)
  <2>1. \A i \in 1 .. n : a[i] \in Int
    OBVIOUS
  <2> QED BY <2>1, TallyExists
<1> DEFINE g == [i \in 0 .. n + 1 |-> IF i = n + 1 THEN f[n] + b[n + 1] ELSE f[i]]
<1>2. Tally(g, first, b, n + 1)
  BY <1>1 DEF Tally
<1>3. n + 1 \in Nat /\ g[n + 1] = f[n] + b[n + 1]
  OBVIOUS
<1> HIDE DEF g
<1> QED BY <1>1, <1>2, <1>3, TotalOfTally

\* The first k amounts may be added before the others.
LEMMA TotalOfRest ==
  ASSUME NEW n \in Nat, NEW k \in 0 .. n, NEW first \in Int, NEW a, NEW b,
         \A i \in 1 .. n : a[i] \in Int, \A i \in 1 .. n - k : b[i] = a[k + i]
  PROVE  Total(Total(first, a, k), b, n - k) = Total(first, a, n)
<1>0. Sums(first, a, n)
  <2>1. Summands(a, n)
    BY DEF Summands
  <2> QED BY <2>1, TotalSums
<1>1. /\ \A m \in 0 .. n : Total(first, a, m) \in Int
      /\ \A m \in 1 .. n : Total(first, a, m) = Total(first, a, m - 1) + a[m]
  BY <1>0 DEF Sums
<1> DEFINE g == [i \in 0 .. n - k |-> Total(first, a, k + i)]
<1>2. Tally(g, Total(first, a, k), b, n - k)
  <2>1. g \in [0 .. n - k -> Int] /\ g[0] = Total(first, a, k)
    BY <1>1
  <2>2. ASSUME NEW i \in 1 .. n - k PROVE g[i] = g[i - 1] + b[i]
    <3>1. k + i \in 1 .. n /\ k + i - 1 = k + (i - 1) /\ i - 1 \in 0 .. n - k
      OBVIOUS
    <3>2. Total(first, a, k + i) = Total(first, a, k + (i - 1)) + a[k + i]
      BY <1>1, <3>1
    <3> QED BY <3>1, <3>2
  <2> HIDE DEF g
  <2> QED BY <2>1, <2>2 DEF Tally
<1>3. n - k \in Nat /\ g[n - k] = Total(first, a, n)
  OBVIOUS
<1> HIDE DEF g
<1> QED BY <1>2, <1>3, TotalOfTally

\* The sum without the amount at k.
LEMMA TotalWithout ==
  ASSUME NEW n \in Nat, NEW k \in 1 .. n, NEW first \in Int, NEW a, NEW b,
         \A i \in 1 .. n : a[i] \in Int,
         \A i \in 1 .. n - 1 : b[i] = IF i < k THEN a[i] ELSE a[i + 1]
  PROVE  Total(first, b, n - 1) = Total(first, a, n) - a[k]
<1> DEFINE g == [i \in 0 .. n - 1 |-> IF i < k THEN Total(first, a, i) ELSE Total(first, a, i + 1) - a[k]]
<1>1. /\ \A m \in 0 .. n : Total(first, a, m) \in Int
      /\ Total(first, a, 0) = first
      /\ \A m \in 1 .. n : Total(first, a, m) = Total(first, a, m - 1) + a[m]
  BY TotalProperties
<1>2. Tally(g, first, b, n - 1)
  <2>1. g \in [0 .. n - 1 -> Int]
    BY <1>1
  <2>3. g[0] = first
    BY <1>1
  <2>2. ASSUME NEW i \in 1 .. n - 1 PROVE g[i] = g[i - 1] + b[i]
    <3>1. CASE i < k
      BY <1>1, <3>1
    <3>2. CASE i = k
      <4>1. /\ Total(first, a, k + 1) = Total(first, a, k) + a[k + 1]
            /\ Total(first, a, k) = Total(first, a, k - 1) + a[k]
        BY <1>1, <3>2
      <4>2. g[i] = Total(first, a, k + 1) - a[k] /\ g[i - 1] = Total(first, a, k - 1)
        BY <3>2
      <4>3. Total(first, a, k - 1) \in Int /\ a[k + 1] \in Int /\ a[k] \in Int /\ b[i] = a[k + 1]
        BY <1>1, <3>2
      <4> QED BY <4>1, <4>2, <4>3
    <3>3. CASE i > k
      <4>1. Total(first, a, i + 1) = Total(first, a, i) + a[i + 1]
        BY <1>1
      <4>2. g[i] = Total(first, a, i + 1) - a[k] /\ g[i - 1] = Total(first, a, i) - a[k]
        BY <3>3
      <4>3. Total(first, a, i) \in Int /\ a[i + 1] \in Int /\ a[k] \in Int /\ b[i] = a[i + 1]
        BY <1>1, <3>3
      <4> QED BY <4>1, <4>2, <4>3
    <3> QED BY <3>1, <3>2, <3>3
  <2> HIDE DEF g
  <2> QED BY <2>1, <2>2, <2>3 DEF Tally
<1>3. n - 1 \in Nat /\ g[n - 1] = Total(first, a, n) - a[k]
  BY <1>1
<1> HIDE DEF g
<1> QED BY <1>2, <1>3, TotalOfTally

\* Sums that start lower are lower.
LEMMA TotalFromLess ==
  ASSUME NEW n \in Nat, NEW first \in Int, NEW c \in Int, NEW a, \A i \in 1 .. n : a[i] \in Int
  PROVE  Total(first - c, a, n) = Total(first, a, n) - c
<1>1. PICK f : Tally(f, first, a, n)
  BY TallyExists
<1> DEFINE g == [i \in 0 .. n |-> f[i] - c]
<1>2. Tally(g, first - c, a, n)
  <2>1. /\ f \in [0 .. n -> Int] /\ f[0] = first
        /\ \A i \in 1 .. n : f[i] = f[i - 1] + a[i]
    BY <1>1 DEF Tally
  <2>2. g \in [0 .. n -> Int] /\ g[0] = first - c
    BY <2>1
  <2>3. ASSUME NEW i \in 1 .. n PROVE g[i] = g[i - 1] + a[i]
    <3>1. f[i] \in Int /\ f[i - 1] \in Int /\ f[i] = f[i - 1] + a[i] /\ a[i] \in Int
      BY <2>1
    <3>2. g[i] = f[i] - c /\ g[i - 1] = f[i - 1] - c
      OBVIOUS
    <3> QED BY <3>1, <3>2
  <2> HIDE DEF g
  <2> QED BY <2>1, <2>2, <2>3 DEF Tally
<1>3. g[n] = f[n] - c
  OBVIOUS
<1> HIDE DEF g
<1> QED BY <1>1, <1>2, <1>3, TotalOfTally

-----------------------------------------------------------------------------
(* The inductive invariant. *)

LocalTypes ==
    /\ blocking \subseteq Transfer
    /\ pc \in [Transfer -> {"next", "fill", "take", "write", "drain", "call", "leave", "done"}]
    /\ outcome \in [Transfer -> {"none", "ok", "failed", "cancelled"}]
    /\ begun \in [Transfer -> Nat] /\ position \in [Transfer -> Nat]
    /\ queue \in [Transfer -> Seq(Request)]
    /\ delivered \in [Reader -> Seq(Nat)]
    /\ stored \in [Writer -> SUBSET Nat]
    /\ cancelled \subseteq Reader \ blocking
    /\ size \in [Reader -> Nat]
    /\ \A t \in Reader : size[t] \in {Size[t], Size[t] + Growth}

Message == [request : Request, result : Int, credit : Nat]

NetworkTypes ==
    /\ link \in {"up", "down", "closed"}
    /\ window \in Nat /\ owed \in 0 .. Threshold - 1
    /\ sent \in Seq(Request) /\ inbound \in Seq(Message)
    /\ replies \subseteq [request : Request, result : Int]

Costs == [i \in DOMAIN sent |-> Cost(sent[i].by, sent[i].length)]

\* Room lent out is on its way to the server, owed by it, or on its way back.
WindowInv ==
    Room(Len(inbound)) + owed + Total(0, Costs, Len(sent)) <= Window

\* The bytes of request q that a file of size s has.
Available(q, s) == IF q.at < s THEN LeastOf(q.length, s - q.at) ELSE 0

Accurate(q, n) ==
    \/ n = Failed
    \/ /\ q.by \in Reader
       /\ n \in {Available(q, Size[q.by]), Available(q, size[q.by])}
    \/ /\ q.by \in Writer /\ n = q.length
       /\ q.at .. (q.at + n - 1) \subseteq stored[q.by]

\* A writer asks for nothing behind the end of its local file.
SentInv == \A i \in DOMAIN sent :
    sent[i].by \in Writer => sent[i].at + sent[i].length <= Size[sent[i].by]

AnswersInv ==
    /\ \A i \in DOMAIN inbound : Accurate(inbound[i].request, inbound[i].result)
    /\ \A r \in replies : Accurate(r.request, r.result)

NetworkInv == NetworkTypes /\ WindowInv /\ SentInv /\ AnswersInv

\* A blocking call holds the actor from when it was called to when it returns.
BusyInv == busy = {} \/ \E t \in blocking : busy = {t} /\ pc[t] = "call" /\ Missing(t) > 0

\* The stretch of its file that t was asked to read or write.
Stretch(t) == IF t \in Reader THEN From[t] .. (From[t] + Length[t]) ELSE 0 .. Size[t]

QueueInv(t) == \A i \in DOMAIN queue[t] :
    LET q == queue[t][i] IN
    /\ q.by = t /\ q.length \in 1 .. BufferSize
    /\ q.at \in Stretch(t) /\ q.at + q.length \in Stretch(t)
    /\ IF t \in blocking
       THEN Len(queue[t]) = 1 /\ busy = {t} /\ q.at = position[t] /\ q.length = Piece(t)
       ELSE q.at + q.length = IF i = Len(queue[t]) THEN position[t] ELSE queue[t][i + 1].at

\* Where the earliest byte is that was not waited for yet.
First(t) == IF queue[t] = <<>> THEN position[t] ELSE Head(queue[t]).at

Running(t) == pc[t] \notin {"leave", "done"}

ReaderSteps(t) ==
    /\ pc[t] \in {"next", "leave", "done"}
                 \cup (IF t \in blocking THEN {"call"} ELSE {"fill", "take"})
    /\ Running(t) => outcome[t] = "none"
    /\ pc[t] = "take" => queue[t] # <<>>
    /\ begun[t] <= Length[t] /\ (t \in blocking => begun[t] = 0)
    /\ pc[t] = "next" /\ begun[t] = 0 => delivered[t] = <<>> /\ queue[t] = <<>>

\* How many bytes are to be delivered before the one at `at`.
Before(t, at) == IF at <= Size[t] THEN at - From[t]
                 ELSE IF From[t] <= Size[t] THEN Size[t] - From[t] ELSE 0

\* A stream that has set its offset.
Streaming(t) == t \notin blocking /\ Running(t) /\ (pc[t] = "next" => begun[t] > 0)

StreamInv(t) == Streaming(t) =>
    /\ position[t] = From[t] + begun[t]
    /\ From[t] .. (LeastOf(First(t), Size[t]) - 1) \subseteq ToSet(delivered[t])
    /\ size[t] = Size[t] => Len(delivered[t]) = Before(t, First(t))

ReadInv(t) == pc[t] = "call" =>
    /\ position[t] = From[t] + Len(delivered[t])
    /\ Len(delivered[t]) <= Length[t]
    /\ size[t] = Size[t] => delivered[t] = <<>> \/ position[t] <= Size[t]

Whole(t) ==
    /\ Expected(t) \subseteq ToSet(delivered[t])
    /\ size[t] = Size[t] => Expected(t) = ToSet(delivered[t])

ReaderInv(t) ==
    /\ ReaderSteps(t) /\ StreamInv(t) /\ ReadInv(t)
    /\ t \in blocking \/ size[t] = Size[t] => InOrder(t)
    /\ outcome[t] = "ok" => Whole(t)

WriterInv(t) ==
    /\ pc[t] \in {"leave", "done"} \cup (IF t \in blocking THEN {"call"} ELSE {"write", "drain"})
    /\ stored[t] \subseteq 0 .. (Size[t] - 1)
    /\ Running(t) =>
        /\ outcome[t] = "none"
        /\ position[t] = begun[t] /\ begun[t] <= Size[t]
        /\ 0 .. (First(t) - 1) \subseteq stored[t]
    /\ outcome[t] = "ok" => stored[t] = 0 .. (Size[t] - 1)

IInv ==
    /\ LocalTypes /\ NetworkInv /\ BusyInv
    /\ \A t \in Transfer : QueueInv(t)
    /\ \A t \in Reader : ReaderInv(t)
    /\ \A t \in Writer : WriterInv(t)

-----------------------------------------------------------------------------
(* Sequences. *)

\* What is left of a sequence without its ith element.
LEMMA RemoveAtElements ==
  ASSUME NEW S, NEW s \in Seq(S), NEW i \in 1 .. Len(s)
  PROVE  /\ RemoveAt(s, i) \in Seq(S) /\ Len(RemoveAt(s, i)) = Len(s) - 1
         /\ \A k \in 1 .. Len(s) - 1 : RemoveAt(s, i)[k] = IF k < i THEN s[k] ELSE s[k + 1]
<1> DEFINE before == SubSeq(s, 1, i - 1)
           behind == SubSeq(s, i + 1, Len(s))
<1>1. before \in Seq(S) /\ Len(before) = i - 1 /\ \A k \in 1 .. i - 1 : before[k] = s[k]
  OBVIOUS
<1>2. /\ behind \in Seq(S) /\ Len(behind) = Len(s) - i
      /\ \A k \in 1 .. Len(s) - i : behind[k] = s[k + i]
  OBVIOUS
<1>3. RemoveAt(s, i) = before \o behind
  BY DEF RemoveAt
<1> DEFINE joined == before \o behind
<1> HIDE DEF before, behind
<1>4. /\ joined \in Seq(S) /\ Len(joined) = Len(s) - 1
      /\ \A k \in 1 .. Len(s) - 1 : joined[k] = IF k <= i - 1 THEN before[k] ELSE behind[k - (i - 1)]
  <2>1. /\ joined \in Seq(S) /\ Len(joined) = Len(before) + Len(behind)
        /\ \A k \in 1 .. Len(before) + Len(behind) : joined[k] =
                IF k <= Len(before) THEN before[k] ELSE behind[k - Len(before)]
    BY <1>1, <1>2, ConcatProperties, Zenon
  <2>2. Len(before) + Len(behind) = Len(s) - 1
    BY <1>1, <1>2
  <2> HIDE DEF joined
  <2> QED BY <1>1, <2>1, <2>2
<1> HIDE DEF joined
<1>5. ASSUME NEW k \in 1 .. Len(s) - 1 PROVE joined[k] = IF k < i THEN s[k] ELSE s[k + 1]
  <2>1. CASE k < i
    BY <1>1, <1>4, <2>1
  <2>2. CASE k >= i
    <3>1. k - (i - 1) \in 1 .. Len(s) - i /\ k - (i - 1) + i = k + 1
      BY <2>2
    <3> QED BY <1>2, <1>4, <2>2, <3>1
  <2> QED BY <2>1, <2>2
<1> QED BY <1>3, <1>4, <1>5 DEF joined

\* What is left of a sequence without its first n elements.
LEMMA RestElements ==
  ASSUME NEW S, NEW s \in Seq(S), NEW n \in 0 .. Len(s)
  PROVE  /\ SubSeq(s, n + 1, Len(s)) \in Seq(S) /\ Len(SubSeq(s, n + 1, Len(s))) = Len(s) - n
         /\ \A k \in 1 .. Len(s) - n : SubSeq(s, n + 1, Len(s))[k] = s[n + k]
  OBVIOUS

\* The first n elements of a sequence.
LEMMA FirstElements ==
  ASSUME NEW S, NEW s \in Seq(S), NEW n \in 0 .. Len(s)
  PROVE  ToSet(SubSeq(s, 1, n)) = {s[k] : k \in 1 .. n}
<1> DEFINE firsts == SubSeq(s, 1, n)
<1>1. firsts \in Seq(S) /\ Len(firsts) = n /\ \A k \in 1 .. n : firsts[k] = s[k]
  OBVIOUS
<1> HIDE DEF firsts
<1>2. DOMAIN firsts = 1 .. n
  BY <1>1
<1>3. ToSet(firsts) = {firsts[k] : k \in 1 .. n}
  BY <1>2 DEF ToSet
<1> QED BY <1>1, <1>3 DEF firsts

-----------------------------------------------------------------------------
(* The network: what each kind of step does to the answers and the window.  *)

LEMMA Amounts ==
  ASSUME NetworkTypes
  PROVE  /\ Len(inbound) \in Nat /\ \A i \in 1 .. Len(inbound) : Credits[i] \in Nat
         /\ Len(sent) \in Nat /\ \A i \in 1 .. Len(sent) : Costs[i] \in Nat
<1>1. \A i \in DOMAIN inbound : inbound[i] \in Message
  BY DEF NetworkTypes
<1>2. \A i \in DOMAIN sent : sent[i] \in Request
  BY DEF NetworkTypes
<1>3. ASSUME NEW i \in 1 .. Len(inbound) PROVE Credits[i] \in Nat
  BY <1>1 DEF Credits, Message, NetworkTypes
<1>4. ASSUME NEW i \in 1 .. Len(sent) PROVE Costs[i] \in Nat
  <2>1. i \in DOMAIN sent /\ sent[i] \in Request
    BY <1>2 DEF NetworkTypes
  <2>2. sent[i].length \in Nat /\ Overhead \in Nat
    BY <2>1, TransferAssumption DEF Request
  <2> QED BY <2>1, <2>2 DEF Costs, Cost
<1> QED BY <1>3, <1>4 DEF NetworkTypes

\* The room there is after n answers were taken, and all room.
LEMMA Rooms ==
  ASSUME NetworkTypes
  PROVE  /\ \A n \in 0 .. Len(inbound) : Room(n) \in Nat /\ Room(n) <= Room(Len(inbound))
         /\ window <= Room(Len(inbound)) /\ Room(0) = window
         /\ Total(0, Costs, Len(sent)) \in Nat
<1>1. /\ Len(inbound) \in Nat /\ \A i \in 1 .. Len(inbound) : Credits[i] \in Nat /\ Credits[i] \in Int
      /\ Len(sent) \in Nat /\ \A i \in 1 .. Len(sent) : Costs[i] \in Nat /\ Costs[i] \in Int
  BY Amounts
<1>2. window \in Nat /\ window \in Int
  BY DEF NetworkTypes
<1>3. /\ \A n \in 0 .. Len(inbound) : Total(window, Credits, n) \in Int
      /\ Total(window, Credits, 0) = window
  BY <1>1, <1>2, TotalProperties
<1>4. \A n \in 0 .. Len(inbound) :
        /\ window <= Total(window, Credits, n)
        /\ Total(window, Credits, n) <= Total(window, Credits, Len(inbound))
  BY <1>1, <1>2, TotalMonotone
<1>5. 0 \in Int
  OBVIOUS
<1>6. \A n \in 0 .. Len(sent) : Total(0, Costs, n) \in Int
  BY <1>1, <1>5, TotalProperties, Zenon
<1>7. \A n \in 0 .. Len(sent) : 0 <= Total(0, Costs, n)
  BY <1>1, <1>5, TotalMonotone, Zenon
<1> QED BY <1>1, <1>2, <1>3, <1>4, <1>6, <1>7 DEF Room

\* The window never exceeds the server's.
LEMMA WindowBound ==
  ASSUME NetworkTypes, WindowInv
  PROVE  window \in 0 .. Window
<1>1. /\ window <= Room(Len(inbound)) /\ Room(Len(inbound)) \in Nat
      /\ Total(0, Costs, Len(sent)) \in Nat
  <2>1. Len(inbound) \in 0 .. Len(inbound)
    BY DEF NetworkTypes
  <2> QED BY <2>1, Rooms
<1>2. window \in Nat /\ owed \in Nat /\ Window \in Nat
  BY TransferAssumption DEF NetworkTypes
<1> QED BY <1>1, <1>2 DEF WindowInv

\* An answer that was accurate stays so: files only grow, and once.
LEMMA StaysAccurate ==
  ASSUME NEW q \in Request, NEW n \in Int, Accurate(q, n),
         \A t \in Reader : size'[t] = size[t] \/ size[t] = Size[t],
         \A t \in Writer : stored[t] \subseteq stored'[t]
  PROVE  Accurate(q, n)'
  BY DEF Accurate, Request, Transfer, Available

\* Answers that are left alone stay accurate.
LEMMA AnswersKept ==
  ASSUME NetworkTypes, AnswersInv, inbound' = inbound, replies' \subseteq replies,
         \A t \in Reader : size'[t] = size[t] \/ size[t] = Size[t],
         \A t \in Writer : stored[t] \subseteq stored'[t]
  PROVE  AnswersInv'
<1>1. ASSUME NEW i \in DOMAIN inbound PROVE Accurate(inbound[i].request, inbound[i].result)'
  <2>1. inbound[i].request \in Request /\ inbound[i].result \in Int
    <3>1. inbound[i] \in Message
      BY DEF NetworkTypes
    <3> QED BY <3>1 DEF Message
  <2>2. Accurate(inbound[i].request, inbound[i].result)
    BY DEF AnswersInv
  <2> QED BY <2>1, <2>2, StaysAccurate
<1>2. ASSUME NEW r \in replies PROVE Accurate(r.request, r.result)'
  <2>1. r.request \in Request /\ r.result \in Int
    BY DEF NetworkTypes
  <2>2. Accurate(r.request, r.result)
    BY DEF AnswersInv
  <2> QED BY <2>1, <2>2, StaysAccurate
<1> QED BY <1>1, <1>2 DEF AnswersInv

\* A step that takes the first n answers from the socket.
LEMMA Taking ==
  ASSUME NetworkInv, NEW n \in 0 .. Len(inbound),
         window' = Room(n), inbound' = SubSeq(inbound, n + 1, Len(inbound)),
         replies' \subseteq replies \cup Taken(n),
         UNCHANGED <<link, sent, owed, size, stored>>
  PROVE  NetworkInv'
<1>1. /\ inbound' \in Seq(Message) /\ Len(inbound') = Len(inbound) - n
      /\ \A k \in 1 .. Len(inbound) - n : inbound'[k] = inbound[n + k]
  BY RestElements DEF NetworkInv, NetworkTypes
<1>2. \A i \in 1 .. Len(inbound) : inbound[i] \in Message /\ Accurate(inbound[i].request, inbound[i].result)
  BY DEF NetworkInv, NetworkTypes, AnswersInv
<1>3. \A r \in Taken(n) : r \in [request : Request, result : Int] /\ Accurate(r.request, r.result)
  <2>1. Taken(n) = {[request |-> p.request, result |-> p.result] : p \in {inbound[k] : k \in 1 .. n}}
    BY FirstElements DEF Taken, NetworkInv, NetworkTypes
  <2> QED BY <1>2, <2>1 DEF Message
<1>4. NetworkTypes'
  <2>1. window' \in Nat
    BY Rooms DEF NetworkInv
  <2> QED BY <1>1, <1>3, <2>1 DEF NetworkInv, NetworkTypes
<1>5. WindowInv'
  <2>1. Costs' = Costs
    BY DEF Costs, Cost
  <2>2. Room(Len(inbound))' = Room(Len(inbound))
    <3>1. Len(inbound) \in Nat /\ n \in 0 .. Len(inbound) /\ window \in Int
      BY DEF NetworkInv, NetworkTypes
    <3>2. \A i \in 1 .. Len(inbound) : Credits[i] \in Int
      BY Amounts DEF NetworkInv
    <3>3. \A i \in 1 .. Len(inbound) - n : Credits'[i] = Credits[n + i]
      BY <1>1, <3>1 DEF Credits, NetworkInv, NetworkTypes
    <3>4. Total(Total(window, Credits, n), Credits', Len(inbound) - n) = Total(window, Credits, Len(inbound))
      <4> DEFINE w == window
                 a == Credits
                 b == Credits'
                 m == Len(inbound)
      <4>1. /\ m \in Nat /\ n \in 0 .. m /\ w \in Int
            /\ \A i \in 1 .. m : a[i] \in Int
            /\ \A i \in 1 .. m - n : b[i] = a[n + i]
        BY <3>1, <3>2, <3>3
      <4> HIDE DEF w, a, b, m
      <4>2. Total(Total(w, a, n), b, m - n) = Total(w, a, m)
        BY <4>1, TotalOfRest
      <4> QED BY <4>2 DEF w, a, b, m
    <3> QED BY <1>1, <3>4 DEF Room
  <2> QED BY <2>1, <2>2 DEF NetworkInv, WindowInv
<1>6. SentInv'
  BY DEF NetworkInv, SentInv
<1>7. AnswersInv'
  <2>1. ASSUME NEW q \in Request, NEW k \in Int, Accurate(q, k) PROVE Accurate(q, k)'
    <3>1. /\ \A t \in Reader : size'[t] = size[t] \/ size[t] = Size[t]
          /\ \A t \in Writer : stored[t] \subseteq stored'[t]
      OBVIOUS
    <3> QED BY <2>1, <3>1, StaysAccurate
  <2>2. \A i \in DOMAIN inbound' : inbound'[i] = inbound[n + i] /\ n + i \in 1 .. Len(inbound)
    BY <1>1 DEF NetworkInv, NetworkTypes
  <2>3. ASSUME NEW i \in DOMAIN inbound' PROVE Accurate(inbound[i].request, inbound[i].result)'
    BY <1>2, <2>1, <2>2, <2>3 DEF Message
  <2>4. ASSUME NEW r \in replies' PROVE Accurate(r.request, r.result)'
    BY <1>3, <2>1, <2>4 DEF NetworkInv, NetworkTypes, AnswersInv
  <2> QED BY <2>3, <2>4 DEF AnswersInv
<1> QED BY <1>4, <1>5, <1>6, <1>7 DEF NetworkInv

\* A step that at most drops answers; a file may grow.
LEMMA Idle ==
  ASSUME NetworkInv, UNCHANGED <<link, window, sent, owed, inbound, stored>>, replies' \subseteq replies,
         \A t \in Reader : size'[t] = size[t] \/ size[t] = Size[t]
  PROVE  NetworkInv'
<1>1. NetworkTypes' /\ SentInv'
  BY DEF NetworkInv, NetworkTypes, SentInv
<1>2. WindowInv'
  BY DEF NetworkInv, WindowInv, Room, Credits, Costs, Cost
<1>3. AnswersInv'
  BY AnswersKept DEF NetworkInv
<1> QED BY <1>1, <1>2, <1>3 DEF NetworkInv

\* A step after which nothing is under way.
LEMMA Dropping ==
  ASSUME NetworkInv, link' \in {"up", "down", "closed"}, sent' = <<>>, inbound' = <<>>,
         replies' \subseteq replies, UNCHANGED <<window, owed, size, stored>>
  PROVE  NetworkInv'
<1>1. NetworkTypes' /\ SentInv'
  BY DEF NetworkInv, NetworkTypes, SentInv
<1>2. WindowInv'
  <2>1. Room(Len(inbound))' = window /\ Total(0, Costs, Len(sent))' = 0
    <3>1. Len(inbound') = 0 /\ Len(sent') = 0 /\ window' = window
      OBVIOUS
    <3>2. Room(0)' = window' /\ \A a : Total(0, a, 0) = 0
      <4>1. \A i \in 1 .. 0 : FALSE
        OBVIOUS
      <4>2. ASSUME NEW first \in Int, NEW a PROVE Total(first, a, 0) = first
        <5>1. \A i \in 1 .. 0 : a[i] \in Int
          OBVIOUS
        <5> QED BY <5>1, TotalProperties
      <4> QED BY <1>1, <4>2 DEF Room, NetworkTypes
    <3> QED BY <3>1, <3>2
  <2>2. /\ window <= Room(Len(inbound)) /\ Room(Len(inbound)) \in Nat
        /\ Total(0, Costs, Len(sent)) \in Nat
    <3>1. Len(inbound) \in 0 .. Len(inbound)
      BY DEF NetworkInv, NetworkTypes
    <3> QED BY <3>1, Rooms DEF NetworkInv
  <2>3. window \in Nat /\ owed \in Nat /\ Window \in Nat
    BY TransferAssumption DEF NetworkInv, NetworkTypes
  <2> QED BY <2>1, <2>2, <2>3 DEF NetworkInv, WindowInv
<1>3. ASSUME NEW q \in Request, NEW k \in Int, Accurate(q, k) PROVE Accurate(q, k)'
  BY <1>3, StaysAccurate
<1>4. AnswersInv'
  BY <1>3 DEF NetworkInv, NetworkTypes, AnswersInv
<1> QED BY <1>1, <1>2, <1>4 DEF NetworkInv

\* A request of t goes out.
LEMMA Sending ==
  ASSUME NetworkInv, NEW t \in Transfer, NEW length \in Nat, SendRequest(t, length),
         position[t] \in Nat, t \in Writer => position[t] + length <= Size[t],
         UNCHANGED <<size, stored>>
  PROVE  NetworkInv'
<1> DEFINE q == [by |-> t, at |-> position[t], length |-> length]
           c == Cost(t, length)
<1>1. /\ sent' = Append(sent, q) /\ window' = window - c /\ c <= window
      /\ UNCHANGED <<link, owed, inbound, replies>>
  BY DEF SendRequest, HasRoom
<1>2. q \in Request /\ q.by = t /\ q.at = position[t] /\ q.length = length
  BY DEF Request
<1>3. c \in Nat
  BY TransferAssumption DEF Cost
<1>4. c = Cost(q.by, q.length)
  OBVIOUS
<1> HIDE DEF q, c
<1>5. /\ sent' \in Seq(Request) /\ Len(sent') = Len(sent) + 1 /\ Len(sent) \in Nat
      /\ \A i \in 1 .. Len(sent) : sent'[i] = sent[i]
      /\ sent'[Len(sent) + 1] = q
  BY <1>1, <1>2 DEF NetworkInv, NetworkTypes
<1>6. NetworkTypes'
  BY <1>1, <1>3, <1>5 DEF NetworkInv, NetworkTypes
<1>7. SentInv'
  BY <1>2, <1>5 DEF NetworkInv, SentInv
<1>8. WindowInv'
  <2>0. /\ \A i \in 1 .. Len(inbound) : Credits[i] \in Int
        /\ \A i \in 1 .. Len(sent) : Costs[i] \in Int
        /\ window \in Int /\ Len(inbound) \in Nat
    <3>1. NetworkTypes /\ window \in Int /\ Len(inbound) \in Nat
      BY DEF NetworkInv, NetworkTypes
    <3> QED BY <3>1, Amounts
  <2>1. Room(Len(inbound))' = Room(Len(inbound)) - c
    <3> DEFINE w == window
               a == Credits
               m == Len(inbound)
    <3>1. m \in Nat /\ w \in Int /\ c \in Int /\ \A i \in 1 .. m : a[i] \in Int
      BY <1>3, <2>0
    <3>2. Room(Len(inbound))' = Total(w - c, a, m) /\ Room(Len(inbound)) = Total(w, a, m)
      BY <1>1 DEF Room, Credits
    <3> HIDE DEF w, a, m
    <3> QED BY <3>1, <3>2, TotalFromLess
  <2>2. Total(0, Costs, Len(sent))' = Total(0, Costs, Len(sent)) + c
    <3> DEFINE a == Costs
               b == Costs'
               m == Len(sent)
               z == 0
    <3>1. m \in Nat /\ b[m + 1] = c
      BY <1>4, <1>5 DEF Costs, Cost, NetworkTypes
    <3>2. \A i \in 1 .. m : a[i] = b[i] /\ a[i] \in Int
      <4>1. DOMAIN sent = 1 .. m /\ DOMAIN sent' = 1 .. m + 1
        BY <1>5 DEF NetworkInv, NetworkTypes
      <4> QED BY <1>5, <2>0, <4>1 DEF Costs, Cost
    <3>4. Total(0, Costs, Len(sent))' = Total(z, b, m + 1) /\ z \in Int
      BY <1>5
    <3> HIDE DEF a, b, m, z
    <3>3. \A i \in 1 .. m + 1 : b[i] \in Int
      <4>1. \A i \in 1 .. m + 1 : i \in 1 .. m \/ i = m + 1
        BY <3>1
      <4> QED BY <1>3, <3>1, <3>2, <4>1
    <3>5. Total(z, b, m + 1) = Total(z, a, m) + b[m + 1]
      BY <3>1, <3>2, <3>3, <3>4, TotalOfMore
    <3> QED BY <3>1, <3>4, <3>5 DEF a, m, z
  <2>3. /\ Room(Len(inbound)) \in Nat /\ Total(0, Costs, Len(sent)) \in Nat
    BY <2>0, Rooms DEF NetworkInv
  <2>4. owed \in Nat /\ owed' = owed /\ Window \in Nat
    BY <1>1, TransferAssumption DEF NetworkInv, NetworkTypes
  <2> QED BY <1>3, <2>1, <2>2, <2>3, <2>4 DEF NetworkInv, WindowInv
<1>9. AnswersInv'
  BY <1>1, AnswersKept DEF NetworkInv
<1> QED BY <1>6, <1>7, <1>8, <1>9 DEF NetworkInv

\* What the server has of the uploads once it has handled request q.
StoredWith(q, n) ==
    IF q.by \in Writer /\ n # Failed
    THEN [stored EXCEPT ![q.by] = @ \cup q.at .. (q.at + n - 1)] ELSE stored

LEMMA ServerStores ==
  ASSUME LocalTypes, NEW q \in Request, NEW n \in Answers(q), stored' = StoredWith(q, n)
  PROVE  /\ n \in Int
         /\ \A t \in Writer : stored[t] \subseteq stored'[t]
         /\ \A t \in Writer :
                stored'[t] \subseteq stored[t] \cup IF t = q.by THEN q.at .. (q.at + q.length - 1) ELSE {}
         /\ size' = size => Accurate(q, n)'
<1>0. /\ q.at \in Nat /\ q.length \in Nat /\ q.by \in Reader \cup Writer
      /\ Reader \cap Writer = {} /\ stored \in [Writer -> SUBSET Nat]
      /\ q.by \in Reader => size[q.by] \in Nat
  BY TransferAssumption DEF Request, Transfer, LocalTypes
<1>1. n = Failed \/ (q.by \in Writer /\ n = q.length) \/ (q.by \in Reader /\ n = Available(q, size[q.by]))
  BY <1>0 DEF Answers, Available
<1>2. CASE q.by \in Writer /\ n # Failed
  <2>1. n = q.length
    BY <1>0, <1>1, <1>2
  <2>2. stored' = [stored EXCEPT ![q.by] = @ \cup q.at .. (q.at + n - 1)]
    BY <1>2 DEF StoredWith
  <2>3. \A t \in Writer : stored'[t] = stored[t] \cup IF t = q.by THEN q.at .. (q.at + n - 1) ELSE {}
    BY <1>0, <2>2
  <2> QED BY <1>0, <1>2, <2>1, <2>3 DEF Accurate
<1>3. CASE ~(q.by \in Writer /\ n # Failed)
  <2>1. stored' = stored
    BY <1>3 DEF StoredWith
  <2>2. n \in Int
    BY <1>0, <1>1 DEF Failed, Available, LeastOf
  <2>3. size' = size => Accurate(q, n)'
    BY <1>0, <1>1, <1>3 DEF Accurate, Available
  <2> QED BY <2>1, <2>2, <2>3
<1> QED BY <1>2, <1>3

LEMMA CostType ==
  ASSUME NEW q \in Request
  PROVE  Cost(q.by, q.length) \in Nat
<1>1. q.length \in Nat /\ Overhead \in Nat
  BY TransferAssumption DEF Request
<1>2. CASE q.by \in Writer
  BY <1>1, <1>2 DEF Cost
<1>3. CASE q.by \notin Writer
  BY <1>1, <1>3 DEF Cost
<1> QED BY <1>2, <1>3

\* A step of the server: the request it handles, the answer, and the room it
\* gives back.
Served(i, q, n, credit) ==
    /\ i \in 1 .. Len(sent) /\ q = sent[i] /\ q \in Request
    /\ n \in Answers(q)
    /\ credit \in {0, owed + Cost(q.by, q.length)}
    /\ owed + Cost(q.by, q.length) - credit \in 0 .. Threshold - 1
    /\ sent' = RemoveAt(sent, i)
    /\ owed' = owed + Cost(q.by, q.length) - credit
    /\ inbound' = Append(inbound, [request |-> q, result |-> n, credit |-> credit])
    /\ stored' = StoredWith(q, n)
    /\ size' = size /\ link' = link /\ window' = window /\ replies' = replies

LEMMA ServeStep ==
  ASSUME NetworkInv, Serve
  PROVE  \E i, q, n, credit : Served(i, q, n, credit)
<1>1. PICK i \in DOMAIN sent : \E n \in Answers(sent[i]) :
        LET q == sent[i]
            due == owed + Cost(q.by, q.length)
            credit == IF due >= Threshold THEN due ELSE 0
        IN  /\ sent' = RemoveAt(sent, i)
            /\ owed' = due - credit
            /\ inbound' = Append(inbound, [request |-> q, result |-> n, credit |-> credit])
            /\ stored' = StoredWith(q, n)
  BY DEF Serve, StoredWith
<1>2. PICK q : q = sent[i]
  OBVIOUS
<1>3. PICK due : due = owed + Cost(q.by, q.length)
  OBVIOUS
<1>4. PICK credit : credit = IF due >= Threshold THEN due ELSE 0
  OBVIOUS
<1>5. i \in 1 .. Len(sent) /\ q \in Request
  BY <1>2 DEF NetworkInv, NetworkTypes
<1>6. /\ Cost(q.by, q.length) \in Nat /\ owed \in Nat /\ due \in Nat
      /\ due - credit \in 0 .. Threshold - 1 /\ credit \in {0, due}
  <2>1. Cost(q.by, q.length) \in Nat
    BY <1>5, CostType
  <2>2. owed \in Nat /\ due \in Nat /\ Threshold \in Nat \ {0}
    BY <1>3, <2>1, TransferAssumption DEF NetworkInv, NetworkTypes
  <2> QED BY <1>4, <2>1, <2>2
<1>7. PICK n \in Answers(q) :
        /\ sent' = RemoveAt(sent, i)
        /\ owed' = due - credit
        /\ inbound' = Append(inbound, [request |-> q, result |-> n, credit |-> credit])
        /\ stored' = StoredWith(q, n)
  BY <1>1, <1>2, <1>3, <1>4
<1>8. size' = size /\ link' = link /\ window' = window /\ replies' = replies
  BY DEF Serve
<1>9. Served(i, q, n, credit)
  <2>1. /\ credit \in {0, owed + Cost(q.by, q.length)}
        /\ owed + Cost(q.by, q.length) - credit \in 0 .. Threshold - 1
        /\ owed' = owed + Cost(q.by, q.length) - credit
    BY <1>3, <1>6, <1>7
  <2> QED BY <1>2, <1>5, <1>7, <1>8, <2>1 DEF Served
<1> QED BY <1>9

LEMMA Serving ==
  ASSUME NetworkInv, LocalTypes, Serve
  PROVE  NetworkInv'
<1>0. PICK i, q, n, credit : Served(i, q, n, credit)
  BY ServeStep
<1> DEFINE c == Cost(q.by, q.length)
           m == [request |-> q, result |-> n, credit |-> credit]
<1>1. /\ i \in 1 .. Len(sent) /\ q = sent[i] /\ q \in Request /\ n \in Answers(q)
      /\ credit \in {0, owed + c} /\ owed + c - credit \in 0 .. Threshold - 1
      /\ stored' = StoredWith(q, n)
  BY <1>0 DEF Served
<1>2. /\ sent' = RemoveAt(sent, i) /\ owed' = owed + c - credit
      /\ inbound' = Append(inbound, m)
      /\ size' = size /\ link' = link /\ window' = window /\ replies' = replies
  BY <1>0 DEF Served
<1>3. /\ n \in Int /\ Accurate(q, n)'
      /\ \A t \in Writer : stored[t] \subseteq stored'[t]
  BY <1>1, <1>2, ServerStores
<1>4. c \in Nat /\ owed \in Nat /\ credit \in Nat
  BY <1>1, CostType DEF NetworkInv, NetworkTypes
<1>5. m \in Message /\ m.request = q /\ m.result = n /\ m.credit = credit
  BY <1>1, <1>3, <1>4 DEF Message
<1>6. sent \in Seq(Request) /\ Len(sent) \in Nat /\ inbound \in Seq(Message) /\ Len(inbound) \in Nat
      /\ window \in Nat /\ owed \in 0 .. Threshold - 1
  BY DEF NetworkInv, NetworkTypes
<1>7. \A k \in 1 .. Len(sent) - 1 : sent[k] \in Request /\ sent[k + 1] \in Request
  BY <1>6
<1>8. Costs[i] = c
  BY <1>1, <1>6 DEF Costs
<1> HIDE DEF c, m
<1>9. /\ sent' \in Seq(Request) /\ Len(sent') = Len(sent) - 1
      /\ \A k \in 1 .. Len(sent) - 1 : sent'[k] = IF k < i THEN sent[k] ELSE sent[k + 1]
  BY <1>1, <1>2, <1>6, RemoveAtElements
<1>10. /\ inbound' \in Seq(Message) /\ Len(inbound') = Len(inbound) + 1
       /\ \A k \in 1 .. Len(inbound) : inbound'[k] = inbound[k]
       /\ inbound'[Len(inbound) + 1] = m
  BY <1>2, <1>5, <1>6
<1>11. NetworkTypes'
  <2>1. owed' \in 0 .. Threshold - 1
    BY <1>1, <1>2
  <2>2. /\ link' \in {"up", "down", "closed"} /\ window' \in Nat
        /\ replies' \subseteq [request : Request, result : Int]
    BY <1>2 DEF NetworkInv, NetworkTypes
  <2> QED BY <1>9, <1>10, <2>1, <2>2 DEF NetworkTypes
<1>12. SentInv'
  <2>1. DOMAIN sent = 1 .. Len(sent) /\ DOMAIN sent' = 1 .. Len(sent) - 1
    BY <1>6, <1>9
  <2>2. ASSUME NEW k \in 1 .. Len(sent) - 1
        PROVE  k \in DOMAIN sent /\ k + 1 \in DOMAIN sent /\ sent'[k] \in {sent[k], sent[k + 1]}
    BY <1>6, <1>9, <2>1
  <2> QED BY <2>1, <2>2 DEF NetworkInv, SentInv
<1>13. AnswersInv'
  <2>1. ASSUME NEW p \in Request, NEW k \in Int, Accurate(p, k) PROVE Accurate(p, k)'
    BY <1>2, <1>3, <2>1, StaysAccurate
  <2>2. ASSUME NEW k \in DOMAIN inbound' PROVE Accurate(inbound[k].request, inbound[k].result)'
    <3>1. CASE k = Len(inbound) + 1
      <4>1. inbound'[k].request = q /\ inbound'[k].result = n
        BY <1>5, <1>10, <3>1
      <4> QED BY <1>3, <4>1
    <3>2. CASE k \in 1 .. Len(inbound)
      <4>1. inbound[k] \in Message /\ inbound'[k] = inbound[k]
        BY <1>6, <1>10, <3>2
      <4>2. Accurate(inbound[k].request, inbound[k].result)
        BY <1>6, <3>2 DEF NetworkInv, AnswersInv
      <4> QED BY <2>1, <4>1, <4>2 DEF Message
    <3> QED BY <1>6, <1>10, <3>1, <3>2
  <2>3. ASSUME NEW r \in replies' PROVE Accurate(r.request, r.result)'
    BY <1>2, <2>1, <2>3 DEF NetworkInv, NetworkTypes, AnswersInv
  <2> QED BY <2>2, <2>3 DEF AnswersInv
<1>14. WindowInv'
  <2>0. /\ \A k \in 1 .. Len(inbound) : Credits[k] \in Int
        /\ \A k \in 1 .. Len(sent) : Costs[k] \in Int
    BY Amounts DEF NetworkInv
  <2>1. Room(Len(inbound))' = Room(Len(inbound)) + credit
    <3> DEFINE a == Credits
               b == Credits'
               k == Len(inbound)
               w == window
    <3>1. DOMAIN inbound = 1 .. k /\ DOMAIN inbound' = 1 .. k + 1
      BY <1>6, <1>10
    <3>2. \A j \in 1 .. k : a[j] = b[j] /\ a[j] \in Int
      BY <1>6, <1>10, <2>0, <3>1 DEF Credits
    <3>3. b[k + 1] = credit /\ credit \in Int /\ k \in Nat /\ w \in Int
      <4>1. k + 1 \in DOMAIN inbound'
        BY <1>6, <3>1
      <4> QED BY <1>4, <1>5, <1>6, <1>10, <4>1 DEF Credits
    <3>4. Room(Len(inbound))' = Total(w, b, k + 1) /\ Room(Len(inbound)) = Total(w, a, k)
      BY <1>2, <1>10 DEF Room
    <3> HIDE DEF a, b, k, w
    <3>5. \A j \in 1 .. k + 1 : b[j] \in Int
      <4>1. \A j \in 1 .. k + 1 : j \in 1 .. k \/ j = k + 1
        BY <3>3
      <4> QED BY <3>2, <3>3, <4>1
    <3> QED BY <3>2, <3>3, <3>4, <3>5, TotalOfMore
  <2>2. Total(0, Costs, Len(sent))' = Total(0, Costs, Len(sent)) - c
    <3> DEFINE a == Costs
               b == Costs'
               k == Len(sent)
               z == 0
    <3>1. DOMAIN sent = 1 .. k /\ DOMAIN sent' = 1 .. k - 1
      BY <1>6, <1>9
    <3>2. \A j \in 1 .. k - 1 : b[j] = IF j < i THEN a[j] ELSE a[j + 1]
      BY <1>6, <1>9, <3>1 DEF Costs, Cost
    <3>3. i \in 1 .. k /\ k \in Nat /\ z \in Int /\ a[i] = c /\ \A j \in 1 .. k : a[j] \in Int
      BY <1>1, <1>6, <1>8, <2>0
    <3>4. Total(0, Costs, Len(sent))' = Total(z, b, k - 1) /\ Total(0, Costs, Len(sent)) = Total(z, a, k)
      BY <1>9
    <3> HIDE DEF a, b, k, z
    <3>5. Total(z, b, k - 1) = Total(z, a, k) - a[i]
      BY <3>2, <3>3, TotalWithout
    <3> QED BY <3>3, <3>4, <3>5
  <2>3. /\ Room(Len(inbound)) \in Nat /\ Total(0, Costs, Len(sent)) \in Nat
    BY <1>6, Rooms DEF NetworkInv
  <2> QED BY <1>2, <1>4, <1>6, <2>1, <2>2, <2>3, TransferAssumption DEF NetworkInv, WindowInv
<1> QED BY <1>11, <1>12, <1>13, <1>14 DEF NetworkInv

-----------------------------------------------------------------------------
(* The queue of a transfer, and the answer to its oldest request.           *)

\* The oldest request leaves the queue; what is left asks for what follows.
LEMMA Popped ==
  ASSUME LocalTypes, NEW t \in Transfer, QueueInv(t), queue[t] # <<>>,
         queue' = [queue EXCEPT ![t] = Tail(@)], blocking' = blocking,
         t \notin blocking => position'[t] = position[t]
  PROVE  LET q == Head(queue[t]) IN
         /\ q \in Request /\ q.by = t /\ q.length \in 1 .. BufferSize
         /\ q.at \in Stretch(t) /\ q.at + q.length \in Stretch(t)
         /\ First(t) = q.at
         /\ QueueInv(t)'
         /\ t \notin blocking => First(t)' = q.at + q.length
         /\ t \in blocking =>
              busy = {t} /\ q.at = position[t] /\ q.length = Piece(t) /\ queue'[t] = <<>>
<1> DEFINE s == queue[t]
           r == queue'[t]
           n == Len(s)
<1>1. s \in Seq(Request) /\ s # <<>> /\ r = Tail(s)
  BY DEF LocalTypes
<1>2. /\ n \in Nat \ {0} /\ r \in Seq(Request) /\ Len(r) = n - 1 /\ Head(s) = s[1] /\ s[1] \in Request
      /\ DOMAIN s = 1 .. n /\ DOMAIN r = 1 .. n - 1
      /\ \A i \in 1 .. n - 1 : r[i] = s[i + 1]
  <2> HIDE DEF s, r
  <2> QED BY <1>1
<1>3. \A i \in 1 .. n :
        /\ s[i].by = t /\ s[i].length \in 1 .. BufferSize
        /\ s[i].at \in Stretch(t) /\ s[i].at + s[i].length \in Stretch(t)
        /\ t \in blocking => n = 1 /\ busy = {t} /\ s[i].at = position[t] /\ s[i].length = Piece(t)
        /\ t \notin blocking => s[i].at + s[i].length = IF i = n THEN position[t] ELSE s[i + 1].at
  BY <1>2 DEF QueueInv
<1>4. CASE t \in blocking
  <2>1. n = 1 /\ r = <<>>
    <3> HIDE DEF s, r
    <3> QED BY <1>2, <1>3, <1>4
  <2>2. QueueInv(t)'
    BY <2>1 DEF QueueInv
  <2>3. First(t) = s[1].at
    BY <1>2 DEF First
  <2>4. s[1] \in Request /\ s[1].by = t /\ s[1].length \in 1 .. BufferSize
    BY <1>2, <1>3
  <2>5. s[1].at \in Stretch(t) /\ s[1].at + s[1].length \in Stretch(t)
    BY <1>2, <1>3
  <2>6. busy = {t} /\ s[1].at = position[t] /\ s[1].length = Piece(t)
    BY <1>2, <1>3, <1>4
  <2> QED BY <1>2, <1>4, <2>1, <2>2, <2>3, <2>4, <2>5, <2>6
<1>5. CASE t \notin blocking
  <2>1. ASSUME NEW i \in 1 .. n - 1
        PROVE  /\ r[i].by = t /\ r[i].length \in 1 .. BufferSize
               /\ r[i].at \in Stretch(t) /\ r[i].at + r[i].length \in Stretch(t)
               /\ r[i].at + r[i].length = IF i = n - 1 THEN position[t] ELSE r[i + 1].at
    <3>1. i + 1 \in 1 .. n /\ r[i] = s[i + 1]
      BY <1>2
    <3>2. i # n - 1 => r[i + 1] = s[i + 1 + 1]
      BY <1>2
    <3> HIDE DEF s, r, n
    <3> QED BY <1>2, <1>3, <1>5, <3>1, <3>2
  <2>2. QueueInv(t)'
    <3>1. position'[t] = position[t] /\ Stretch(t)' = Stretch(t) /\ t \notin blocking'
      BY <1>5 DEF Stretch
    <3> QED BY <1>2, <2>1, <3>1 DEF QueueInv
  <2>3. First(t)' = s[1].at + s[1].length
    <3>1. CASE n = 1
      <4>1. r = <<>>
        <5> HIDE DEF s, r
        <5> QED BY <1>2, <3>1
      <4> QED BY <1>2, <1>3, <1>5, <3>1, <4>1 DEF First
    <3>2. CASE n # 1
      <4>1. r # <<>> /\ Head(r) = s[2]
        <5> HIDE DEF s, r
        <5> QED BY <1>2, <3>2
      <4> QED BY <1>2, <1>3, <1>5, <3>2, <4>1 DEF First
    <3> QED BY <3>1, <3>2
  <2> QED BY <1>1, <1>2, <1>3, <1>5, <2>2, <2>3 DEF First
<1> QED BY <1>4, <1>5

\* A pipelined transfer asks for what follows.
LEMMA Pushed ==
  ASSUME LocalTypes, NEW t \in Transfer, t \notin blocking, QueueInv(t), NEW length \in 1 .. BufferSize,
         queue' = [queue EXCEPT ![t] = Append(@, [by |-> t, at |-> position[t], length |-> length])],
         position' = [position EXCEPT ![t] = position[t] + length], blocking' = blocking,
         position[t] \in Stretch(t), position[t] + length \in Stretch(t)
  PROVE  QueueInv(t)' /\ First(t)' = First(t) /\ queue' \in [Transfer -> Seq(Request)]
<1> DEFINE s == queue[t]
           r == queue'[t]
           n == Len(s)
           p == position[t]
           q == [by |-> t, at |-> p, length |-> length]
<1>1. s \in Seq(Request) /\ r = Append(s, q) /\ p \in Nat /\ position'[t] = p + length
  BY DEF LocalTypes
<1>2. q \in Request /\ q.by = t /\ q.at = p /\ q.length = length
  BY <1>1, TransferAssumption DEF Request
<1>3. /\ n \in Nat /\ r \in Seq(Request) /\ Len(r) = n + 1 /\ r # <<>>
      /\ DOMAIN s = 1 .. n /\ DOMAIN r = 1 .. n + 1
      /\ r[n + 1] = q /\ \A i \in 1 .. n : r[i] = s[i]
      /\ s = <<>> <=> n = 0
      /\ Head(r) = r[1] /\ n > 0 => Head(s) = s[1]
  <2> HIDE DEF s, r, q
  <2> QED BY <1>1, <1>2
<1>4. \A i \in 1 .. n :
        /\ s[i].by = t /\ s[i].length \in 1 .. BufferSize
        /\ s[i].at \in Stretch(t) /\ s[i].at + s[i].length \in Stretch(t)
        /\ s[i].at + s[i].length = IF i = n THEN p ELSE s[i + 1].at
  BY <1>3 DEF QueueInv
<1>5. ASSUME NEW i \in 1 .. n + 1
      PROVE  /\ r[i].by = t /\ r[i].length \in 1 .. BufferSize
             /\ r[i].at \in Stretch(t) /\ r[i].at + r[i].length \in Stretch(t)
             /\ r[i].at + r[i].length = IF i = n + 1 THEN p + length ELSE r[i + 1].at
  <2>0. p \in Stretch(t) /\ p + length \in Stretch(t)
    OBVIOUS
  <2> HIDE DEF s, r, n, q, p
  <2>1. CASE i = n + 1
    BY <1>2, <1>3, <2>0, <2>1
  <2>2. CASE i = n
    BY <1>2, <1>3, <1>4, <2>2
  <2>3. CASE i < n
    <3>1. i \in 1 .. n /\ i + 1 \in 1 .. n
      BY <1>3, <2>3
    <3> QED BY <1>3, <1>4, <2>3, <3>1
  <2> QED BY <1>3, <2>1, <2>2, <2>3
<1>6. QueueInv(t)'
  <2>1. Stretch(t)' = Stretch(t) /\ t \notin blocking'
    BY DEF Stretch
  <2> QED BY <1>1, <1>3, <1>5, <2>1 DEF QueueInv
<1>7. First(t)' = First(t)
  <2>1. CASE n = 0
    BY <1>2, <1>3, <2>1 DEF First
  <2>2. CASE n > 0
    BY <1>3, <2>2 DEF First
  <2> QED BY <1>3, <2>1, <2>2
<1>8. queue' \in [Transfer -> Seq(Request)]
  BY <1>1, <1>3 DEF LocalTypes
<1> QED BY <1>6, <1>7, <1>8

\* Whoever took the answer from the socket, it is the server's.
LEMMA AnswerComes ==
  ASSUME NetworkInv, LocalTypes, NEW t \in Transfer, NEW n, Answered(t, n), UNCHANGED <<size, stored>>
  PROVE  /\ queue[t] # <<>> /\ queue' = [queue EXCEPT ![t] = Tail(@)]
         /\ queue' \in [Transfer -> Seq(Request)]
         /\ Accurate(Head(queue[t]), n)
         /\ NetworkInv'
<1>0. /\ queue[t] # <<>> /\ queue' = [queue EXCEPT ![t] = Tail(@)]
      /\ link' = link /\ sent' = sent /\ owed' = owed
  BY DEF Answered
<1>1. PICK q : q = Head(queue[t])
  OBVIOUS
<1>2. PICK reply : reply = [request |-> q, result |-> n]
  OBVIOUS
<1>3. queue' \in [Transfer -> Seq(Request)]
  <2>1. queue[t] \in Seq(Request) /\ Tail(queue[t]) \in Seq(Request)
    BY <1>0 DEF LocalTypes
  <2> QED BY <1>0, <2>1 DEF LocalTypes
<1>4. CASE reply \in replies /\ replies' = replies \ {reply} /\ UNCHANGED <<window, inbound>>
  <2>1. Accurate(q, n)
    BY <1>2, <1>4 DEF NetworkInv, AnswersInv
  <2>2. NetworkInv'
    BY <1>0, <1>4, Idle
  <2> QED BY <1>0, <1>1, <1>3, <2>1, <2>2
<1>5. CASE n = Failed /\ UNCHANGED <<window, inbound, replies>>
  <2>1. Accurate(q, n)
    BY <1>5 DEF Accurate
  <2>2. NetworkInv'
    BY <1>0, <1>5, Idle
  <2> QED BY <1>0, <1>1, <1>3, <2>1, <2>2
<1>6. CASE \E i \in DOMAIN inbound :
            /\ inbound[i].request = q /\ inbound[i].result = n
            /\ window' = Room(i)
            /\ replies' = (replies \cup Taken(i)) \ {reply}
            /\ inbound' = SubSeq(inbound, i + 1, Len(inbound))
  <2>1. PICK i \in DOMAIN inbound :
            /\ inbound[i].request = q /\ inbound[i].result = n
            /\ window' = Room(i)
            /\ replies' = (replies \cup Taken(i)) \ {reply}
            /\ inbound' = SubSeq(inbound, i + 1, Len(inbound))
    BY <1>6
  <2>2. Accurate(q, n)
    BY <2>1 DEF NetworkInv, AnswersInv
  <2>3. i \in 0 .. Len(inbound)
    BY DEF NetworkInv, NetworkTypes
  <2>4. NetworkInv'
    BY <1>0, <2>1, <2>3, Taking
  <2> QED BY <1>0, <1>1, <1>3, <2>2, <2>4
<1> QED BY <1>1, <1>2, <1>4, <1>5, <1>6 DEF Answered

-----------------------------------------------------------------------------
(* The other transfers while one of them takes a step.                      *)

Untouched(u) ==
    /\ blocking' = blocking
    /\ pc'[u] = pc[u] /\ outcome'[u] = outcome[u] /\ begun'[u] = begun[u]
    /\ queue'[u] = queue[u] /\ position'[u] = position[u]
    /\ u \in Reader => delivered'[u] = delivered[u] /\ size'[u] = size[u]
    /\ u \in Writer => stored'[u] = stored[u]
    /\ busy = {u} => busy' = {u}

TransferInv(t) ==
    /\ QueueInv(t)
    /\ t \in Reader => ReaderInv(t)
    /\ t \in Writer => WriterInv(t)

LEMMA Others ==
  ASSUME NEW u \in Transfer, Untouched(u), TransferInv(u)
  PROVE  TransferInv(u)'
<1>1. u \in Reader \/ u \in Writer
  BY DEF Transfer
<1>2. Missing(u)' = Missing(u) /\ Piece(u)' = Piece(u)
  BY <1>1 DEF Untouched, Missing, Piece
<1>3. First(u)' = First(u) /\ Running(u)' = Running(u)
  BY DEF Untouched, First, Running
<1>4. QueueInv(u)'
  BY <1>2 DEF TransferInv, QueueInv, Untouched, Stretch
<1>5. ASSUME u \in Reader PROVE ReaderInv(u)'
  <2>1. ReaderInv(u) /\ delivered'[u] = delivered[u] /\ size'[u] = size[u]
    BY <1>5 DEF TransferInv, Untouched
  <2>2. ReaderSteps(u)'
    BY <1>3, <2>1 DEF ReaderInv, ReaderSteps, Untouched
  <2>3. StreamInv(u)'
    BY <1>3, <2>1 DEF ReaderInv, StreamInv, Streaming, Before, Untouched
  <2>4. ReadInv(u)'
    BY <2>1 DEF ReaderInv, ReadInv, Untouched
  <2>5. InOrder(u)' = InOrder(u) /\ Whole(u)' = Whole(u)
    BY <2>1 DEF InOrder, Whole, Expected
  <2> QED BY <2>1, <2>2, <2>3, <2>4, <2>5 DEF ReaderInv, Untouched
<1>6. ASSUME u \in Writer PROVE WriterInv(u)'
  BY <1>3, <1>6 DEF TransferInv, WriterInv, Untouched
<1> QED BY <1>4, <1>5, <1>6 DEF TransferInv

\* A step of t keeps the invariant when it keeps t's part of it.
LEMMA StepOf ==
  ASSUME IInv, NEW t \in Transfer, \A u \in Transfer \ {t} : Untouched(u),
         LocalTypes', NetworkInv', BusyInv', TransferInv(t)'
  PROVE  IInv'
<1>1. ASSUME NEW u \in Transfer PROVE TransferInv(u)'
  <2>1. TransferInv(u)
    BY DEF IInv, TransferInv
  <2> QED BY <2>1, Others
<1> QED BY <1>1 DEF IInv, TransferInv, Transfer

\* A call that holds the actor holds it while other transfers do without it.
LEMMA StillBusy ==
  ASSUME BusyInv, NEW t \in Transfer, \A u \in Transfer \ {t} : Untouched(u),
         LocalTypes, busy' = busy, busy # {t}, blocking' = blocking
  PROVE  BusyInv'
<1>1. CASE busy = {}
  BY <1>1 DEF BusyInv
<1>2. ASSUME NEW b \in blocking, busy = {b}, pc[b] = "call", Missing(b) > 0 PROVE BusyInv'
  <2>1. b \in Transfer \ {t}
    BY <1>2 DEF LocalTypes
  <2>2. Untouched(b) /\ b \in Reader \cup Writer
    BY <2>1 DEF Transfer
  <2>3. Missing(b)' = Missing(b)
    BY <2>2 DEF Untouched, Missing
  <2>4. pc'[b] = "call" /\ b \in blocking'
    BY <1>2, <2>2 DEF Untouched
  <2> QED BY <1>2, <2>3, <2>4 DEF BusyInv
<1> QED BY <1>1, <1>2 DEF BusyInv

-----------------------------------------------------------------------------
(* Steps by which a transfer comes to its end.                              *)

LEMMA ReaderTypes ==
  ASSUME LocalTypes, NEW t \in Reader
  PROVE  /\ t \in Transfer /\ t \notin Writer
         /\ From[t] \in Nat /\ Length[t] \in Nat /\ Size[t] \in Nat
         /\ begun[t] \in Nat /\ position[t] \in Nat /\ queue[t] \in Seq(Request)
         /\ delivered[t] \in Seq(Nat) /\ Len(delivered[t]) \in Nat
         /\ size[t] \in Nat /\ size[t] >= Size[t]
<1>1. t \in Transfer /\ t \notin Writer
  BY TransferAssumption DEF Transfer
<1>2. From[t] \in Nat /\ Length[t] \in Nat /\ Size[t] \in Nat /\ Growth \in Nat
  BY <1>1, TransferAssumption
<1>3. begun[t] \in Nat /\ position[t] \in Nat /\ queue[t] \in Seq(Request)
  BY <1>1 DEF LocalTypes
<1>4. delivered[t] \in Seq(Nat) /\ size[t] \in {Size[t], Size[t] + Growth}
  BY DEF LocalTypes
<1> QED BY <1>1, <1>2, <1>3, <1>4

Ends == {"ok", "failed", "cancelled"}

\* The transfer throws or returns.
LEMMA Leaving ==
  ASSUME IInv, NEW t \in Transfer, NEW o \in Ends,
         pc' = [pc EXCEPT ![t] = "leave"], outcome' = [outcome EXCEPT ![t] = o],
         o = "ok" => /\ t \in Reader => Whole(t)
                     /\ t \in Writer => stored[t] = 0 .. (Size[t] - 1),
         UNCHANGED <<blocking, begun, position, delivered, stored, cancelled, size>>,
         (busy' = busy /\ busy # {t}) \/ (busy = {t} /\ busy' = {}),
         queue' \in [Transfer -> Seq(Request)],
         \A u \in Transfer \ {t} : queue'[u] = queue[u],
         QueueInv(t)', NetworkInv'
  PROVE  IInv'
<1>1. LocalTypes'
  BY DEF IInv, LocalTypes, Ends
<1>2. \A u \in Transfer \ {t} : Untouched(u)
  BY DEF IInv, LocalTypes, Untouched
<1>3. BusyInv'
  <2>1. CASE busy' = {}
    BY <2>1 DEF BusyInv
  <2>2. CASE busy' = busy /\ busy # {t}
    BY <1>2, <2>2, StillBusy DEF IInv
  <2> QED BY <2>1, <2>2
<1>4. pc'[t] = "leave" /\ outcome'[t] = o /\ ~Running(t)'
  BY DEF IInv, LocalTypes, Running
<1>5. ASSUME t \in Reader PROVE ReaderInv(t)'
  <2>1. ReaderInv(t)
    BY <1>5 DEF IInv
  <2>2. ReaderSteps(t)'
    BY <1>4, <2>1 DEF ReaderInv, ReaderSteps
  <2>3. StreamInv(t)' /\ ReadInv(t)'
    BY <1>4 DEF StreamInv, Streaming, ReadInv
  <2>4. InOrder(t)' = InOrder(t) /\ Whole(t)' = Whole(t)
    BY DEF InOrder, Whole, Expected
  <2> QED BY <1>4, <1>5, <2>1, <2>2, <2>3, <2>4 DEF ReaderInv
<1>6. ASSUME t \in Writer PROVE WriterInv(t)'
  BY <1>4, <1>6 DEF IInv, WriterInv
<1> QED BY <1>1, <1>2, <1>3, <1>5, <1>6, StepOf DEF TransferInv

\* A transfer that has something under way when its queue is left alone.
LEMMA LeavingQueue ==
  ASSUME IInv, NEW t \in Transfer, NEW o \in Ends,
         pc' = [pc EXCEPT ![t] = "leave"], outcome' = [outcome EXCEPT ![t] = o],
         o = "ok" => /\ t \in Reader => Whole(t)
                     /\ t \in Writer => stored[t] = 0 .. (Size[t] - 1),
         UNCHANGED <<blocking, begun, queue, position, delivered, stored, cancelled, size, busy>>,
         UNCHANGED network, busy # {t}
  PROVE  IInv'
<1>1. QueueInv(t)'
  <2>1. QueueInv(t)
    BY DEF IInv
  <2>2. Missing(t)' = Missing(t) /\ Piece(t)' = Piece(t)
    BY DEF Missing, Piece
  <2> QED BY <2>1, <2>2 DEF QueueInv, Stretch
<1>2. NetworkInv'
  BY Idle DEF IInv, network
<1>3. queue' \in [Transfer -> Seq(Request)] /\ \A u \in Transfer \ {t} : queue'[u] = queue[u]
  BY DEF IInv, LocalTypes
<1>4. UNCHANGED <<blocking, begun, position, delivered, stored, cancelled, size>>
  OBVIOUS
<1>5. (busy' = busy /\ busy # {t}) \/ (busy = {t} /\ busy' = {})
  <2>1. busy' = busy
    OBVIOUS
  <2> QED BY <2>1
<1> QED BY <1>1, <1>2, <1>3, <1>4, <1>5, Leaving

\* Who runs, and is not in a blocking call, does not hold the actor.
LEMMA NotBusy ==
  ASSUME IInv, NEW t \in Transfer, pc[t] # "call"
  PROVE  busy # {t} /\ (t \in blocking => queue[t] = <<>>)
<1>1. busy # {t}
  BY DEF IInv, BusyInv
<1>2. ASSUME t \in blocking, queue[t] # <<>> PROVE FALSE
  <2>1. queue[t] \in Seq(Request) /\ Len(queue[t]) > 0
    BY <1>2 DEF IInv, LocalTypes
  <2>2. 1 \in DOMAIN queue[t]
    BY <2>1
  <2> QED BY <1>1, <1>2, <2>2 DEF IInv, QueueInv
<1> QED BY <1>1, <1>2

\* The transfer throws while its queue is left alone.
LEMMA ThrowsInv ==
  ASSUME IInv, NEW t \in Transfer, Throws(t), busy # {t},
         UNCHANGED <<blocking, begun, queue, position, delivered, stored, cancelled, size, busy>>,
         UNCHANGED network
  PROVE  IInv'
<1>1. "failed" \in Ends /\ "failed" # "ok"
  BY DEF Ends
<1>2. pc' = [pc EXCEPT ![t] = "leave"] /\ outcome' = [outcome EXCEPT ![t] = "failed"]
  BY DEF Throws
<1> QED BY <1>1, <1>2, LeavingQueue

LEMMA StepStartNext ==
  ASSUME IInv, NEW t \in Reader, StartNext(t)
  PROVE  IInv'
<1>0. /\ t \in Transfer /\ pc[t] = "next" /\ busy # {t} /\ NetworkInv'
      /\ UNCHANGED <<blocking, begun, queue, delivered, stored, cancelled, busy, size, network>>
  <2>1. t \in Transfer /\ pc[t] = "next"
    BY DEF StartNext, Transfer
  <2>2. UNCHANGED <<blocking, begun, queue, delivered, stored, cancelled, busy, size, network>>
    BY DEF StartNext
  <2>3. NetworkInv'
    BY <2>2, Idle DEF IInv, network
  <2> QED BY <2>1, <2>2, <2>3, NotBusy
<1>1. CASE t \in cancelled
  <2>1. /\ pc' = [pc EXCEPT ![t] = "leave"] /\ outcome' = [outcome EXCEPT ![t] = "cancelled"]
        /\ UNCHANGED position
    BY <1>1 DEF StartNext
  <2>2. "cancelled" \in Ends /\ "cancelled" # "ok"
    BY DEF Ends
  <2> QED BY <1>0, <2>1, <2>2, LeavingQueue
<1>2. CASE Throws(t) /\ UNCHANGED position
  BY <1>0, <1>2, ThrowsInv
<1>3. CASE /\ pc' = [pc EXCEPT ![t] = IF t \in blocking THEN "call" ELSE "fill"]
           /\ IF Seeks(t) THEN sftp_seek64(t, From[t]) ELSE UNCHANGED position
           /\ UNCHANGED outcome
  <2>1. ReaderInv(t) /\ QueueInv(t) /\ LocalTypes
    BY <1>0 DEF IInv
  <2>2. position' = IF begun[t] = 0 THEN [position EXCEPT ![t] = From[t]] ELSE position
    BY <1>3 DEF Seeks, sftp_seek64, Seek
  <2>3. begun[t] = 0 => delivered[t] = <<>> /\ queue[t] = <<>>
    BY <1>0, <2>1 DEF ReaderInv, ReaderSteps
  <2>4. LocalTypes' /\ position'[t] = IF begun[t] = 0 THEN From[t] ELSE position[t]
    BY <1>0, <1>3, <2>1, <2>2, ReaderTypes DEF LocalTypes
  <2>5. \A u \in Transfer \ {t} : Untouched(u)
    BY <1>0, <1>3, <2>1, <2>2 DEF LocalTypes, Untouched
  <2>6. BusyInv'
    BY <1>0, <2>5, StillBusy DEF IInv
  <2>7. QueueInv(t)'
    <3>1. Missing(t)' = Missing(t) /\ Piece(t)' = Piece(t)
      BY <1>0 DEF Missing, Piece
    <3>2. CASE begun[t] = 0
      BY <1>0, <2>3, <3>2 DEF QueueInv
    <3>3. CASE begun[t] # 0
      BY <1>0, <2>1, <2>4, <3>1, <3>3 DEF QueueInv, Stretch
    <3> QED BY <3>2, <3>3
  <2>8. ReaderInv(t)'
    <3>0. pc'[t] = (IF t \in blocking THEN "call" ELSE "fill") /\ outcome'[t] = outcome[t]
      BY <1>0, <1>3, <2>1 DEF LocalTypes
    <3>1. outcome[t] = "none" /\ begun[t] <= Length[t] /\ (t \in blocking => begun[t] = 0)
      BY <1>0, <2>1 DEF ReaderInv, ReaderSteps, Running
    <3>2. ReaderSteps(t)'
      BY <1>0, <3>0, <3>1 DEF ReaderSteps
    <3>3. StreamInv(t)'
      <4> SUFFICES ASSUME t \notin blocking PROVE StreamInv(t)'
        BY <1>0 DEF StreamInv, Streaming
      <4>1. CASE begun[t] = 0
        <5>1. /\ position'[t] = From[t] /\ First(t)' = From[t] /\ begun'[t] = 0
              /\ delivered'[t] = <<>> /\ Len(delivered'[t]) = 0
          BY <1>0, <2>3, <2>4, <4>1 DEF First
        <5>2. From[t] \in Nat /\ Size[t] \in Nat
          BY <2>1, ReaderTypes
        <5> QED BY <5>1, <5>2 DEF StreamInv, Before, LeastOf
      <4>2. CASE begun[t] # 0
        <5>1. Streaming(t) /\ StreamInv(t)
          BY <1>0, <2>1, <4>2, ReaderTypes DEF ReaderInv, Streaming, Running
        <5>2. position'[t] = position[t] /\ First(t)' = First(t)
          BY <1>0, <2>4, <4>2 DEF First
        <5> QED BY <1>0, <5>1, <5>2 DEF StreamInv, Before
      <4> QED BY <4>1, <4>2
    <3>4. ReadInv(t)'
      <4> SUFFICES ASSUME t \in blocking PROVE ReadInv(t)'
        BY <3>0 DEF ReadInv
      <4>1. /\ position'[t] = From[t] /\ delivered'[t] = <<>> /\ Len(delivered'[t]) = 0
            /\ From[t] \in Nat /\ Length[t] \in Nat
        BY <1>0, <2>1, <2>3, <2>4, <3>1, ReaderTypes
      <4> QED BY <4>1 DEF ReadInv
    <3>5. InOrder(t)' = InOrder(t)
      BY <1>0 DEF InOrder
    <3> QED BY <1>0, <2>1, <3>0, <3>1, <3>2, <3>3, <3>4, <3>5 DEF ReaderInv
  <2> QED BY <1>0, <2>1, <2>4, <2>5, <2>6, <2>7, <2>8, ReaderTypes, StepOf DEF TransferInv
<1> QED BY <1>1, <1>2, <1>3 DEF StartNext

\* What holds of a stream between the steps of one call of next.
LEMMA InNext ==
  ASSUME IInv, NEW t \in Reader, pc[t] \in {"fill", "take"}
  PROVE  /\ t \in Transfer /\ t \notin Writer /\ t \notin blocking /\ busy # {t}
         /\ LocalTypes /\ NetworkInv /\ QueueInv(t) /\ ReaderInv(t)
         /\ outcome[t] = "none" /\ begun[t] <= Length[t]
         /\ position[t] = From[t] + begun[t]
         /\ From[t] .. (LeastOf(First(t), Size[t]) - 1) \subseteq ToSet(delivered[t])
         /\ size[t] = Size[t] => Len(delivered[t]) = Before(t, First(t)) /\ InOrder(t)
<1>1. t \in Transfer /\ t \notin Writer /\ LocalTypes /\ NetworkInv /\ QueueInv(t) /\ ReaderInv(t)
  BY ReaderTypes DEF IInv
<1>2. t \notin blocking /\ outcome[t] = "none" /\ begun[t] <= Length[t]
  BY <1>1 DEF ReaderInv, ReaderSteps, Running
<1>3. Streaming(t) /\ StreamInv(t)
  BY <1>1, <1>2 DEF Streaming, Running, ReaderInv
<1>4. busy # {t}
  BY <1>1, NotBusy
<1> QED BY <1>1, <1>2, <1>3, <1>4 DEF StreamInv, ReaderInv

LEMMA StepFill ==
  ASSUME IInv, NEW t \in Reader, Fill(t)
  PROVE  IInv'
<1>0. /\ pc[t] = "fill" /\ Filling(t) /\ UNCHANGED <<blocking, delivered, stored, cancelled, busy, size>>
  BY DEF Fill
<1>1. /\ t \in Transfer /\ t \notin Writer /\ t \notin blocking /\ busy # {t}
      /\ LocalTypes /\ NetworkInv /\ QueueInv(t) /\ ReaderInv(t)
      /\ outcome[t] = "none" /\ begun[t] <= Length[t]
      /\ position[t] = From[t] + begun[t]
  BY <1>0, InNext
<1>2. CASE Throws(t) /\ UNCHANGED <<begun, queue, position, network>>
  BY <1>0, <1>1, <1>2, ThrowsInv
<1>3. CASE /\ MustWait(t) /\ pc' = [pc EXCEPT ![t] = "take"]
           /\ UNCHANGED <<outcome, begun, queue, position, network>>
  <2>1. LocalTypes' /\ pc'[t] = "take" /\ queue[t] # <<>>
    BY <1>0, <1>1, <1>3 DEF LocalTypes, MustWait
  <2>2. \A u \in Transfer \ {t} : Untouched(u)
    BY <1>0, <1>1, <1>3 DEF LocalTypes, Untouched
  <2>3. BusyInv'
    BY <1>0, <1>1, <1>3, <2>2, StillBusy DEF IInv
  <2>4. NetworkInv'
    BY <1>0, <1>1, <1>3, Idle DEF network
  <2>5. QueueInv(t)'
    BY <1>0, <1>1, <1>3 DEF QueueInv, Stretch
  <2>6. ReaderInv(t)'
    <3>1. ReaderSteps(t)'
      BY <1>0, <1>1, <1>3, <2>1 DEF ReaderInv, ReaderSteps, Running
    <3>2. Streaming(t) /\ First(t)' = First(t)
      BY <1>0, <1>1, <1>3 DEF Streaming, Running, First
    <3>3. StreamInv(t)'
      BY <1>0, <1>1, <1>3, <3>2 DEF ReaderInv, StreamInv, Before
    <3>4. ReadInv(t)' /\ InOrder(t)' = InOrder(t) /\ outcome'[t] # "ok"
      BY <1>0, <1>1, <1>3, <2>1 DEF ReadInv, InOrder
    <3> QED BY <1>0, <1>1, <3>1, <3>3, <3>4 DEF ReaderInv
  <2> QED BY <1>1, <2>1, <2>2, <2>3, <2>4, <2>5, <2>6, StepOf DEF TransferInv
<1>4. CASE beginRead(t, LeastOf(BufferSize, Length[t] - begun[t])) /\ UNCHANGED <<pc, outcome>>
  <2>1. PICK length : length = LeastOf(BufferSize, Length[t] - begun[t])
    OBVIOUS
  <2>2. /\ From[t] \in Nat /\ Length[t] \in Nat /\ begun[t] \in Nat /\ position[t] \in Nat
        /\ Size[t] \in Nat /\ delivered[t] \in Seq(Nat)
    BY <1>1, ReaderTypes
  <2>3. length \in 1 .. BufferSize /\ length \in Nat /\ begun[t] + length <= Length[t]
    <3>1. begun[t] < Length[t] /\ BufferSize \in Nat \ {0}
      BY <1>0, TransferAssumption DEF Filling
    <3> QED BY <2>1, <2>2, <3>1 DEF LeastOf
  <2>4. /\ SendRequest(t, length)
        /\ position' = [position EXCEPT ![t] = position[t] + length]
        /\ begun' = [begun EXCEPT ![t] = begun[t] + length]
        /\ queue' = [queue EXCEPT ![t] = Append(@, [by |-> t, at |-> position[t], length |-> length])]
    BY <1>4, <2>1 DEF beginRead, sftp_aio_begin_read, SendRequest, Seek
  <2>5. position[t] \in Stretch(t) /\ position[t] + length \in Stretch(t)
    <3>1. /\ position[t] >= From[t] /\ position[t] <= From[t] + Length[t]
          /\ position[t] + length >= From[t] /\ position[t] + length <= From[t] + Length[t]
          /\ position[t] \in Int /\ position[t] + length \in Int
      BY <1>1, <2>2, <2>3
    <3> QED BY <2>2, <3>1 DEF Stretch
  <2>6. QueueInv(t)' /\ First(t)' = First(t) /\ queue' \in [Transfer -> Seq(Request)]
    BY <1>0, <1>1, <2>3, <2>4, <2>5, Pushed
  <2>7. NetworkInv'
    BY <1>0, <1>1, <2>2, <2>3, <2>4, Sending
  <2>8. /\ LocalTypes' /\ position'[t] = From[t] + begun'[t] /\ begun'[t] = begun[t] + length
        /\ pc' = pc /\ outcome' = outcome
    <3>1. pc' = pc /\ outcome' = outcome
      BY <1>4
    <3>2. begun[t] + length \in Nat /\ position[t] + length \in Nat
      BY <2>2, <2>3
    <3>3. begun' \in [Transfer -> Nat] /\ position' \in [Transfer -> Nat]
      BY <1>1, <2>4, <3>2 DEF LocalTypes
    <3>4. LocalTypes'
      BY <1>0, <1>1, <2>6, <3>1, <3>3 DEF LocalTypes
    <3>5. begun'[t] = begun[t] + length /\ position'[t] = position[t] + length
      BY <1>1, <2>4 DEF LocalTypes
    <3> QED BY <1>1, <2>2, <2>3, <3>1, <3>4, <3>5
  <2>9. \A u \in Transfer \ {t} : Untouched(u)
    BY <1>0, <1>1, <2>4, <2>8 DEF LocalTypes, Untouched
  <2>10. BusyInv'
    BY <1>0, <1>1, <2>9, StillBusy DEF IInv
  <2>11. ReaderInv(t)'
    <3>1. ReaderSteps(t)'
      BY <1>0, <1>1, <2>2, <2>3, <2>8 DEF ReaderSteps
    <3>2. Streaming(t)
      BY <1>0, <1>1 DEF Streaming, Running
    <3>3. StreamInv(t)'
      BY <1>0, <1>1, <2>6, <2>8, <3>2 DEF ReaderInv, StreamInv, Before
    <3>4. ReadInv(t)' /\ InOrder(t)' = InOrder(t) /\ outcome'[t] # "ok"
      BY <1>0, <1>1, <2>8 DEF ReadInv, InOrder
    <3> QED BY <1>0, <1>1, <3>1, <3>3, <3>4 DEF ReaderInv
  <2> QED BY <1>1, <2>6, <2>7, <2>8, <2>9, <2>10, <2>11, StepOf DEF TransferInv
<1> QED BY <1>2, <1>3, <1>4 DEF Fill

\* What a read adds to what was delivered.
LEMMA Appended ==
  ASSUME NEW d \in Seq(Nat), NEW at \in Nat, NEW n \in Nat, NEW e,
         e = d \o [k \in 1 .. n |-> at + k - 1]
  PROVE  /\ e \in Seq(Nat) /\ Len(e) = Len(d) + n
         /\ \A i \in 1 .. Len(e) : e[i] = IF i <= Len(d) THEN d[i] ELSE at + (i - Len(d)) - 1
         /\ ToSet(d) \subseteq ToSet(e)
         /\ at .. (at + n - 1) \subseteq ToSet(e)
<1> DEFINE r == [k \in 1 .. n |-> at + k - 1]
<1>1. r \in Seq(Nat) /\ Len(r) = n /\ \A k \in 1 .. n : r[k] = at + k - 1
  OBVIOUS
<1>2. e = d \o r
  OBVIOUS
<1> HIDE DEF r
<1>3. /\ e \in Seq(Nat) /\ Len(e) = Len(d) + Len(r)
      /\ \A i \in 1 .. Len(d) + Len(r) : e[i] = IF i <= Len(d) THEN d[i] ELSE r[i - Len(d)]
  <2>1. /\ d \o r \in Seq(Nat) /\ Len(d \o r) = Len(d) + Len(r)
        /\ \A i \in 1 .. Len(d) + Len(r) : (d \o r)[i] = IF i <= Len(d) THEN d[i] ELSE r[i - Len(d)]
    BY <1>1, ConcatProperties, Zenon
  <2> QED BY <1>2, <2>1, Zenon
<1>4. Len(d) \in Nat /\ Len(e) = Len(d) + n
  BY <1>1, <1>3
<1>5. \A i \in 1 .. Len(e) : e[i] = IF i <= Len(d) THEN d[i] ELSE at + (i - Len(d)) - 1
  <2> TAKE i \in 1 .. Len(e)
  <2>1. CASE i <= Len(d)
    BY <1>1, <1>3, <1>4, <2>1
  <2>2. CASE i > Len(d)
    <3>1. i - Len(d) \in 1 .. n
      BY <1>4, <2>2
    <3> QED BY <1>1, <1>3, <1>4, <2>2, <3>1
  <2> QED BY <1>4, <2>1, <2>2
<1>6. DOMAIN d = 1 .. Len(d) /\ DOMAIN e = 1 .. Len(e)
  BY <1>3
<1>7. ToSet(d) \subseteq ToSet(e)
  <2>1. \A i \in DOMAIN d : i \in DOMAIN e /\ e[i] = d[i]
    BY <1>4, <1>5, <1>6
  <2> QED BY <2>1 DEF ToSet
<1>8. ASSUME NEW x \in at .. (at + n - 1) PROVE x \in ToSet(e)
  <2>1. PICK i : i = Len(d) + (x - at) + 1
    OBVIOUS
  <2>2. i \in 1 .. Len(e) /\ e[i] = x
    BY <1>4, <1>5, <2>1
  <2> QED BY <1>6, <2>2 DEF ToSet
<1> QED BY <1>3, <1>4, <1>5, <1>7, <1>8

\* A reader that was told of the end of the file, or asked for all, has it all.
LEMMA WholeAt ==
  ASSUME LocalTypes, NEW t \in Reader, NEW at \in Stretch(t), at >= Size[t] \/ at = From[t] + Length[t],
         From[t] .. (LeastOf(at, Size[t]) - 1) \subseteq ToSet(delivered[t]),
         size[t] = Size[t] => Len(delivered[t]) = Before(t, at) /\ InOrder(t)
  PROVE  Whole(t)
<1>1. /\ From[t] \in Nat /\ Length[t] \in Nat /\ Size[t] \in Nat
      /\ delivered[t] \in Seq(Nat) /\ at \in From[t] .. (From[t] + Length[t])
  BY ReaderTypes DEF Stretch
<1>2. Expected(t) \subseteq ToSet(delivered[t])
  <2>1. Expected(t) \subseteq From[t] .. (LeastOf(at, Size[t]) - 1)
    BY <1>1 DEF Expected, LeastOf
  <2> QED BY <2>1
<1>3. ASSUME size[t] = Size[t], NEW x \in ToSet(delivered[t]) PROVE x \in Expected(t)
  <2>1. DOMAIN delivered[t] = 1 .. Len(delivered[t])
    BY <1>1
  <2>2. PICK i \in 1 .. Len(delivered[t]) : x = From[t] + i - 1
    BY <1>3, <2>1 DEF ToSet, InOrder
  <2>3. i \in Int /\ i >= 1 /\ i <= Before(t, at)
    BY <1>1, <1>3, <2>2
  <2>4. x >= From[t] /\ x < LeastOf(From[t] + Length[t], Size[t]) /\ x \in Int
    <3>1. CASE at <= Size[t]
      <4>1. x < at
        BY <1>1, <2>2, <2>3, <3>1 DEF Before
      <4> QED BY <1>1, <2>2, <2>3, <3>1, <4>1 DEF LeastOf
    <3>2. CASE ~(at <= Size[t])
      <4>1. Before(t, at) = IF From[t] <= Size[t] THEN Size[t] - From[t] ELSE 0
        BY <3>2 DEF Before
      <4>2. From[t] <= Size[t] /\ x < Size[t]
        BY <1>1, <2>2, <2>3, <4>1
      <4>3. LeastOf(From[t] + Length[t], Size[t]) = Size[t]
        BY <1>1, <3>2 DEF LeastOf
      <4>4. x >= From[t] /\ x \in Int
        BY <1>1, <2>2, <2>3
      <4> QED BY <4>2, <4>3, <4>4
    <3> QED BY <3>1, <3>2
  <2> QED BY <1>1, <2>4 DEF Expected, LeastOf
<1> QED BY <1>2, <1>3 DEF Whole

\* A stream that has something in flight has asked for something.
LEMMA HasBegun ==
  ASSUME LocalTypes, NEW t \in Reader, t \notin blocking, QueueInv(t), queue[t] # <<>>,
         position[t] = From[t] + begun[t]
  PROVE  begun[t] > 0
<1>1. From[t] \in Nat /\ Length[t] \in Nat /\ begun[t] \in Nat /\ queue[t] \in Seq(Request)
  BY ReaderTypes
<1>2. PICK n : n = Len(queue[t])
  OBVIOUS
<1>3. n \in DOMAIN queue[t] /\ queue[t][n] \in Request
  BY <1>1, <1>2
<1>4. PICK q : q = queue[t][n]
  OBVIOUS
<1>5. q.length \in 1 .. BufferSize /\ q.at \in From[t] .. (From[t] + Length[t]) /\ q.at + q.length = position[t]
  BY <1>2, <1>3, <1>4 DEF QueueInv, Stretch
<1>6. q.length \in Nat \ {0} /\ q.at \in Nat /\ q.at >= From[t] /\ position[t] > From[t]
  BY <1>1, <1>5, TransferAssumption
<1> QED BY <1>1, <1>6

\* Nothing read is the end of the file.
LEMMA NothingLeft ==
  ASSUME LocalTypes, NEW t \in Reader, NEW q \in Request, q.by = t, q.length \in 1 .. BufferSize,
         Accurate(q, 0)
  PROVE  q.at >= Size[t]
<1>1. /\ t \notin Writer /\ Size[t] \in Nat /\ size[t] \in Nat /\ size[t] >= Size[t]
      /\ q.at \in Nat /\ q.length \in Nat \ {0}
  BY ReaderTypes, TransferAssumption DEF Request
<1>2. 0 \in {Available(q, Size[t]), Available(q, size[t])}
  BY <1>1 DEF Accurate, Failed
<1> QED BY <1>1, <1>2 DEF Available, LeastOf

\* What a stream has after one more of its requests was answered.
LEMMA Delivering ==
  ASSUME LocalTypes, NEW t \in Reader, NEW q \in Request, q.by = t, q.length \in 1 .. BufferSize,
         q.at \in Stretch(t), NEW n \in Nat \ {0}, Accurate(q, n),
         delivered' = [delivered EXCEPT ![t] = @ \o [k \in 1 .. n |-> q.at + k - 1]], size' = size,
         From[t] .. (LeastOf(q.at, Size[t]) - 1) \subseteq ToSet(delivered[t]),
         size[t] = Size[t] => Len(delivered[t]) = Before(t, q.at) /\ InOrder(t)
  PROVE  /\ delivered' \in [Reader -> Seq(Nat)]
         /\ From[t] .. (LeastOf(q.at + q.length, Size[t]) - 1) \subseteq ToSet(delivered'[t])
         /\ size'[t] = Size[t] => Len(delivered'[t]) = Before(t, q.at + q.length) /\ InOrder(t)'
<1>1. /\ t \notin Writer /\ From[t] \in Nat /\ Length[t] \in Nat /\ Size[t] \in Nat
      /\ size[t] \in Nat /\ size[t] >= Size[t]
      /\ delivered[t] \in Seq(Nat) /\ q.at \in Nat /\ q.length \in Nat \ {0} /\ q.at >= From[t]
  BY ReaderTypes, TransferAssumption DEF Request, Stretch
<1>2. n \in {Available(q, Size[t]), Available(q, size[t])}
  BY <1>1 DEF Accurate, Failed
<1>3. PICK d, e : d = delivered[t] /\ e = delivered'[t]
  OBVIOUS
<1>4. e = d \o [k \in 1 .. n |-> q.at + k - 1] /\ d \in Seq(Nat)
  BY <1>1, <1>3 DEF LocalTypes
<1>5. /\ e \in Seq(Nat) /\ Len(e) = Len(d) + n
      /\ \A i \in 1 .. Len(e) : e[i] = IF i <= Len(d) THEN d[i] ELSE q.at + (i - Len(d)) - 1
      /\ ToSet(d) \subseteq ToSet(e)
      /\ q.at .. (q.at + n - 1) \subseteq ToSet(e)
  <2>1. PICK at : at = q.at
    OBVIOUS
  <2>2. at \in Nat /\ n \in Nat /\ e = d \o [k \in 1 .. n |-> at + k - 1]
    BY <1>1, <1>4, <2>1
  <2> QED BY <1>4, <2>1, <2>2, Appended
<1>6. delivered' \in [Reader -> Seq(Nat)]
  BY <1>3, <1>5 DEF LocalTypes
<1>7. ASSUME NEW x \in From[t] .. (LeastOf(q.at + q.length, Size[t]) - 1) PROVE x \in ToSet(e)
  <2>1. CASE x < q.at
    <3>1. x \in From[t] .. (LeastOf(q.at, Size[t]) - 1)
      BY <1>1, <2>1 DEF LeastOf
    <3> QED BY <1>3, <1>5, <3>1
  <2>2. CASE x >= q.at
    <3>1. PICK s \in Nat : s >= Size[t] /\ n = Available(q, s)
      BY <1>1, <1>2
    <3>2. q.at < s /\ (n = q.length \/ n = s - q.at)
      BY <1>1, <3>1 DEF Available, LeastOf
    <3>3. x \in Int /\ x < LeastOf(q.at + q.length, Size[t])
      BY <1>1 DEF LeastOf
    <3>4. x < q.at + q.length /\ x < s
      BY <1>1, <3>1, <3>3 DEF LeastOf
    <3>5. x < q.at + n
      BY <1>1, <3>1, <3>2, <3>3, <3>4
    <3>6. x \in q.at .. (q.at + n - 1)
      BY <1>1, <2>2, <3>3, <3>5
    <3> QED BY <1>5, <3>6
  <2> QED BY <1>1, <2>1, <2>2
<1>8. ASSUME size'[t] = Size[t]
      PROVE  Len(e) = Before(t, q.at + q.length) /\ \A i \in 1 .. Len(e) : e[i] = From[t] + i - 1
  <2>1. n = Available(q, Size[t]) /\ size[t] = Size[t]
    BY <1>2, <1>8
  <2>2. q.at < Size[t] /\ n = LeastOf(q.length, Size[t] - q.at)
    BY <1>1, <2>1 DEF Available
  <2>3. Len(d) = q.at - From[t]
    BY <1>1, <1>3, <2>1, <2>2 DEF Before
  <2>4. Len(e) = Before(t, q.at + q.length)
    <3>1. Len(e) = q.at - From[t] + n
      BY <1>5, <2>3
    <3>2. From[t] <= q.at /\ From[t] <= Size[t] /\ q.at \in Nat /\ q.length \in Nat
      BY <1>1, <2>2
    <3>3. n \in Nat /\ From[t] \in Nat /\ Size[t] \in Nat
      BY <1>1
    <3>4. PICK at : at = q.at + q.length
      OBVIOUS
    <3>5. Before(t, at) = IF at <= Size[t] THEN at - From[t]
                          ELSE IF From[t] <= Size[t] THEN Size[t] - From[t] ELSE 0
      BY DEF Before
    <3>6. CASE q.length < Size[t] - q.at
      <4>1. n = q.length
        BY <2>2, <3>6 DEF LeastOf
      <4>2. at <= Size[t] /\ Len(e) = at - From[t]
        BY <3>1, <3>2, <3>3, <3>4, <3>6, <4>1
      <4> QED BY <3>4, <3>5, <4>2
    <3>7. CASE ~(q.length < Size[t] - q.at)
      <4>1. n = Size[t] - q.at
        BY <2>2, <3>7 DEF LeastOf
      <4>2. Len(e) = Size[t] - From[t] /\ at >= Size[t] /\ at \in Nat
        <5>1. Len(e) = Size[t] - From[t]
          BY <3>1, <3>2, <3>3, <4>1
        <5>2. at >= Size[t] /\ at \in Nat
          BY <3>2, <3>3, <3>4, <3>7
        <5> QED BY <5>1, <5>2
      <4>3. Before(t, at) = Size[t] - From[t]
        BY <3>2, <3>3, <3>5, <4>2
      <4> QED BY <3>4, <4>2, <4>3
    <3> QED BY <3>6, <3>7
  <2>5. \A i \in 1 .. Len(d) : d[i] = From[t] + i - 1
    BY <1>1, <1>3, <2>1 DEF InOrder
  <2>6. ASSUME NEW i \in 1 .. Len(e) PROVE e[i] = From[t] + i - 1
    <3>1. Len(d) \in Nat /\ Len(e) \in Nat /\ i \in Int /\ i >= 1
      BY <1>4, <1>5
    <3>2. CASE i <= Len(d)
      <4>1. i \in 1 .. Len(d)
        BY <3>1, <3>2
      <4> QED BY <1>5, <2>5, <3>2, <4>1
    <3>3. CASE ~(i <= Len(d))
      <4>1. e[i] = q.at + (i - Len(d)) - 1
        BY <1>5, <3>1, <3>3
      <4>0. q.at \in Nat /\ From[t] \in Nat
        BY <1>1
      <4>2. q.at = From[t] + Len(d) /\ q.at \in Nat /\ From[t] \in Nat
        BY <2>3, <4>0
      <4>3. q.at + (i - Len(d)) - 1 = From[t] + i - 1
        BY <3>1, <4>2
      <4> QED BY <4>1, <4>3
    <3> QED BY <3>2, <3>3
  <2> QED BY <2>4, <2>6
<1>9. DOMAIN e = 1 .. Len(e)
  BY <1>5
<1> QED BY <1>3, <1>6, <1>7, <1>8, <1>9 DEF InOrder

\* The stream ends by itself.
LEMMA ReturnsInv ==
  ASSUME IInv, NEW t \in Reader, Whole(t), Returns(t), busy # {t},
         UNCHANGED <<blocking, begun, position, delivered, stored, cancelled, size, busy>>,
         queue' \in [Transfer -> Seq(Request)], \A u \in Transfer \ {t} : queue'[u] = queue[u],
         QueueInv(t)', NetworkInv'
  PROVE  IInv'
<1>1. "ok" \in Ends /\ t \in Transfer /\ t \notin Writer
  BY ReaderTypes DEF Ends, IInv
<1>2. pc' = [pc EXCEPT ![t] = "leave"] /\ outcome' = [outcome EXCEPT ![t] = "ok"]
  BY DEF Returns
<1>3. (busy' = busy /\ busy # {t}) \/ (busy = {t} /\ busy' = {})
  OBVIOUS
<1>4. UNCHANGED <<blocking, begun, position, delivered, stored, cancelled, size>>
  OBVIOUS
<1> QED BY <1>1, <1>2, <1>3, <1>4, Leaving

LEMMA StepTake ==
  ASSUME IInv, NEW t \in Reader, Take(t)
  PROVE  IInv'
<1>0. /\ pc[t] = "take" \/ (pc[t] = "fill" /\ ~Filling(t))
      /\ UNCHANGED <<blocking, begun, position, stored, cancelled, busy, size>>
  BY DEF Take
<1>1. /\ t \in Transfer /\ t \notin Writer /\ t \notin blocking /\ busy # {t}
      /\ LocalTypes /\ NetworkInv /\ QueueInv(t) /\ ReaderInv(t)
      /\ outcome[t] = "none" /\ begun[t] <= Length[t]
      /\ position[t] = From[t] + begun[t]
      /\ From[t] .. (LeastOf(First(t), Size[t]) - 1) \subseteq ToSet(delivered[t])
      /\ size[t] = Size[t] => Len(delivered[t]) = Before(t, First(t)) /\ InOrder(t)
  BY <1>0, InNext
<1>2. /\ From[t] \in Nat /\ Length[t] \in Nat /\ begun[t] \in Nat /\ position[t] \in Nat
      /\ Size[t] \in Nat
  BY <1>1, ReaderTypes
<1>3. CASE queue[t] = <<>> /\ Returns(t) /\ UNCHANGED <<queue, delivered, network>>
  <2>1. Len(queue[t]) = 0 /\ pc[t] = "fill"
    BY <1>0, <1>1, <1>3 DEF ReaderInv, ReaderSteps
  <2>2. begun[t] = Length[t]
    BY <1>0, <1>1, <1>2, <2>1, TransferAssumption DEF Filling
  <2>3. First(t) = From[t] + Length[t] /\ First(t) \in Stretch(t)
    BY <1>1, <1>2, <1>3, <2>2 DEF First, Stretch
  <2>4. Whole(t)
    BY <1>1, <2>3, WholeAt
  <2>5. NetworkInv'
    BY <1>0, <1>1, <1>3, Idle DEF network
  <2>6. QueueInv(t)'
    BY <1>0, <1>1, <1>3 DEF QueueInv
  <2>7. queue' \in [Transfer -> Seq(Request)] /\ \A u \in Transfer \ {t} : queue'[u] = queue[u]
    BY <1>1, <1>3 DEF LocalTypes
  <2>8. UNCHANGED <<blocking, begun, position, delivered, stored, cancelled, size, busy>>
    BY <1>0, <1>3
  <2> QED BY <1>1, <1>3, <2>4, <2>5, <2>6, <2>7, <2>8, ReturnsInv
<1>4. ASSUME NEW n \in Failed .. BufferSize, sftp_aio_wait_read(t, n),
             \/ n = Failed /\ Throws(t) /\ UNCHANGED delivered
             \/ n = 0 /\ Returns(t) /\ UNCHANGED delivered
             \/ /\ n > 0
                /\ pc' = [pc EXCEPT ![t] = "next"]
                /\ delivered' = [delivered EXCEPT ![t] = @ \o Reads(t, n)]
                /\ UNCHANGED outcome
      PROVE  IInv'
  <2>1. PICK q : q = Head(queue[t])
    OBVIOUS
  <2>2. /\ queue[t] # <<>> /\ queue' = [queue EXCEPT ![t] = Tail(@)]
        /\ queue' \in [Transfer -> Seq(Request)] /\ Accurate(q, n) /\ NetworkInv'
    BY <1>0, <1>1, <1>4, <2>1, AnswerComes DEF sftp_aio_wait_read
  <2>3. position'[t] = position[t] /\ blocking' = blocking
    BY <1>0
  <2>4. /\ q \in Request /\ q.by = t /\ q.length \in 1 .. BufferSize
        /\ q.at \in Stretch(t) /\ q.at + q.length \in Stretch(t)
        /\ First(t) = q.at /\ QueueInv(t)' /\ First(t)' = q.at + q.length
    BY <1>1, <2>1, <2>2, <2>3, Popped
  <2>5. \A u \in Transfer \ {t} : queue'[u] = queue[u]
    BY <1>1, <2>2 DEF LocalTypes
  <2>6. CASE n = Failed /\ Throws(t) /\ UNCHANGED delivered
    <3>1. pc' = [pc EXCEPT ![t] = "leave"] /\ outcome' = [outcome EXCEPT ![t] = "failed"]
      BY <2>6 DEF Throws
    <3>2. "failed" \in Ends /\ "failed" # "ok"
      BY DEF Ends
    <3>3. UNCHANGED <<blocking, begun, position, delivered, stored, cancelled, size>>
      BY <1>0, <2>6
    <3>4. (busy' = busy /\ busy # {t}) \/ (busy = {t} /\ busy' = {})
      BY <1>0, <1>1
    <3> QED BY <1>1, <2>2, <2>4, <2>5, <3>1, <3>2, <3>3, <3>4, Leaving
  <2>7. CASE n = 0 /\ Returns(t) /\ UNCHANGED delivered
    <3>1. q.at >= Size[t]
      BY <1>1, <2>2, <2>4, <2>7, NothingLeft
    <3>2. Whole(t)
      BY <1>1, <2>4, <3>1, WholeAt
    <3>3. UNCHANGED <<blocking, begun, position, delivered, stored, cancelled, size, busy>>
      BY <1>0, <2>7
    <3> QED BY <1>1, <2>2, <2>4, <2>5, <2>7, <3>2, <3>3, ReturnsInv
  <2>8. CASE /\ n > 0 /\ pc' = [pc EXCEPT ![t] = "next"]
             /\ delivered' = [delivered EXCEPT ![t] = @ \o Reads(t, n)]
             /\ UNCHANGED outcome
    <3>1. n \in Nat \ {0} /\ size' = size
      BY <1>0, <2>8, TransferAssumption DEF Failed
    <3>2. delivered' = [delivered EXCEPT ![t] = @ \o [k \in 1 .. n |-> q.at + k - 1]]
      BY <2>1, <2>8 DEF Reads
    <3>3. /\ delivered' \in [Reader -> Seq(Nat)]
          /\ From[t] .. (LeastOf(First(t)', Size[t]) - 1) \subseteq ToSet(delivered'[t])
          /\ size'[t] = Size[t] => Len(delivered'[t]) = Before(t, First(t)') /\ InOrder(t)'
      <4>1. /\ From[t] .. (LeastOf(q.at, Size[t]) - 1) \subseteq ToSet(delivered[t])
            /\ size[t] = Size[t] => Len(delivered[t]) = Before(t, q.at) /\ InOrder(t)
        BY <1>1, <2>4
      <4>2. /\ delivered' \in [Reader -> Seq(Nat)]
            /\ From[t] .. (LeastOf(q.at + q.length, Size[t]) - 1) \subseteq ToSet(delivered'[t])
            /\ size'[t] = Size[t] => Len(delivered'[t]) = Before(t, q.at + q.length) /\ InOrder(t)'
        BY <1>1, <2>2, <2>4, <3>1, <3>2, <4>1, Delivering
      <4> QED BY <2>4, <4>2
    <3>4. begun[t] > 0
      BY <1>1, <2>2, HasBegun
    <3>5. LocalTypes' /\ pc'[t] = "next" /\ outcome'[t] = "none"
      BY <1>0, <1>1, <2>2, <2>8, <3>3 DEF LocalTypes
    <3>6. \A u \in Transfer \ {t} : Untouched(u)
      BY <1>0, <1>1, <2>5, <2>8 DEF LocalTypes, Untouched
    <3>7. BusyInv'
      BY <1>0, <1>1, <3>6, StillBusy DEF IInv
    <3>8. ReaderInv(t)'
      <4>1. ReaderSteps(t)'
        BY <1>0, <1>1, <3>4, <3>5 DEF ReaderSteps
      <4>2. StreamInv(t)'
        <5>1. position'[t] = From[t] + begun'[t]
          BY <1>0, <1>1
        <5>2. Before(t, First(t)') = Before(t, First(t))'
          BY DEF Before
        <5> QED BY <3>3, <5>1, <5>2 DEF StreamInv
      <4>3. ReadInv(t)' /\ t \notin blocking'
        BY <1>0, <1>1, <3>5 DEF ReadInv
      <4> QED BY <3>3, <3>5, <4>1, <4>2, <4>3 DEF ReaderInv
    <3> QED BY <1>1, <2>2, <2>4, <3>5, <3>6, <3>7, <3>8, StepOf DEF TransferInv
  <2> QED BY <1>4, <2>6, <2>7, <2>8
<1> QED BY <1>3, <1>4 DEF Take

-----------------------------------------------------------------------------
(* Steps that are not a transfer's: the server's, the connection's, and     *)
(* those that others take around it.                                        *)

LEMMA Outside ==
  ASSUME IInv, UNCHANGED <<blocking, pc, outcome, begun, queue, position, delivered, busy>>,
         LocalTypes', NetworkInv',
         \A t \in Reader : size'[t] = size[t] \/ size'[t] # Size[t],
         \A t \in Writer : stored[t] \subseteq stored'[t] /\ stored'[t] \subseteq 0 .. (Size[t] - 1)
  PROVE  IInv'
<1>1. \A t : /\ Missing(t)' = Missing(t) /\ Piece(t)' = Piece(t) /\ First(t)' = First(t)
             /\ Running(t)' = Running(t) /\ Stretch(t)' = Stretch(t)
             /\ InOrder(t)' = InOrder(t)
  BY DEF Missing, Piece, First, Running, Stretch, InOrder
<1>2. BusyInv'
  BY <1>1 DEF IInv, BusyInv
<1>3. ASSUME NEW t \in Transfer PROVE QueueInv(t)'
  BY <1>1 DEF IInv, QueueInv
<1>4. ASSUME NEW t \in Reader PROVE ReaderInv(t)'
  <2>1. ReaderInv(t) /\ (size'[t] = size[t] \/ size'[t] # Size[t])
    BY DEF IInv
  <2>2. ReaderSteps(t)'
    BY <1>1, <2>1 DEF IInv, ReaderInv, ReaderSteps
  <2>3. StreamInv(t)'
    BY <1>1, <2>1 DEF IInv, ReaderInv, StreamInv, Streaming, Before
  <2>4. ReadInv(t)'
    BY <2>1 DEF IInv, ReaderInv, ReadInv
  <2>5. Whole(t) => Whole(t)'
    BY <2>1 DEF Whole, Expected
  <2> QED BY <1>1, <2>1, <2>2, <2>3, <2>4, <2>5 DEF IInv, ReaderInv
<1>5. ASSUME NEW t \in Writer PROVE WriterInv(t)'
  BY <1>1 DEF IInv, WriterInv
<1> QED BY <1>2, <1>3, <1>4, <1>5 DEF IInv

LEMMA StepCancel ==
  ASSUME IInv, NEW t \in Reader, Cancel(t)
  PROVE  IInv'
<1>1. /\ UNCHANGED <<blocking, pc, outcome, begun, queue, position, delivered, stored, busy, size>>
      /\ UNCHANGED network /\ cancelled' = cancelled \cup {t} /\ t \notin blocking
  BY DEF Cancel
<1>2. LocalTypes'
  BY <1>1 DEF IInv, LocalTypes
<1>3. NetworkInv'
  BY <1>1, Idle DEF IInv, network
<1>4. \A u \in Writer : stored[u] \subseteq stored'[u] /\ stored'[u] \subseteq 0 .. (Size[u] - 1)
  BY <1>1 DEF IInv, WriterInv
<1> QED BY <1>1, <1>2, <1>3, <1>4, Outside

LEMMA StepGrow ==
  ASSUME IInv, NEW t \in Reader, Grow(t)
  PROVE  IInv'
<1>1. /\ UNCHANGED <<blocking, pc, outcome, begun, queue, position, delivered, stored, busy, cancelled>>
      /\ UNCHANGED network /\ size[t] = Size[t] /\ Growth > 0
      /\ size' = [size EXCEPT ![t] = @ + Growth]
  BY DEF Grow, local
<1>2. Size[t] \in Nat /\ Growth \in Nat
  BY ReaderTypes, TransferAssumption DEF IInv
<1>3. /\ size'[t] = Size[t] + Growth /\ size'[t] # Size[t] /\ size' \in [Reader -> Nat]
      /\ \A u \in Reader \ {t} : size'[u] = size[u]
  BY <1>1, <1>2 DEF IInv, LocalTypes
<1>4. LocalTypes'
  BY <1>1, <1>3 DEF IInv, LocalTypes
<1>5. NetworkInv'
  BY <1>1, <1>3, Idle DEF IInv, network
<1>6. \A u \in Writer : stored[u] \subseteq stored'[u] /\ stored'[u] \subseteq 0 .. (Size[u] - 1)
  BY <1>1 DEF IInv, WriterInv
<1> QED BY <1>1, <1>3, <1>4, <1>5, <1>6, Outside

LEMMA StepServe ==
  ASSUME IInv, Serve
  PROVE  IInv'
<1>1. NetworkInv'
  BY Serving DEF IInv
<1>2. PICK i, q, n, credit : Served(i, q, n, credit)
  BY ServeStep DEF IInv
<1>3. UNCHANGED <<blocking, pc, outcome, begun, queue, position, delivered, cancelled, busy, size>>
  BY DEF Serve, local
<1>4. /\ i \in 1 .. Len(sent) /\ q = sent[i] /\ q \in Request /\ n \in Answers(q)
      /\ stored' = StoredWith(q, n)
  BY <1>2 DEF Served
<1>5. /\ \A t \in Writer : stored[t] \subseteq stored'[t]
      /\ \A t \in Writer :
             stored'[t] \subseteq stored[t] \cup IF t = q.by THEN q.at .. (q.at + q.length - 1) ELSE {}
  BY <1>4, ServerStores DEF IInv
<1>6. ASSUME NEW t \in Writer PROVE stored'[t] \subseteq 0 .. (Size[t] - 1)
  <2>1. stored[t] \subseteq 0 .. (Size[t] - 1)
    BY DEF IInv, WriterInv
  <2>2. ASSUME t = q.by PROVE q.at .. (q.at + q.length - 1) \subseteq 0 .. (Size[t] - 1)
    <3>1. q.at + q.length <= Size[t]
      BY <1>4, <2>2 DEF IInv, NetworkInv, NetworkTypes, SentInv
    <3>2. q.at \in Nat /\ q.length \in Nat /\ Size[t] \in Nat
      BY <1>4, TransferAssumption DEF Request, Transfer
    <3> QED BY <3>1, <3>2
  <2> QED BY <1>5, <2>1, <2>2
<1>7. LocalTypes'
  <2>1. stored' \in [Writer -> SUBSET Nat]
    <3>1. stored \in [Writer -> SUBSET Nat]
      BY DEF IInv, LocalTypes
    <3>2. DOMAIN stored' = Writer /\ stored' = [t \in Writer |-> stored'[t]]
      BY <1>4, <3>1 DEF StoredWith
    <3>3. \A t \in Writer : stored'[t] \subseteq Nat
      BY <1>6
    <3> QED BY <3>2, <3>3
  <2> QED BY <1>3, <2>1 DEF IInv, LocalTypes
<1> QED BY <1>1, <1>3, <1>5, <1>6, <1>7, Outside

LEMMA StepLose ==
  ASSUME IInv, LoseConnection \/ CloseSftp
  PROVE  IInv'
<1>1. /\ UNCHANGED <<blocking, pc, outcome, begun, queue, position, delivered, stored, cancelled,
                     busy, size, window, owed>>
      /\ link' \in {"up", "down", "closed"} /\ sent' = <<>> /\ inbound' = <<>>
      /\ replies' \subseteq replies
  BY DEF LoseConnection, CloseSftp, local
<1>2. LocalTypes'
  BY <1>1 DEF IInv, LocalTypes
<1>3. NetworkInv'
  BY <1>1, Dropping DEF IInv
<1>4. \A u \in Writer : stored[u] \subseteq stored'[u] /\ stored'[u] \subseteq 0 .. (Size[u] - 1)
  BY <1>1 DEF IInv, WriterInv
<1> QED BY <1>1, <1>2, <1>3, <1>4, Outside

LEMMA Stuttering ==
  ASSUME IInv, UNCHANGED vars
  PROVE  IInv'
<1>1. UNCHANGED <<blocking, pc, outcome, begun, queue, position, delivered, stored, cancelled, busy,
                  size, link, window, sent, owed, inbound, replies>>
  BY DEF vars
<1>2. LocalTypes'
  BY <1>1 DEF IInv, LocalTypes
<1>3. NetworkInv'
  BY <1>1, Idle DEF IInv
<1>4. \A u \in Writer : stored[u] \subseteq stored'[u] /\ stored'[u] \subseteq 0 .. (Size[u] - 1)
  BY <1>1 DEF IInv, WriterInv
<1> QED BY <1>1, <1>2, <1>3, <1>4, Outside

-----------------------------------------------------------------------------
(* Uploads. *)

\* The piece that byte b is in.
LEMMA Pieces ==
  ASSUME NEW b \in Nat, NEW B \in Nat \ {0}
  PROVE  b \div B \in Nat /\ B * (b \div B) <= b /\ b < B * (b \div B) + B
OBVIOUS

LEMMA NextPiece ==
  ASSUME NEW k \in Nat, NEW B \in Nat \ {0}
  PROVE  B * (k + 1) = B * k + B /\ B * k \in Nat
OBVIOUS

\* A writer asks for at least a byte, and for no more than there are.
LEMMA RemainingBounds ==
  ASSUME LocalTypes, NEW t \in Writer, begun[t] < Size[t]
  PROVE  Remaining(t) \in 1 .. BufferSize /\ begun[t] + Remaining(t) <= Size[t]
<1>1. t \in Transfer /\ begun[t] \in Nat /\ Size[t] \in Nat /\ BufferSize \in Nat \ {0}
  BY TransferAssumption DEF LocalTypes, Transfer
<1>2. PICK k : k = begun[t] \div BufferSize
  OBVIOUS
<1>3. k \in Nat /\ BufferSize * k <= begun[t] /\ begun[t] < BufferSize * k + BufferSize
  BY <1>1, <1>2, Pieces
<1>4. PICK end : end = BufferSize * (k + 1)
  OBVIOUS
<1>5. end \in Nat /\ begun[t] < end /\ end <= begun[t] + BufferSize
  BY <1>1, <1>3, <1>4, NextPiece
<1>6. Remaining(t) = LeastOf(Size[t], end) - begun[t]
  BY <1>2, <1>4 DEF Remaining
<1> QED BY <1>1, <1>5, <1>6 DEF LeastOf

\* What holds of an upload while it writes.
LEMMA InWrite ==
  ASSUME IInv, NEW t \in Writer, pc[t] \in {"write", "drain"}
  PROVE  /\ t \in Transfer /\ t \notin Reader /\ t \notin blocking /\ busy # {t}
         /\ LocalTypes /\ NetworkInv /\ QueueInv(t) /\ WriterInv(t)
         /\ outcome[t] = "none" /\ position[t] = begun[t]
         /\ begun[t] \in Nat /\ Size[t] \in Nat /\ begun[t] <= Size[t]
         /\ stored[t] \subseteq 0 .. (Size[t] - 1)
         /\ 0 .. (First(t) - 1) \subseteq stored[t]
<1>1. /\ t \in Transfer /\ t \notin Reader /\ LocalTypes /\ NetworkInv /\ QueueInv(t) /\ WriterInv(t)
  BY TransferAssumption DEF IInv, Transfer
<1>2. t \notin blocking /\ Running(t)
  BY <1>1 DEF WriterInv, Running
<1>3. busy # {t}
  BY <1>1, NotBusy
<1>4. begun[t] \in Nat /\ Size[t] \in Nat
  BY <1>1, TransferAssumption DEF LocalTypes
<1> QED BY <1>1, <1>2, <1>3, <1>4 DEF WriterInv

\* The upload goes on: what of it is stored and what it waits for fit.
LEMMA WriteGoesOn ==
  ASSUME IInv, NEW t \in Writer, t \notin blocking, busy # {t}, pc[t] \in {"write", "drain"},
         NEW step \in {"write", "drain"}, pc' = [pc EXCEPT ![t] = step],
         UNCHANGED <<blocking, outcome, delivered, stored, cancelled, busy, size>>,
         begun' \in [Transfer -> Nat], position' \in [Transfer -> Nat],
         queue' \in [Transfer -> Seq(Request)],
         \A u \in Transfer \ {t} : /\ begun'[u] = begun[u] /\ position'[u] = position[u]
                                   /\ queue'[u] = queue[u],
         QueueInv(t)', NetworkInv', position'[t] = begun'[t], begun'[t] <= Size[t],
         0 .. (First(t)' - 1) \subseteq stored[t]
  PROVE  IInv'
<1>1. t \in Transfer /\ t \notin Reader /\ LocalTypes
  BY TransferAssumption DEF IInv, Transfer
<1>2. LocalTypes' /\ pc'[t] = step
  BY <1>1 DEF LocalTypes
<1>3. \A u \in Transfer \ {t} : Untouched(u)
  BY <1>1 DEF LocalTypes, Untouched
<1>4. BusyInv'
  BY <1>1, <1>2, <1>3, StillBusy DEF IInv
<1>5. WriterInv(t)'
  <2>1. WriterInv(t) /\ outcome[t] = "none"
    BY DEF IInv, WriterInv, Running
  <2> QED BY <1>2, <2>1 DEF WriterInv
<1> QED BY <1>1, <1>2, <1>3, <1>4, <1>5, StepOf DEF TransferInv

LEMMA StepWrite ==
  ASSUME IInv, NEW t \in Writer, Write(t)
  PROVE  IInv'
<1>0. /\ pc[t] = "write" /\ begun[t] < Size[t]
      /\ UNCHANGED <<blocking, delivered, stored, cancelled, busy, size>>
  BY DEF Write, Writing
<1>1. /\ t \in Transfer /\ t \notin Reader /\ t \notin blocking /\ busy # {t}
      /\ LocalTypes /\ NetworkInv /\ QueueInv(t) /\ WriterInv(t)
      /\ outcome[t] = "none" /\ position[t] = begun[t]
      /\ begun[t] \in Nat /\ Size[t] \in Nat /\ begun[t] <= Size[t]
      /\ stored[t] \subseteq 0 .. (Size[t] - 1)
      /\ 0 .. (First(t) - 1) \subseteq stored[t]
  BY <1>0, InWrite
<1>2. CASE Throws(t) /\ UNCHANGED <<begun, queue, position, network>>
  BY <1>0, <1>1, <1>2, ThrowsInv
<1>3. CASE /\ pc' = [pc EXCEPT ![t] = "drain"]
           /\ UNCHANGED <<outcome, begun, queue, position, network>>
  <2>1. NetworkInv'
    BY <1>0, <1>1, <1>3, Idle DEF network
  <2>2. QueueInv(t)' /\ First(t)' = First(t)
    BY <1>0, <1>1, <1>3 DEF QueueInv, Stretch, First
  <2>3. /\ begun' \in [Transfer -> Nat] /\ position' \in [Transfer -> Nat]
        /\ queue' \in [Transfer -> Seq(Request)]
        /\ \A u \in Transfer \ {t} : /\ begun'[u] = begun[u] /\ position'[u] = position[u]
                                     /\ queue'[u] = queue[u]
        /\ position'[t] = begun'[t] /\ begun'[t] <= Size[t]
    BY <1>1, <1>3 DEF LocalTypes
  <2>4. 0 .. (First(t)' - 1) \subseteq stored[t]
    BY <1>1, <2>2
  <2>5. UNCHANGED <<blocking, outcome, delivered, stored, cancelled, busy, size>>
    BY <1>0, <1>3
  <2> QED BY <1>0, <1>1, <1>3, <2>1, <2>2, <2>3, <2>4, <2>5, WriteGoesOn
<1>4. CASE beginWrite(t, Remaining(t)) /\ UNCHANGED <<pc, outcome>>
  <2>1. PICK length : length = LeastOf(Remaining(t), window - Overhead)
    OBVIOUS
  <2>2. Remaining(t) \in 1 .. BufferSize /\ begun[t] + Remaining(t) <= Size[t]
    BY <1>0, <1>1, RemainingBounds
  <2>3. /\ SendRequest(t, length)
        /\ position' = [position EXCEPT ![t] = position[t] + length]
        /\ begun' = [begun EXCEPT ![t] = begun[t] + length]
        /\ queue' = [queue EXCEPT ![t] = Append(@, [by |-> t, at |-> position[t], length |-> length])]
        /\ ~NoRoom(t)
    BY <1>4, <2>1 DEF beginWrite, sftp_aio_begin_write, SendRequest, Seek
  <2>4. length \in 1 .. BufferSize /\ length \in Nat /\ begun[t] + length <= Size[t]
    <3>1. link = "up"
      BY <2>3 DEF SendRequest
    <3>2. window >= Overhead + 1
      BY <1>1, <2>3, <3>1, TransferAssumption DEF NoRoom, NetworkInv, NetworkTypes
    <3>3. window \in Nat /\ Overhead \in Nat /\ BufferSize \in Nat
      BY <1>1, TransferAssumption DEF NetworkInv, NetworkTypes
    <3> QED BY <1>1, <2>1, <2>2, <3>2, <3>3 DEF LeastOf
  <2>5. position[t] \in Stretch(t) /\ position[t] + length \in Stretch(t)
    <3>1. position[t] \in 0 .. Size[t] /\ position[t] + length \in 0 .. Size[t]
      BY <1>1, <2>4
    <3> QED BY <1>1, <3>1 DEF Stretch
  <2>6. QueueInv(t)' /\ First(t)' = First(t) /\ queue' \in [Transfer -> Seq(Request)]
    BY <1>0, <1>1, <2>3, <2>4, <2>5, Pushed
  <2>7. NetworkInv'
    BY <1>0, <1>1, <2>3, <2>4, Sending
  <2>8. /\ begun' \in [Transfer -> Nat] /\ position' \in [Transfer -> Nat]
        /\ begun'[t] = begun[t] + length /\ position'[t] = position[t] + length
    <3>1. begun[t] + length \in Nat /\ position[t] + length \in Nat
      BY <1>1, <2>4
    <3> QED BY <1>1, <2>3, <3>1 DEF LocalTypes
  <2>9. \A u \in Transfer \ {t} : /\ begun'[u] = begun[u] /\ position'[u] = position[u]
                                  /\ queue'[u] = queue[u]
    BY <1>1, <2>3 DEF LocalTypes
  <2>10. UNCHANGED <<blocking, outcome, delivered, stored, cancelled, busy, size>>
    BY <1>0, <1>4
  <2>11. pc' = [pc EXCEPT ![t] = "write"]
    BY <1>0, <1>1, <1>4 DEF LocalTypes
  <2>12. 0 .. (First(t)' - 1) \subseteq stored[t] /\ position'[t] = begun'[t] /\ begun'[t] <= Size[t]
    BY <1>1, <2>4, <2>6, <2>8
  <2> QED BY <1>0, <1>1, <2>6, <2>7, <2>8, <2>9, <2>10, <2>11, <2>12, WriteGoesOn
<1> QED BY <1>2, <1>3, <1>4 DEF Write

LEMMA StepFlush ==
  ASSUME IInv, NEW t \in Writer, Flush(t)
  PROVE  IInv'
<1>0. /\ pc[t] \in {"write", "drain"}
      /\ UNCHANGED <<blocking, begun, position, delivered, stored, cancelled, busy, size>>
  BY DEF Flush, Writing, Flushing
<1>1. /\ t \in Transfer /\ t \notin Reader /\ t \notin blocking /\ busy # {t}
      /\ LocalTypes /\ NetworkInv /\ QueueInv(t) /\ WriterInv(t)
      /\ outcome[t] = "none" /\ position[t] = begun[t]
      /\ begun[t] \in Nat /\ Size[t] \in Nat /\ begun[t] <= Size[t]
      /\ stored[t] \subseteq 0 .. (Size[t] - 1)
      /\ 0 .. (First(t) - 1) \subseteq stored[t]
  BY <1>0, InWrite
<1>2. PICK n \in Failed .. BufferSize :
        /\ sftp_aio_wait_write(t, n)
        /\ IF n = Failed THEN Throws(t)
           ELSE pc' = [pc EXCEPT ![t] = "write"] /\ UNCHANGED outcome
  BY DEF Flush
<1>3. PICK q : q = Head(queue[t])
  OBVIOUS
<1>4. /\ queue[t] # <<>> /\ queue' = [queue EXCEPT ![t] = Tail(@)]
      /\ queue' \in [Transfer -> Seq(Request)] /\ Accurate(q, n) /\ NetworkInv'
  BY <1>0, <1>1, <1>2, <1>3, AnswerComes DEF sftp_aio_wait_write
<1>5. position'[t] = position[t] /\ blocking' = blocking
  BY <1>0
<1>6. /\ q \in Request /\ q.by = t /\ q.length \in 1 .. BufferSize
      /\ q.at \in Stretch(t) /\ q.at + q.length \in Stretch(t)
      /\ First(t) = q.at /\ QueueInv(t)' /\ First(t)' = q.at + q.length
  BY <1>1, <1>3, <1>4, <1>5, Popped
<1>7. \A u \in Transfer \ {t} : queue'[u] = queue[u]
  BY <1>1, <1>4 DEF LocalTypes
<1>8. CASE n = Failed
  <2>1. pc' = [pc EXCEPT ![t] = "leave"] /\ outcome' = [outcome EXCEPT ![t] = "failed"]
    BY <1>2, <1>8 DEF Throws
  <2>2. "failed" \in Ends /\ "failed" # "ok"
    BY DEF Ends
  <2>3. UNCHANGED <<blocking, begun, position, delivered, stored, cancelled, size>>
    BY <1>0
  <2>4. (busy' = busy /\ busy # {t}) \/ (busy = {t} /\ busy' = {})
    BY <1>0, <1>1
  <2> QED BY <1>1, <1>4, <1>6, <1>7, <2>1, <2>2, <2>3, <2>4, Leaving
<1>9. CASE n # Failed
  <2>1. pc' = [pc EXCEPT ![t] = "write"] /\ UNCHANGED outcome
    BY <1>2, <1>9
  <2>2. n = q.length /\ q.at .. (q.at + n - 1) \subseteq stored[t]
    BY <1>1, <1>4, <1>6, <1>9 DEF Accurate
  <2>3. 0 .. (First(t)' - 1) \subseteq stored[t]
    <3>1. q.at \in Nat /\ q.length \in Nat
      BY <1>6 DEF Request
    <3>2. First(t)' = q.at + q.length /\ First(t) = q.at
      BY <1>6
    <3>3. ASSUME NEW x \in 0 .. (First(t)' - 1) PROVE x \in stored[t]
      <4>1. x \in Int /\ 0 <= x /\ x < q.at + q.length
        BY <3>1, <3>2
      <4>2. CASE x < q.at
        <5>1. x \in 0 .. (First(t) - 1)
          BY <3>1, <3>2, <4>1, <4>2
        <5> QED BY <1>1, <5>1
      <4>3. CASE x >= q.at
        <5>1. x \in q.at .. (q.at + n - 1)
          BY <2>2, <3>1, <4>1, <4>3
        <5> QED BY <2>2, <5>1
      <4> QED BY <3>1, <4>1, <4>2, <4>3
    <3> QED BY <3>3
  <2>4. /\ begun' \in [Transfer -> Nat] /\ position' \in [Transfer -> Nat]
        /\ \A u \in Transfer \ {t} : /\ begun'[u] = begun[u] /\ position'[u] = position[u]
                                     /\ queue'[u] = queue[u]
        /\ position'[t] = begun'[t] /\ begun'[t] <= Size[t]
    BY <1>0, <1>1, <1>7 DEF LocalTypes
  <2>5. UNCHANGED <<blocking, outcome, delivered, stored, cancelled, busy, size>>
    BY <1>0, <2>1
  <2> QED BY <1>0, <1>1, <1>4, <1>6, <2>1, <2>3, <2>4, <2>5, WriteGoesOn
<1> QED BY <1>8, <1>9

LEMMA StepFinishWrite ==
  ASSUME IInv, NEW t \in Writer, FinishWrite(t)
  PROVE  IInv'
<1>0. /\ pc[t] = "write" /\ begun[t] = Size[t] /\ queue[t] = <<>>
      /\ pc' = [pc EXCEPT ![t] = "leave"] /\ outcome' = [outcome EXCEPT ![t] = "ok"]
      /\ UNCHANGED <<blocking, begun, queue, position, delivered, stored, cancelled, size, busy>>
      /\ UNCHANGED network
  BY DEF FinishWrite, Flushed, Flushing, Returns
<1>1. /\ t \in Transfer /\ t \notin Reader /\ busy # {t} /\ position[t] = begun[t]
      /\ stored[t] \subseteq 0 .. (Size[t] - 1)
      /\ 0 .. (First(t) - 1) \subseteq stored[t]
  BY <1>0, InWrite
<1>2. stored[t] = 0 .. (Size[t] - 1)
  BY <1>0, <1>1 DEF First
<1>3. "ok" \in Ends
  BY DEF Ends
<1> QED BY <1>0, <1>1, <1>2, <1>3, LeavingQueue

-----------------------------------------------------------------------------
(* The blocking calls. *)

\* What holds of read and of write between and during their calls.
LEMMA InLoop ==
  ASSUME IInv, NEW t \in Transfer, pc[t] = "call"
  PROVE  /\ t \in blocking /\ LocalTypes /\ NetworkInv /\ BusyInv /\ QueueInv(t) /\ outcome[t] = "none"
         /\ position[t] \in Nat /\ Missing(t) \in Nat
         /\ busy # {t} => queue[t] = <<>>
         /\ busy = {t} => Missing(t) > 0
         /\ position[t] \in Stretch(t) /\ position[t] + Missing(t) \in Stretch(t)
         /\ t \in Reader =>
              /\ t \notin Writer /\ ReaderInv(t) /\ ReadInv(t) /\ InOrder(t)
              /\ Missing(t) = Length[t] - Len(delivered[t])
         /\ t \in Writer =>
              /\ t \notin Reader /\ WriterInv(t) /\ Missing(t) = Size[t] - begun[t]
<1>1. LocalTypes /\ NetworkInv /\ BusyInv /\ QueueInv(t) /\ position[t] \in Nat
  BY DEF IInv, LocalTypes
<1>2. busy = {t} => Missing(t) > 0
  BY DEF IInv, BusyInv
<1>3. busy # {t} /\ t \in blocking => queue[t] = <<>>
  <2> SUFFICES ASSUME busy # {t}, t \in blocking, queue[t] # <<>> PROVE FALSE
    OBVIOUS
  <2>1. queue[t] \in Seq(Request)
    BY <1>1 DEF LocalTypes
  <2>2. 1 \in DOMAIN queue[t]
    BY <2>1
  <2> QED BY <1>1, <2>2 DEF QueueInv
<1>4. CASE t \in Reader
  <2>1. /\ From[t] \in Nat /\ Length[t] \in Nat /\ delivered[t] \in Seq(Nat)
        /\ Len(delivered[t]) \in Nat /\ t \notin Writer
    BY <1>1, <1>4, ReaderTypes
  <2>2. ReaderInv(t) /\ ReaderSteps(t) /\ ReadInv(t)
    BY <1>4 DEF IInv, ReaderInv
  <2>3. t \in blocking /\ outcome[t] = "none"
    BY <2>2 DEF ReaderSteps, Running
  <2>4. InOrder(t)
    BY <2>2, <2>3 DEF ReaderInv
  <2>5. Missing(t) = Length[t] - Len(delivered[t])
    BY <1>4 DEF Missing
  <2>6. position[t] = From[t] + Len(delivered[t]) /\ Len(delivered[t]) <= Length[t]
    BY <2>2 DEF ReadInv
  <2>7. /\ Missing(t) \in Nat /\ position[t] \in From[t] .. (From[t] + Length[t])
        /\ position[t] + Missing(t) \in From[t] .. (From[t] + Length[t])
    BY <2>1, <2>5, <2>6
  <2> QED BY <1>1, <1>2, <1>3, <1>4, <2>1, <2>2, <2>3, <2>4, <2>5, <2>7 DEF Stretch
<1>5. CASE t \in Writer
  <2>1. t \notin Reader /\ Size[t] \in Nat /\ begun[t] \in Nat
    BY <1>1, <1>5, TransferAssumption DEF LocalTypes
  <2>2. WriterInv(t)
    BY <1>5 DEF IInv
  <2>3. t \in blocking /\ outcome[t] = "none" /\ position[t] = begun[t] /\ begun[t] <= Size[t]
    BY <2>2 DEF WriterInv, Running
  <2>4. Missing(t) = Size[t] - begun[t]
    BY <2>1 DEF Missing
  <2>5. Missing(t) \in Nat /\ position[t] \in 0 .. Size[t] /\ position[t] + Missing(t) \in 0 .. Size[t]
    BY <2>1, <2>3, <2>4
  <2> QED BY <1>1, <1>2, <1>3, <1>5, <2>1, <2>2, <2>3, <2>4, <2>5 DEF Stretch
<1> QED BY <1>4, <1>5 DEF Transfer

\* A piece is at least a byte, and no more than what is missing.
LEMMA PieceBounds ==
  ASSUME NEW t, Missing(t) \in Nat, Missing(t) > 0
  PROVE  Piece(t) \in 1 .. BufferSize /\ Piece(t) \in Nat /\ Piece(t) <= Missing(t)
BY TransferAssumption DEF Piece, LeastOf

\* The one request of a blocking call.
Asks(t) == [by |-> t, at |-> position[t], length |-> Piece(t)]

\* A blocking call sends its request, or waits for room.
LEMMA CallGoesOn ==
  ASSUME IInv, NEW t \in Transfer, pc[t] = "call", Missing(t) > 0, busy = {} \/ busy = {t},
         queue[t] = <<>>, busy' = {t}, NetworkInv',
         UNCHANGED <<blocking, pc, outcome, begun, position, delivered, stored, cancelled, size>>,
         queue' = queue \/ queue' = [queue EXCEPT ![t] = <<Asks(t)>>]
  PROVE  IInv'
<1>0. /\ t \in blocking /\ LocalTypes /\ QueueInv(t)
      /\ position[t] \in Nat /\ Missing(t) \in Nat
      /\ position[t] \in Stretch(t) /\ position[t] + Missing(t) \in Stretch(t)
  BY InLoop
<1>1. Piece(t) \in 1 .. BufferSize /\ Piece(t) \in Nat /\ Piece(t) <= Missing(t)
  BY <1>0, PieceBounds
<1>2. /\ Missing(t)' = Missing(t) /\ Piece(t)' = Piece(t) /\ Stretch(t)' = Stretch(t)
      /\ Running(t)' = Running(t) /\ First(t) = position[t]
  BY DEF Missing, Piece, Stretch, Running, First
<1>3. PICK q : q = Asks(t)
  OBVIOUS
<1>4. q \in Request /\ q.by = t /\ q.at = position[t] /\ q.length = Piece(t)
  BY <1>0, <1>1, <1>3 DEF Asks, Request
<1>5. queue'[t] = <<>> \/ queue'[t] = <<q>>
  BY <1>0, <1>3 DEF LocalTypes
<1>6. queue' \in [Transfer -> Seq(Request)] /\ \A u \in Transfer \ {t} : queue'[u] = queue[u]
  <2>1. <<q>> \in Seq(Request)
    BY <1>4
  <2> QED BY <1>0, <1>3, <2>1 DEF LocalTypes
<1>7. First(t)' = position[t]
  <2>1. Head(<<q>>) = q /\ <<q>> # <<>>
    BY <1>4
  <2> QED BY <1>4, <1>5, <2>1 DEF First
<1>8. QueueInv(t)'
  <2>1. CASE queue'[t] = <<>>
    BY <2>1 DEF QueueInv
  <2>2. CASE queue'[t] = <<q>>
    <3>1. DOMAIN queue'[t] = {1} /\ Len(queue'[t]) = 1 /\ queue'[t][1] = q
      BY <2>2
    <3>2. position[t] + Piece(t) \in Stretch(t)
      <4>1. CASE t \in Reader
        <5>1. From[t] \in Nat /\ Length[t] \in Nat
          BY <1>0, <4>1, ReaderTypes
        <5>2. position[t] \in From[t] .. (From[t] + Length[t])
          BY <1>0, <4>1 DEF Stretch
        <5>3. position[t] + Missing(t) \in From[t] .. (From[t] + Length[t])
          BY <1>0, <4>1 DEF Stretch
        <5>4. position[t] + Piece(t) \in From[t] .. (From[t] + Length[t])
          BY <1>0, <1>1, <5>1, <5>2, <5>3
        <5> QED BY <4>1, <5>4 DEF Stretch
      <4>2. CASE t \notin Reader
        <5>1. Size[t] \in Nat
          BY TransferAssumption
        <5>2. position[t] + Missing(t) \in 0 .. Size[t]
          BY <1>0, <4>2 DEF Stretch
        <5>3. position[t] + Piece(t) \in 0 .. Size[t]
          BY <1>0, <1>1, <5>1, <5>2
        <5> QED BY <4>2, <5>3 DEF Stretch
      <4> QED BY <4>1, <4>2
    <3>3. busy' = {t} /\ position'[t] = position[t] /\ t \in blocking'
      BY <1>0
    <3> QED BY <1>0, <1>1, <1>2, <1>4, <3>1, <3>2, <3>3 DEF QueueInv
  <2> QED BY <1>5, <2>1, <2>2
<1>9. LocalTypes' /\ pc' = pc
  BY <1>0, <1>6 DEF LocalTypes
<1>10. \A u \in Transfer \ {t} : Untouched(u)
  BY <1>6 DEF Untouched
<1>11. BusyInv'
  BY <1>0, <1>2 DEF BusyInv
<1>12. ASSUME t \in Reader PROVE ReaderInv(t)'
  <2>1. ReaderInv(t)
    BY <1>12 DEF IInv
  <2>2. ReaderSteps(t)' /\ StreamInv(t)' /\ ReadInv(t)'
    BY <1>0, <2>1 DEF ReaderInv, ReaderSteps, Running, StreamInv, Streaming, ReadInv
  <2>3. InOrder(t)' = InOrder(t) /\ Whole(t)' = Whole(t)
    BY DEF InOrder, Whole, Expected
  <2> QED BY <2>1, <2>2, <2>3 DEF ReaderInv
<1>13. ASSUME t \in Writer PROVE WriterInv(t)'
  BY <1>2, <1>7, <1>13 DEF IInv, WriterInv
<1> QED BY <1>8, <1>9, <1>10, <1>11, <1>12, <1>13, StepOf DEF TransferInv

LEMMA AppendToEmpty ==
  ASSUME LocalTypes, NEW t \in Transfer, queue[t] = <<>>, SendRequest(t, Piece(t))
  PROVE  queue' = [queue EXCEPT ![t] = <<Asks(t)>>]
<1>1. queue' = [queue EXCEPT ![t] = Append(<<>>, Asks(t))]
  BY DEF SendRequest, Asks
<1>2. Append(<<>>, Asks(t)) = <<Asks(t)>>
  OBVIOUS
<1> QED BY <1>1, <1>2

\* The request of a blocking call goes out.
LEMMA CallSends ==
  ASSUME IInv, NEW t \in Transfer, pc[t] = "call", Missing(t) > 0, SendRequest(t, Piece(t)),
         UNCHANGED <<size, stored>>
  PROVE  NetworkInv'
<1>1. /\ NetworkInv /\ position[t] \in Nat /\ Missing(t) \in Nat
      /\ t \in Writer => t \notin Reader
      /\ position[t] + Missing(t) \in Stretch(t)
  BY InLoop
<1>2. Piece(t) \in Nat /\ Piece(t) <= Missing(t)
  BY <1>1, PieceBounds
<1>3. ASSUME t \in Writer PROVE position[t] + Piece(t) <= Size[t]
  <2>1. position[t] + Missing(t) \in 0 .. Size[t] /\ Size[t] \in Nat
    BY <1>1, <1>3, TransferAssumption DEF Stretch
  <2> QED BY <1>1, <1>2, <2>1
<1>4. PICK length : length = Piece(t)
  OBVIOUS
<1> QED BY <1>1, <1>2, <1>3, <1>4, Sending

LEMMA StepCall ==
  ASSUME IInv, NEW t \in Transfer, Call(t)
  PROVE  IInv'
<1>0. /\ pc[t] = "call" /\ Missing(t) > 0 /\ busy = {} /\ busy # {t}
      /\ UNCHANGED <<blocking, begun, position, delivered, stored, cancelled, size>>
  BY DEF Call, ActorFree
<1>1. LocalTypes /\ NetworkInv /\ queue[t] = <<>>
  BY <1>0, InLoop
<1>2. CASE Throws(t) /\ UNCHANGED <<queue, busy, network>>
  BY <1>0, <1>2, ThrowsInv
<1>3. CASE /\ busy' = {t} /\ UNCHANGED <<pc, outcome>> /\ SendRequest(t, Piece(t))
  <2>1. queue' = [queue EXCEPT ![t] = <<Asks(t)>>]
    BY <1>1, <1>3, AppendToEmpty
  <2>2. NetworkInv'
    BY <1>0, <1>3, CallSends
  <2> QED BY <1>0, <1>1, <1>3, <2>1, <2>2, CallGoesOn
<1>4. CASE /\ busy' = {t} /\ UNCHANGED <<pc, outcome>> /\ UNCHANGED <<queue, network>>
  <2>1. NetworkInv'
    BY <1>0, <1>1, <1>4, Idle DEF network
  <2> QED BY <1>0, <1>1, <1>4, <2>1, CallGoesOn
<1> QED BY <1>2, <1>3, <1>4 DEF Call

LEMMA StepResume ==
  ASSUME IInv, NEW t \in Transfer, Resume(t)
  PROVE  IInv'
<1>0. /\ busy = {t} /\ queue[t] = <<>> /\ pc[t] = "call" /\ Missing(t) > 0
      /\ UNCHANGED <<blocking, begun, position, delivered, stored, cancelled, size>>
  BY DEF Resume, IInv, BusyInv
<1>1. LocalTypes /\ NetworkInv
  BY <1>0, InLoop
<1>2. CASE Throws(t) /\ busy' = {} /\ UNCHANGED <<queue, network>>
  <2>1. pc' = [pc EXCEPT ![t] = "leave"] /\ outcome' = [outcome EXCEPT ![t] = "failed"]
    BY <1>2 DEF Throws
  <2>2. "failed" \in Ends /\ "failed" # "ok"
    BY DEF Ends
  <2>3. NetworkInv'
    BY <1>0, <1>1, <1>2, Idle DEF network
  <2>4. QueueInv(t)'
    BY <1>0, <1>2 DEF QueueInv
  <2>5. queue' \in [Transfer -> Seq(Request)] /\ \A u \in Transfer \ {t} : queue'[u] = queue[u]
    BY <1>1, <1>2 DEF LocalTypes
  <2>6. (busy' = busy /\ busy # {t}) \/ (busy = {t} /\ busy' = {})
    BY <1>0, <1>2
  <2> QED BY <1>0, <2>1, <2>2, <2>3, <2>4, <2>5, <2>6, Leaving
<1>3. CASE SendRequest(t, Piece(t)) /\ UNCHANGED <<pc, outcome, busy>>
  <2>1. queue' = [queue EXCEPT ![t] = <<Asks(t)>>]
    BY <1>0, <1>1, <1>3, AppendToEmpty
  <2>2. NetworkInv'
    BY <1>0, <1>3, CallSends
  <2> QED BY <1>0, <1>3, <2>1, <2>2, CallGoesOn
<1>4. CASE /\ inbound # <<>> /\ window' = Room(1) /\ replies' = replies \cup Taken(1)
           /\ inbound' = Tail(inbound)
           /\ UNCHANGED <<pc, outcome, busy, queue, link, sent, owed>>
  <2>1. inbound \in Seq(Message)
    BY <1>1 DEF NetworkInv, NetworkTypes
  <2>2. 1 \in 0 .. Len(inbound) /\ inbound' = SubSeq(inbound, 1 + 1, Len(inbound))
    BY <1>4, <2>1
  <2>3. PICK one : one = 1
    OBVIOUS
  <2>4. NetworkInv'
    BY <1>0, <1>1, <1>4, <2>2, <2>3, Taking
  <2> QED BY <1>0, <1>4, <2>4, CallGoesOn
<1> QED BY <1>2, <1>3, <1>4 DEF Resume

\* read has its range when it has all the bytes it asked for, or when it is
\* told that there are no more.
LEMMA ReadIsWhole ==
  ASSUME IInv, NEW t \in Reader, pc[t] = "call", Missing(t) = 0 \/ position[t] >= Size[t]
  PROVE  Whole(t)
<1>0. /\ t \in Transfer /\ From[t] \in Nat /\ Length[t] \in Nat /\ Size[t] \in Nat
      /\ delivered[t] \in Seq(Nat) /\ Len(delivered[t]) \in Nat
  BY ReaderTypes DEF IInv
<1>1. /\ LocalTypes /\ ReadInv(t) /\ InOrder(t) /\ position[t] \in Stretch(t)
      /\ Missing(t) = Length[t] - Len(delivered[t])
  BY <1>0, InLoop
<1>2. PICK d, at : d = delivered[t] /\ at = position[t]
  OBVIOUS
<1>3. /\ at = From[t] + Len(d) /\ DOMAIN d = 1 .. Len(d)
      /\ size[t] = Size[t] => d = <<>> \/ at <= Size[t]
  BY <1>0, <1>1, <1>2 DEF ReadInv
<1>4. From[t] .. (LeastOf(at, Size[t]) - 1) \subseteq ToSet(delivered[t])
  <2> SUFFICES ASSUME NEW x \in From[t] .. (LeastOf(at, Size[t]) - 1) PROVE x \in ToSet(d)
    BY <1>2
  <2>1. x \in Int /\ x >= From[t] /\ x < From[t] + Len(d)
    BY <1>0, <1>2, <1>3 DEF LeastOf
  <2>2. PICK i : i = x - From[t] + 1
    OBVIOUS
  <2>3. i \in 1 .. Len(d) /\ From[t] + i - 1 = x
    <3>1. From[t] \in Nat /\ Len(d) \in Nat
      BY <1>0, <1>2
    <3> QED BY <2>1, <2>2, <3>1
  <2>4. d[i] = x
    BY <1>1, <1>2, <1>3, <2>3 DEF InOrder
  <2> QED BY <1>3, <2>3, <2>4 DEF ToSet
<1>5. at >= Size[t] \/ at = From[t] + Length[t]
  BY <1>0, <1>1, <1>2, <1>3
<1>6. ASSUME size[t] = Size[t] PROVE Len(delivered[t]) = Before(t, at) /\ InOrder(t)
  <2>1. CASE d = <<>>
    <3>1. Len(d) = 0
      BY <2>1
    <3> QED BY <1>0, <1>1, <1>2, <1>3, <3>1 DEF Before
  <2>2. CASE at <= Size[t]
    BY <1>0, <1>1, <1>2, <1>3, <2>2 DEF Before
  <2> QED BY <1>3, <1>6, <2>1, <2>2
<1> QED BY <1>1, <1>2, <1>4, <1>5, <1>6, WholeAt

LEMMA StepLoopEnds ==
  ASSUME IInv, NEW t \in Transfer, LoopEnds(t)
  PROVE  IInv'
<1>0. /\ pc[t] = "call" /\ busy # {t} /\ Missing(t) = 0
      /\ pc' = [pc EXCEPT ![t] = "leave"] /\ outcome' = [outcome EXCEPT ![t] = "ok"]
      /\ UNCHANGED <<blocking, begun, queue, position, delivered, stored, cancelled, size, busy>>
      /\ UNCHANGED network
  BY DEF LoopEnds, Returns
<1>1. t \in Reader => Whole(t)
  BY <1>0, ReadIsWhole
<1>2. ASSUME t \in Writer PROVE stored[t] = 0 .. (Size[t] - 1)
  <2>1. WriterInv(t) /\ Missing(t) = Size[t] - begun[t] /\ queue[t] = <<>> /\ LocalTypes
    BY <1>0, <1>2, InLoop
  <2>2. begun[t] \in Nat /\ Size[t] \in Nat
    BY <2>1, TransferAssumption DEF LocalTypes
  <2>3. First(t) = Size[t]
    BY <1>0, <2>1, <2>2 DEF WriterInv, Running, First
  <2> QED BY <1>0, <2>1, <2>3 DEF WriterInv, Running
<1>3. "ok" \in Ends
  BY DEF Ends
<1> QED BY <1>0, <1>1, <1>2, <1>3, LeavingQueue

\* The answer of a blocking call is that to its one request.
LEMMA CallAnswered ==
  ASSUME IInv, NEW t \in Transfer, busy = {t}, NEW n, Answered(t, n),
         UNCHANGED <<blocking, stored, size>>
  PROVE  \E q \in Request :
         /\ q = Head(queue[t]) /\ q.by = t /\ q.at = position[t] /\ q.length = Piece(t)
         /\ Piece(t) \in 1 .. BufferSize /\ Piece(t) \in Nat /\ Piece(t) <= Missing(t)
         /\ pc[t] = "call" /\ t \in blocking
         /\ Accurate(q, n) /\ QueueInv(t)' /\ NetworkInv' /\ queue'[t] = <<>>
         /\ First(t) = position[t]
         /\ queue' \in [Transfer -> Seq(Request)]
         /\ \A u \in Transfer \ {t} : queue'[u] = queue[u]
<1>0. pc[t] = "call" /\ Missing(t) > 0
  BY DEF IInv, BusyInv
<1>1. LocalTypes /\ NetworkInv /\ QueueInv(t) /\ t \in blocking /\ Missing(t) \in Nat
  BY <1>0, InLoop
<1>2. PICK q : q = Head(queue[t])
  OBVIOUS
<1>3. /\ queue[t] # <<>> /\ queue' = [queue EXCEPT ![t] = Tail(@)]
      /\ queue' \in [Transfer -> Seq(Request)] /\ Accurate(q, n) /\ NetworkInv'
  BY <1>1, <1>2, AnswerComes
<1>4. /\ q \in Request /\ q.by = t /\ QueueInv(t)' /\ First(t) = q.at
      /\ q.at = position[t] /\ q.length = Piece(t) /\ queue'[t] = <<>>
  BY <1>1, <1>2, <1>3, Popped
<1>5. \A u \in Transfer \ {t} : queue'[u] = queue[u]
  BY <1>1, <1>3 DEF LocalTypes
<1>6. Piece(t) \in 1 .. BufferSize /\ Piece(t) \in Nat /\ Piece(t) <= Missing(t)
  BY <1>0, <1>1, PieceBounds
<1> QED BY <1>0, <1>1, <1>2, <1>3, <1>4, <1>5, <1>6

\* What read has after one more of its calls.
LEMMA ReadingOn ==
  ASSUME LocalTypes, NEW t \in Reader, InOrder(t), NEW n \in Nat \ {0},
         position[t] = From[t] + Len(delivered[t]),
         delivered' = [delivered EXCEPT ![t] = @ \o [k \in 1 .. n |-> position[t] + k - 1]]
  PROVE  /\ delivered' \in [Reader -> Seq(Nat)]
         /\ Len(delivered'[t]) = Len(delivered[t]) + n
         /\ InOrder(t)'
<1>1. /\ From[t] \in Nat /\ delivered[t] \in Seq(Nat) /\ Len(delivered[t]) \in Nat
      /\ position[t] \in Nat
  BY ReaderTypes
<1>2. PICK d, e : d = delivered[t] /\ e = delivered'[t]
  OBVIOUS
<1>3. e = d \o [k \in 1 .. n |-> position[t] + k - 1] /\ d \in Seq(Nat)
  BY <1>1, <1>2 DEF LocalTypes
<1>4. /\ e \in Seq(Nat) /\ Len(e) = Len(d) + n
      /\ \A i \in 1 .. Len(e) : e[i] = IF i <= Len(d) THEN d[i] ELSE position[t] + (i - Len(d)) - 1
  <2>1. PICK at : at = position[t]
    OBVIOUS
  <2>2. at \in Nat /\ n \in Nat /\ e = d \o [k \in 1 .. n |-> at + k - 1]
    BY <1>1, <1>3, <2>1
  <2> QED BY <1>3, <2>1, <2>2, Appended
<1>5. delivered' \in [Reader -> Seq(Nat)]
  BY <1>2, <1>4 DEF LocalTypes
<1>6. \A i \in 1 .. Len(d) : d[i] = From[t] + i - 1
  BY <1>2, <1>3 DEF InOrder
<1>7. ASSUME NEW i \in 1 .. Len(e) PROVE e[i] = From[t] + i - 1
  <2>1. Len(d) \in Nat /\ Len(e) \in Nat /\ i \in Int /\ i >= 1
    BY <1>3, <1>4
  <2>2. CASE i <= Len(d)
    <3>1. i \in 1 .. Len(d)
      BY <2>1, <2>2
    <3> QED BY <1>4, <1>6, <2>2, <3>1
  <2>3. CASE ~(i <= Len(d))
    <3>1. e[i] = position[t] + (i - Len(d)) - 1
      BY <1>4, <2>3
    <3>2. position[t] = From[t] + Len(d)
      BY <1>2
    <3> QED BY <1>1, <2>1, <3>1, <3>2
  <2> QED BY <2>2, <2>3
<1>8. DOMAIN e = 1 .. Len(e)
  BY <1>4
<1> QED BY <1>2, <1>4, <1>5, <1>7, <1>8 DEF InOrder

LEMMA StepReadReturns ==
  ASSUME IInv, NEW t \in Reader, CallReturns(t)
  PROVE  IInv'
<1>0. busy = {t} /\ busy' = {} /\ UNCHANGED <<blocking, stored, cancelled, size>>
  BY DEF CallReturns
<1>1. /\ t \in Transfer /\ t \notin Writer /\ LocalTypes
      /\ From[t] \in Nat /\ Length[t] \in Nat /\ Size[t] \in Nat
      /\ size[t] \in Nat /\ size[t] >= Size[t]
      /\ delivered[t] \in Seq(Nat) /\ Len(delivered[t]) \in Nat /\ position[t] \in Nat
  BY ReaderTypes DEF IInv
<1>2. PICK n \in Failed .. BufferSize :
        /\ Answered(t, n) /\ Advance(t, n)
        /\ IF n = Failed THEN Throws(t) ELSE IF n = 0 THEN Returns(t) ELSE UNCHANGED <<pc, outcome>>
        /\ IF n > 0 THEN delivered' = [delivered EXCEPT ![t] = @ \o Reads(t, n)]
           ELSE UNCHANGED delivered
        /\ UNCHANGED begun
  BY <1>1 DEF CallReturns, sftp_read
<1>3. PICK q \in Request :
         /\ q = Head(queue[t]) /\ q.by = t /\ q.at = position[t] /\ q.length = Piece(t)
         /\ Piece(t) \in 1 .. BufferSize /\ Piece(t) \in Nat /\ Piece(t) <= Missing(t)
         /\ pc[t] = "call" /\ t \in blocking
         /\ Accurate(q, n) /\ QueueInv(t)' /\ NetworkInv' /\ queue'[t] = <<>>
         /\ First(t) = position[t]
         /\ queue' \in [Transfer -> Seq(Request)]
         /\ \A u \in Transfer \ {t} : queue'[u] = queue[u]
  BY <1>0, <1>1, <1>2, CallAnswered
<1>4. (busy' = busy /\ busy # {t}) \/ (busy = {t} /\ busy' = {})
  BY <1>0
<1>5. /\ ReaderInv(t) /\ ReadInv(t) /\ InOrder(t) /\ Missing(t) = Length[t] - Len(delivered[t])
      /\ outcome[t] = "none"
  BY <1>1, <1>3, InLoop
<1>6. CASE n = Failed
  <2>1. /\ pc' = [pc EXCEPT ![t] = "leave"] /\ outcome' = [outcome EXCEPT ![t] = "failed"]
        /\ UNCHANGED <<delivered, position>>
    BY <1>2, <1>6 DEF Throws, Advance, Failed
  <2>2. "failed" \in Ends /\ "failed" # "ok"
    BY DEF Ends
  <2>3. UNCHANGED <<blocking, begun, position, delivered, stored, cancelled, size>>
    BY <1>0, <1>2, <2>1
  <2> QED BY <1>1, <1>3, <1>4, <2>1, <2>2, <2>3, Leaving
<1>7. CASE n = 0
  <2>1. /\ pc' = [pc EXCEPT ![t] = "leave"] /\ outcome' = [outcome EXCEPT ![t] = "ok"]
        /\ UNCHANGED delivered /\ position' = [position EXCEPT ![t] = position[t] + n]
    BY <1>2, <1>7 DEF Returns, Advance, Seek, Failed
  <2>2. position[t] + n = position[t]
    BY <1>1, <1>7
  <2>3. UNCHANGED position
    BY <1>1, <2>1, <2>2 DEF LocalTypes
  <2>4. UNCHANGED <<blocking, begun, position, delivered, stored, cancelled, size>>
    BY <1>0, <1>2, <2>1, <2>3
  <2>5. q.at >= Size[t]
    <3>1. Accurate(q, 0)
      BY <1>3, <1>7
    <3> QED BY <1>1, <1>3, <3>1, NothingLeft
  <2>6. Whole(t) /\ "ok" \in Ends
    BY <1>3, <2>5, ReadIsWhole DEF Ends
  <2> QED BY <1>1, <1>3, <1>4, <2>1, <2>4, <2>6, Leaving
<1>8. CASE n # Failed /\ n # 0
  <2>1. /\ UNCHANGED <<pc, outcome>> /\ position' = [position EXCEPT ![t] = position[t] + n]
        /\ n \in Nat \ {0} /\ n \in Nat
        /\ delivered' = [delivered EXCEPT ![t] = @ \o Reads(t, n)]
    <3>1. n \in Nat \ {0} /\ n > 0
      BY <1>8, TransferAssumption DEF Failed
    <3> QED BY <1>2, <1>8, <3>1 DEF Advance, Seek
  <2>2. PICK d, e, at : d = delivered[t] /\ e = delivered'[t] /\ at = position[t]
    OBVIOUS
  <2>3. d \in Seq(Nat) /\ at \in Nat /\ n \in Nat
    BY <1>1, <2>1, <2>2
  <2>4. delivered' \in [Reader -> Seq(Nat)] /\ Len(e) = Len(d) + n /\ InOrder(t)'
    <3>1. delivered' = [delivered EXCEPT ![t] = @ \o [k \in 1 .. n |-> position[t] + k - 1]]
      BY <1>3, <2>1 DEF Reads
    <3>2. position[t] = From[t] + Len(delivered[t])
      BY <1>3, <1>5 DEF ReadInv
    <3> QED BY <1>1, <1>5, <2>1, <2>2, <3>1, <3>2, ReadingOn
  <2>5. n \in {Available(q, Size[t]), Available(q, size[t])}
    BY <1>1, <1>3, <1>8 DEF Accurate
  <2>6. q.at = at /\ q.length \in Nat
    BY <1>3, <2>2
  <2>7. n <= q.length
    BY <1>1, <2>1, <2>3, <2>5, <2>6 DEF Available, LeastOf
  <2>8. at = From[t] + Len(d) /\ Len(d) <= Length[t]
    BY <1>3, <1>5, <2>2 DEF ReadInv
  <2>9. LocalTypes' /\ position'[t] = at + n
    <3>1. at + n \in Nat
      BY <2>1, <2>3
    <3>2. position' \in [Transfer -> Nat] /\ position'[t] = at + n
      BY <1>1, <2>1, <2>2, <3>1 DEF LocalTypes
    <3> QED BY <1>0, <1>1, <1>2, <1>3, <2>1, <2>4, <3>2 DEF LocalTypes
  <2>10. \A u \in Transfer \ {t} : Untouched(u)
    BY <1>0, <1>1, <1>2, <1>3, <2>1 DEF LocalTypes, Untouched
  <2>11. BusyInv'
    BY <1>0 DEF BusyInv
  <2>12. Len(e) <= Length[t] /\ position'[t] = From[t] + Len(e)
    <3>1. q.length <= Length[t] - Len(d) /\ q.length \in Nat /\ Len(d) \in Nat
      BY <1>1, <1>3, <1>5, <2>2
    <3>2. n \in Nat /\ Len(e) = Len(d) + n
      BY <2>1, <2>4
    <3>3. position'[t] = From[t] + Len(d) + n
      BY <2>8, <2>9
    <3>4. Len(e) <= Length[t]
      BY <1>1, <2>7, <3>1, <3>2
    <3>5. From[t] + Len(d) + n = From[t] + Len(e)
      BY <1>1, <3>1, <3>2
    <3> QED BY <3>3, <3>4, <3>5
  <2>13. ASSUME size'[t] = Size[t] PROVE position'[t] <= Size[t]
    <3>1. n = Available(q, Size[t])
      BY <1>0, <2>5, <2>13
    <3>2. at < Size[t] /\ n <= Size[t] - at
      BY <1>1, <1>8, <2>3, <2>6, <3>1 DEF Available, LeastOf
    <3> QED BY <1>1, <2>1, <2>3, <2>9, <3>2
  <2>14. ReaderInv(t)'
    <3>1. ReaderSteps(t)'
      BY <1>0, <1>2, <1>3, <1>5, <2>1 DEF ReaderInv, ReaderSteps, Running
    <3>2. StreamInv(t)' /\ outcome'[t] # "ok"
      BY <1>0, <1>3, <1>5, <2>1 DEF StreamInv, Streaming
    <3>3. ReadInv(t)'
      BY <2>2, <2>12, <2>13 DEF ReadInv
    <3> QED BY <2>4, <3>1, <3>2, <3>3 DEF ReaderInv
  <2> QED BY <1>1, <1>3, <2>9, <2>10, <2>11, <2>14, StepOf DEF TransferInv
<1> QED BY <1>6, <1>7, <1>8

LEMMA StepWriteReturns ==
  ASSUME IInv, NEW t \in Writer, CallReturns(t)
  PROVE  IInv'
<1>0. busy = {t} /\ busy' = {} /\ UNCHANGED <<blocking, stored, cancelled, size>>
  BY DEF CallReturns
<1>1. t \in Transfer /\ t \notin Reader /\ LocalTypes /\ Size[t] \in Nat /\ begun[t] \in Nat
  BY TransferAssumption DEF IInv, Transfer, LocalTypes
<1>2. PICK n \in Failed .. BufferSize :
        /\ Answered(t, n) /\ Advance(t, n)
        /\ IF n = Failed \/ n # Piece(t) THEN Throws(t)
           ELSE IF n = 0 THEN Returns(t) ELSE UNCHANGED <<pc, outcome>>
        /\ UNCHANGED delivered
        /\ IF n > 0 THEN begun' = [begun EXCEPT ![t] = @ + n] ELSE UNCHANGED begun
  BY <1>1 DEF CallReturns, sftp_write
<1>3. PICK q \in Request :
         /\ q = Head(queue[t]) /\ q.by = t /\ q.at = position[t] /\ q.length = Piece(t)
         /\ Piece(t) \in 1 .. BufferSize /\ Piece(t) \in Nat /\ Piece(t) <= Missing(t)
         /\ pc[t] = "call" /\ t \in blocking
         /\ Accurate(q, n) /\ QueueInv(t)' /\ NetworkInv' /\ queue'[t] = <<>>
         /\ First(t) = position[t]
         /\ queue' \in [Transfer -> Seq(Request)]
         /\ \A u \in Transfer \ {t} : queue'[u] = queue[u]
  BY <1>0, <1>1, <1>2, CallAnswered
<1>4. (busy' = busy /\ busy # {t}) \/ (busy = {t} /\ busy' = {})
  BY <1>0
<1>5. WriterInv(t) /\ Missing(t) = Size[t] - begun[t] /\ outcome[t] = "none" /\ Running(t)
  BY <1>1, <1>3, InLoop DEF Running
<1>6. CASE n = Failed
  <2>1. /\ pc' = [pc EXCEPT ![t] = "leave"] /\ outcome' = [outcome EXCEPT ![t] = "failed"]
        /\ UNCHANGED <<begun, position>>
    BY <1>2, <1>6 DEF Throws, Advance, Failed
  <2>2. "failed" \in Ends /\ "failed" # "ok"
    BY DEF Ends
  <2>3. UNCHANGED <<blocking, begun, position, delivered, stored, cancelled, size>>
    BY <1>0, <1>2, <2>1
  <2> QED BY <1>1, <1>3, <1>4, <2>1, <2>2, <2>3, Leaving
<1>7. CASE n # Failed
  <2>1. n = Piece(t) /\ q.at .. (q.at + n - 1) \subseteq stored[t]
    BY <1>1, <1>3, <1>7 DEF Accurate
  <2>2. /\ UNCHANGED <<pc, outcome>> /\ position' = [position EXCEPT ![t] = position[t] + n]
        /\ begun' = [begun EXCEPT ![t] = begun[t] + n] /\ n \in Nat /\ n > 0
    BY <1>2, <1>3, <1>7, <2>1 DEF Advance, Seek
  <2>3. position[t] = begun[t] /\ begun[t] <= Size[t] /\ 0 .. (position[t] - 1) \subseteq stored[t]
    BY <1>3, <1>5 DEF WriterInv
  <2>4. LocalTypes' /\ position'[t] = begun[t] + n /\ begun'[t] = begun[t] + n
    <3>1. begun[t] + n \in Nat /\ position[t] + n \in Nat
      BY <1>1, <2>2, <2>3
    <3>2. begun' \in [Transfer -> Nat] /\ position' \in [Transfer -> Nat]
      BY <1>1, <2>2, <3>1 DEF LocalTypes
    <3>3. position'[t] = begun[t] + n /\ begun'[t] = begun[t] + n
      BY <1>1, <2>2, <2>3 DEF LocalTypes
    <3> QED BY <1>0, <1>1, <1>2, <1>3, <2>2, <3>2, <3>3 DEF LocalTypes
  <2>5. \A u \in Transfer \ {t} : Untouched(u)
    BY <1>0, <1>1, <1>2, <1>3, <2>2 DEF LocalTypes, Untouched
  <2>6. BusyInv'
    BY <1>0 DEF BusyInv
  <2>7. First(t)' = begun[t] + n /\ begun[t] + n <= Size[t]
    BY <1>1, <1>3, <1>5, <2>1, <2>2, <2>4 DEF First
  <2>8. ASSUME NEW x \in 0 .. (begun[t] + n - 1) PROVE x \in stored[t]
    <3>1. x \in Int /\ 0 <= x /\ x < begun[t] + n /\ q.at = begun[t]
      BY <1>1, <1>3, <2>2, <2>3
    <3>2. CASE x < begun[t]
      <4>1. x \in 0 .. (position[t] - 1)
        BY <1>1, <2>3, <3>1, <3>2
      <4> QED BY <2>3, <4>1
    <3>3. CASE x >= begun[t]
      <4>1. x \in q.at .. (q.at + n - 1)
        BY <1>1, <2>2, <3>1, <3>3
      <4> QED BY <2>1, <4>1
    <3> QED BY <1>1, <3>1, <3>2, <3>3
  <2>9. WriterInv(t)'
    <3>1. Running(t)' /\ pc'[t] = "call" /\ t \in blocking' /\ outcome'[t] = "none"
      BY <1>0, <1>3, <1>5, <2>2 DEF Running
    <3>2. 0 .. (First(t)' - 1) \subseteq stored'[t]
      <4>1. 0 .. (First(t)' - 1) = 0 .. (begun[t] + n - 1)
        BY <1>1, <2>2, <2>7
      <4>2. 0 .. (begun[t] + n - 1) \subseteq stored[t]
        BY <2>8
      <4>3. stored'[t] = stored[t]
        BY <1>0
      <4> QED BY <4>1, <4>2, <4>3, Zenon
    <3> QED BY <1>0, <1>5, <2>4, <2>7, <3>1, <3>2 DEF WriterInv
  <2> QED BY <1>1, <1>3, <2>4, <2>5, <2>6, <2>9, StepOf DEF TransferInv
<1> QED BY <1>6, <1>7

LEMMA StepLeave ==
  ASSUME IInv, NEW t \in Transfer, Leave(t)
  PROVE  IInv'
<1>0. /\ pc[t] = "leave" /\ busy = {} /\ pc' = [pc EXCEPT ![t] = "done"]
      /\ queue' = [queue EXCEPT ![t] = <<>>]
      /\ UNCHANGED <<blocking, outcome, begun, position, delivered, stored, cancelled, busy, size,
                     link, sent, owed>>
  BY DEF Leave, ActorFree
<1>1. LocalTypes /\ NetworkInv
  BY DEF IInv
<1>2. NetworkInv'
  <2>1. CASE UNCHANGED <<window, replies, inbound>>
    BY <1>0, <1>1, <2>1, Idle
  <2>2. CASE \E n \in 0 .. Len(inbound) :
                /\ window' = Room(n)
                /\ replies' = {r \in replies \cup Taken(n) : r.request.by # t}
                /\ inbound' = SubSeq(inbound, n + 1, Len(inbound))
    <3>1. PICK n \in 0 .. Len(inbound) :
                /\ window' = Room(n)
                /\ replies' = {r \in replies \cup Taken(n) : r.request.by # t}
                /\ inbound' = SubSeq(inbound, n + 1, Len(inbound))
      BY <2>2
    <3>2. replies' \subseteq replies \cup Taken(n)
      BY <3>1
    <3> QED BY <1>0, <1>1, <3>1, <3>2, Taking
  <2> QED BY <2>1, <2>2 DEF Leave
<1>3. LocalTypes' /\ pc'[t] = "done" /\ queue'[t] = <<>>
  BY <1>0, <1>1 DEF LocalTypes
<1>4. \A u \in Transfer \ {t} : Untouched(u)
  BY <1>0, <1>1 DEF LocalTypes, Untouched
<1>5. BusyInv' /\ QueueInv(t)'
  BY <1>0, <1>3 DEF BusyInv, QueueInv
<1>6. ASSUME t \in Reader PROVE ReaderInv(t)'
  <2>1. ReaderInv(t)
    BY <1>6 DEF IInv
  <2>2. ReaderSteps(t)' /\ StreamInv(t)' /\ ReadInv(t)'
    BY <1>0, <1>3, <2>1 DEF ReaderInv, ReaderSteps, Running, StreamInv, Streaming, ReadInv
  <2>3. InOrder(t)' = InOrder(t) /\ Whole(t)' = Whole(t)
    BY <1>0 DEF InOrder, Whole, Expected
  <2> QED BY <1>0, <2>1, <2>2, <2>3 DEF ReaderInv
<1>7. ASSUME t \in Writer PROVE WriterInv(t)'
  BY <1>0, <1>3, <1>7 DEF IInv, WriterInv, Running
<1> QED BY <1>2, <1>3, <1>4, <1>5, <1>6, <1>7, StepOf DEF TransferInv

-----------------------------------------------------------------------------
(* The invariant holds of every behaviour. *)

LEMMA InitIInv ==
  ASSUME Init
  PROVE  IInv
<1>1. LocalTypes
  <2>1. \A t \in Reader : Size[t] \in Nat
    BY TransferAssumption DEF Transfer
  <2>2. <<>> \in Seq(Request) /\ <<>> \in Seq(Nat)
    OBVIOUS
  <2> QED BY <2>1, <2>2 DEF Init, LocalTypes
<1>2. NetworkTypes /\ SentInv /\ AnswersInv
  <2>1. <<>> \in Seq(Request) /\ <<>> \in Seq(Message) /\ DOMAIN <<>> = {}
    OBVIOUS
  <2> QED BY <2>1, TransferAssumption DEF Init, NetworkTypes, SentInv, AnswersInv
<1>3. WindowInv
  <2>1. Len(inbound) = 0 /\ Len(sent) = 0 /\ window = Window /\ owed = 0 /\ window \in Nat
    BY TransferAssumption DEF Init
  <2>2. ASSUME NEW first \in Int, NEW a PROVE Total(first, a, 0) = first
    <3>1. \A i \in 1 .. 0 : a[i] \in Int
      OBVIOUS
    <3> QED BY <3>1, TotalProperties
  <2>3. Room(Len(inbound)) = Window /\ Total(0, Costs, Len(sent)) = 0
    BY <2>1, <2>2 DEF Room
  <2> QED BY <2>1, <2>3 DEF WindowInv
<1>4. BusyInv
  BY DEF Init, BusyInv
<1>5. ASSUME NEW t \in Transfer PROVE QueueInv(t)
  BY DEF Init, QueueInv
<1>6. ASSUME NEW t \in Reader PROVE ReaderInv(t)
  <2>1. /\ t \in Transfer /\ Length[t] \in Nat /\ pc[t] = "next" /\ outcome[t] = "none" /\ begun[t] = 0
        /\ queue[t] = <<>> /\ delivered[t] = <<>>
    BY TransferAssumption DEF Init, Transfer
  <2>2. ReaderSteps(t)
    BY <2>1 DEF ReaderSteps
  <2>3. StreamInv(t) /\ ReadInv(t) /\ InOrder(t)
    BY <2>1 DEF StreamInv, Streaming, ReadInv, InOrder
  <2> QED BY <2>1, <2>2, <2>3 DEF ReaderInv
<1>7. ASSUME NEW t \in Writer PROVE WriterInv(t)
  <2>1. /\ t \in Transfer /\ t \notin Reader /\ Size[t] \in Nat /\ outcome[t] = "none" /\ begun[t] = 0
        /\ position[t] = 0 /\ queue[t] = <<>> /\ stored[t] = {}
        /\ pc[t] = IF t \in blocking THEN "call" ELSE "write"
    BY TransferAssumption DEF Init, Transfer
  <2>2. First(t) = 0 /\ 0 .. (0 - 1) = {}
    BY <2>1 DEF First
  <2> QED BY <2>1, <2>2 DEF WriterInv
<1> QED BY <1>1, <1>2, <1>3, <1>4, <1>5, <1>6, <1>7 DEF IInv, NetworkInv

LEMMA NextIInv ==
  ASSUME IInv, [Next]_vars
  PROVE  IInv'
<1>1. CASE Serve
  BY <1>1, StepServe
<1>2. CASE LoseConnection \/ CloseSftp
  BY <1>2, StepLose
<1>3. ASSUME NEW t \in Reader, Read(t) \/ Cancel(t) \/ Grow(t) PROVE IInv'
  BY <1>3, StepStartNext, StepFill, StepTake, StepCancel, StepGrow DEF Read
<1>4. ASSUME NEW t \in Writer, Upload(t) PROVE IInv'
  BY <1>4, StepWrite, StepFlush, StepFinishWrite DEF Upload
<1>5. ASSUME NEW t \in Transfer, CallReturns(t) PROVE IInv'
  BY <1>5, StepReadReturns, StepWriteReturns DEF Transfer
<1>6. ASSUME NEW t \in Transfer, Loop(t) \/ Leave(t) PROVE IInv'
  BY <1>5, <1>6, StepCall, StepResume, StepLoopEnds, StepLeave DEF Loop
<1>7. CASE UNCHANGED vars
  BY <1>7, Stuttering
<1> QED BY <1>1, <1>2, <1>3, <1>4, <1>6, <1>7 DEF Next

LEMMA Invariance == Spec => []IInv
<1>1. Init => IInv
  BY InitIInv
<1>2. IInv /\ [Next]_vars => IInv'
  BY NextIInv
<1> QED BY <1>1, <1>2, PTL DEF Spec

-----------------------------------------------------------------------------

\* Every part of the state stays what it is, and the window between 0 and the
\* room the server first granted: no step of a transfer, of the server or of
\* the connection lends room twice (LibSSH.swift:781-835).
THEOREM TransferTypeCorrect == Spec => []TypeOK
<1>1. IInv => TypeOK
  <2> SUFFICES ASSUME IInv PROVE TypeOK
    OBVIOUS
  <2>1. window \in 0 .. Window
    BY WindowBound DEF IInv, NetworkInv
  <2>2. busy = {} \/ \E t \in blocking : busy = {t} /\ pc[t] = "call"
    BY DEF IInv, BusyInv
  <2>3. inbound \in Seq([request : Request, result : Int, credit : Nat])
    BY DEF IInv, NetworkInv, NetworkTypes, Message
  <2> QED BY <2>1, <2>2, <2>3 DEF IInv, NetworkInv, NetworkTypes, LocalTypes, TypeOK
<1> QED BY <1>1, Invariance, PTL

\* A consumer gets the bytes of its range in order, with no gap and no
\* repetition: for any number of transfers, any sizes and any window, whatever
\* the order of the answers and whoever took them from the socket
\* (SFTPFile.swift:39-66, 139-157).
THEOREM ReadsInOrder == Spec => []DeliveredInOrder
<1>1. IInv => DeliveredInOrder
  BY DEF IInv, ReaderInv, DeliveredInOrder
<1> QED BY <1>1, Invariance, PTL

\* A read that ends by itself has delivered all of its range: the end of the
\* file is seen only where it is (SFTPFile.swift:40, 59-65, 149-155).
THEOREM EndedReadsAreWhole == Spec => []EndedReadIsWhole
<1>1. IInv => EndedReadIsWhole
  BY DEF IInv, ReaderInv, EndedReadIsWhole, Whole
<1> QED BY <1>1, Invariance, PTL

\* An upload or write that returns has stored every byte: none of its requests
\* failed and none is in flight (SFTPFile.swift:80-103, 159-173, 199-205).
THEOREM ReturnedUploadsAreStored == Spec => []ReturnedUploadIsStored
<1>1. IInv => ReturnedUploadIsStored
  BY DEF IInv, WriterInv, ReturnedUploadIsStored
<1> QED BY <1>1, Invariance, PTL
=============================================================================
