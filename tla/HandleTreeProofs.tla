-------------------------- MODULE HandleTreeProofs --------------------------
(***************************************************************************)
(* What the tree of handles guarantees, for every tree.                    *)
(***************************************************************************)
EXTENDS HandleTree, TLAPS

TInv == TypeOK /\ OwnersOpen

LEMMA InitTInv == Init => TInv
  BY HandleTreeAssumption DEF Init, TInv, TypeOK, OwnersOpen, Answer

\* Taking h and all that is below it leaves no orphan.
LEMMA Pruned ==
  ASSUME TInv, NEW h \in Handle, open' = open \ ({h} \cup Below(h))
  PROVE  OwnersOpen'
<1> SUFFICES ASSUME NEW k \in open', NEW a \in Ancestors[k] PROVE a \in open'
  BY DEF OwnersOpen
<1>1. k \in open /\ k \in Handle /\ h \notin Ancestors[k]
  BY DEF TInv, TypeOK, Below
<1>2. a \in open /\ a # h
  BY <1>1 DEF TInv, OwnersOpen
<1>3. h \notin Ancestors[a]
  BY <1>1, HandleTreeAssumption
<1> QED BY <1>2, <1>3 DEF Below

LEMMA NextTInv == TInv /\ [Next]_vars => TInv'
<1> SUFFICES ASSUME TInv, [Next]_vars PROVE TInv'
  OBVIOUS
<1>1. CASE UNCHANGED vars
  BY <1>1 DEF vars, TInv, TypeOK, OwnersOpen
<1>2. ASSUME NEW h \in Handle, Open(h) PROVE TInv'
  <2>1. TypeOK'
    BY <1>2, HandleTreeAssumption DEF TInv, TypeOK, Open, Answered, Answer
  <2>2. OwnersOpen'
    BY <1>2 DEF TInv, OwnersOpen, Open
  <2> QED BY <2>1, <2>2 DEF TInv
<1>3. ASSUME NEW h \in Handle, Use(h) PROVE TInv'
  BY <1>3 DEF TInv, TypeOK, OwnersOpen, Use, Answered, Answer
<1>4. ASSUME NEW h \in Handle, Close(h) \/ Consume(h) PROVE TInv'
  <2>1. TypeOK'
    BY <1>4 DEF TInv, TypeOK, Close, Consume, Answered, Answer
  <2>2. OwnersOpen'
    BY <1>4, Pruned DEF Close, Consume
  <2> QED BY <2>1, <2>2 DEF TInv
<1> QED BY <1>1, <1>2, <1>3, <1>4 DEF Next

LEMMA AlwaysTInv == Spec => []TInv
  BY InitTInv, NextTInv, PTL DEF Spec

\* What the tree records is handles and answers, for every tree.
THEOREM TreeTypeCorrect == Spec => []TypeOK
<1>1. TInv => TypeOK
  BY DEF TInv
<1> QED BY <1>1, AlwaysTInv, PTL

\* No handle outlives one it was opened through (LibSSH.swift:217, 496, 654).
THEOREM NoOrphans == Spec => []OwnersOpen
<1>1. TInv => OwnersOpen
  BY DEF TInv
<1> QED BY <1>1, AlwaysTInv, PTL

\* A handle that was closed never comes back to life: its identifier is not
\* reused (the UUIDs of LibSSH.swift:42-67).
THEOREM ClosedStaysClosed == Spec => ClosedForGood
<1>1. [Next]_vars => [known \ open \subseteq known' \ open']_vars
  BY DEF Next, Open, Use, Close, Consume, vars
<1> QED BY <1>1, PTL DEF Spec, ClosedForGood

=============================================================================
