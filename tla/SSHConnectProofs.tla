-------------------------- MODULE SSHConnectProofs --------------------------
(***************************************************************************)
(* Proofs about SSHConnect, for every number of addresses.                 *)
(***************************************************************************)
EXTENDS SSHConnect, TLAPS

\* Inside the loop: the addresses before the first connection in progress, or
\* before the one the loop is at, have been refused.
LoopInv ==
    /\ next \in Address /\ next <= itr /\ fd < next
    /\ first # NoFd => next <= first /\ first < itr /\ firstNext = first + 1
    /\ found # NoFd => found = itr /\ found \in accepted
    /\ open = {fd, first, found} \ {NoFd}
    /\ \A a \in Address : a < (IF first = NoFd THEN itr ELSE first) => a \in refused

\* While a connection is in progress the addresses before it have been
\* refused and those after it come next, unless it was accepted at once.
ConnectingInv ==
    /\ fd \in Address
    /\ \/ fd \in accepted /\ next = NULL
       \/ next = fd + 1 /\ \A a \in Address : a < fd => a \in refused

IInv ==
    /\ TypeOK
    /\ state = "none" => fd = NoFd /\ open = {}
    /\ state = "attempt" => LoopInv
    /\ state = "connecting" => ConnectingInv
    /\ OneDescriptor
    /\ FailsOnlyWhenRefused

LEMMA InitIInv == Init => IInv
  BY CountAssumption DEF Init, IInv, TypeOK, State, OneDescriptor, FailsOnlyWhenRefused,
     NULL, NoFd, Address

LEMMA NextIInv == IInv /\ [Next]_vars => IInv'
<1> SUFFICES ASSUME IInv, [Next]_vars PROVE IInv'
  OBVIOUS
<1> USE CountAssumption DEF IInv, TypeOK, State, OneDescriptor, FailsOnlyWhenRefused, Address, NULL, NoFd
<1>1. CASE ssh_socket_connect
  <2>1. CASE ai' = "list" /\ EnterLoop("connect", 1)
    <3>1. TypeOK'
      <4>1. /\ fd' = fd /\ open' = open /\ refused' = refused /\ accepted' = accepted
            /\ state' = "attempt" /\ caller' = "connect" /\ ai' = "list"
            /\ next' = 1 /\ itr' = 1 /\ found' = 0 /\ first' = 0 /\ firstNext' = Count + 1
        BY <1>1, <2>1 DEF ssh_socket_connect, EnterLoop
      <4> QED BY <4>1
    <3>2. LoopInv' /\ state' = "attempt"
      <4>1. /\ fd' = 0 /\ open' = {} /\ state' = "attempt"
            /\ next' = 1 /\ itr' = 1 /\ found' = 0 /\ first' = 0
        BY <1>1, <2>1 DEF ssh_socket_connect, EnterLoop
      <4>2. open' = {fd', first', found'} \ {NoFd}
        BY <4>1
      <4> QED BY <4>1, <4>2 DEF LoopInv
    <3> QED BY <3>1, <3>2
  <2>2. CASE state' = "unresolved" /\ UNCHANGED <<caller, ai, next, loop>>
    BY <1>1, <2>2 DEF ssh_socket_connect, loop
  <2> QED BY <1>1, <2>1, <2>2 DEF ssh_socket_connect
<1>2. CASE AttemptRefused
  BY <1>2 DEF AttemptRefused, Looping, LoopInv
<1>3. CASE AttemptPending
  BY <1>3 DEF AttemptPending, Looping, AfterFirst, LoopInv
<1>4. CASE AttemptConnected
  BY <1>4 DEF AttemptConnected, Looping, LoopInv
<1>5. CASE Settle
  <2>0. /\ LoopInv /\ (found # NoFd \/ itr = NULL)
        /\ next' = IF found = NoFd THEN firstNext ELSE NULL
        /\ refused' = refused /\ accepted' = accepted
    BY <1>5 DEF Settle
  <2>1. CASE Result # NoFd
    <3>1. /\ state' = "connecting" /\ fd' = Result
          /\ open' = (open \ Superseded) \ {fd} /\ ai' = ai
      BY <1>5, <2>1 DEF Settle
    <3>2. TypeOK'
      <4>1. /\ caller' = caller /\ itr' = itr /\ found' = found /\ first' = first
            /\ firstNext' = firstNext
        BY <1>5 DEF Settle, loop
      <4>2. fd' \in 0 .. Count /\ next' \in 1 .. Count + 1 /\ open' \subseteq open
        BY <2>0, <3>1 DEF Result
      <4> QED BY <2>0, <3>1, <4>1, <4>2
    <3>3. ConnectingInv'
      BY <2>0, <2>1, <3>1 DEF Result, LoopInv, ConnectingInv
    <3>4. open' = {fd'}
      BY <2>0, <2>1, <3>1 DEF Result, Superseded, LoopInv
    <3> QED BY <3>1, <3>2, <3>3, <3>4
  <2>2. CASE Result = NoFd
    <3>1. state' = "error" /\ fd' = NoFd /\ open' = open \ {fd}
      BY <1>5, <2>2 DEF Settle
    <3>2. TypeOK'
      <4>1. /\ caller' = caller /\ itr' = itr /\ found' = found /\ first' = first
            /\ firstNext' = firstNext /\ ai' \in {"none", "list"}
        BY <1>5, <2>2 DEF Settle, loop
      <4>2. fd' \in 0 .. Count /\ next' \in 1 .. Count + 1 /\ open' \subseteq open
        BY <2>0, <3>1
      <4> QED BY <2>0, <3>1, <4>1, <4>2
    <3>3. open' = {}
      BY <2>0, <2>2, <3>1 DEF Result, LoopInv
    <3>4. refused' = Address
      <4>1. first = 0 /\ itr = Count + 1 /\ refused \subseteq Address
        BY <2>0, <2>2 DEF Result
      <4>2. \A a \in Address : a \in refused
        BY <2>0, <4>1 DEF LoopInv
      <4> QED BY <2>0, <4>1, <4>2
    <3> QED BY <3>1, <3>2, <3>3, <3>4
  <2> QED BY <2>1, <2>2
<1>6. CASE PollError
  <2>0. /\ ConnectingInv /\ open = {fd}
        /\ refused' = refused \cup {fd} /\ accepted' = accepted /\ ai' = ai
    BY <1>6 DEF PollError, ConnectingInv
  <2>1. CASE HasNextAddress
    <3>1. EnterLoop("poll", next) /\ fd' = fd /\ open' = open
      BY <1>6, <2>1 DEF PollError
    <3>2. TypeOK'
      <4>1. /\ state' = "attempt" /\ caller' = "poll"
            /\ next' = next /\ itr' = next /\ found' = 0 /\ first' = 0 /\ firstNext' = Count + 1
        BY <3>1 DEF EnterLoop
      <4> QED BY <2>0, <3>1, <4>1 DEF ConnectingInv
    <3>3. next \in Address /\ next = fd + 1 /\ \A a \in Address : a < fd => a \in refused
      BY <2>0, <2>1 DEF HasNextAddress, ConnectingInv
    <3>4. LoopInv'
      BY <2>0, <3>1, <3>3 DEF EnterLoop, LoopInv
    <3> QED BY <3>1, <3>2, <3>4 DEF EnterLoop
  <2>2. CASE ~HasNextAddress
    <3>1. /\ state' = "error" /\ open' = open \ {fd} /\ fd' = NoFd
          /\ UNCHANGED <<caller, next, loop>>
      BY <1>6, <2>2 DEF PollError
    <3>2. TypeOK'
      BY <2>0, <3>1 DEF loop, ConnectingInv
    <3>3. refused' = Address \/ accepted' # {}
      <4>1. CASE fd \in accepted
        BY <2>0, <4>1
      <4>2. CASE fd = Count /\ \A a \in Address : a < fd => a \in refused
        <5>1. \A a \in Address : a \in refused'
          BY <2>0, <4>2
        <5>2. refused' \subseteq Address
          BY <3>2
        <5> QED BY <5>1, <5>2
      <4> QED BY <2>0, <2>2, <4>1, <4>2 DEF HasNextAddress, ConnectingInv
    <3> QED BY <2>0, <3>1, <3>2, <3>3
  <2> QED BY <2>1, <2>2
<1>7. CASE PollOut \/ Timeout
  BY <1>7 DEF PollOut, Timeout, loop, ConnectingInv
<1>8. CASE ssh_socket_free
  <2>1. state' = "freed" /\ open' = {} /\ fd' = NoFd
    BY <1>8 DEF ssh_socket_free
  <2>2. TypeOK'
    BY <1>8 DEF ssh_socket_free, ssh_socket_free_host, loop
  <2> QED BY <2>1, <2>2
<1>9. CASE UNCHANGED vars
  BY <1>9 DEF vars, loop, LoopInv, ConnectingInv
<1> QED BY <1>1, <1>2, <1>3, <1>4, <1>5, <1>6, <1>7, <1>8, <1>9 DEF Next, Attempt

THEOREM Inductive == Spec => []IInv
  BY InitIInv, NextIInv, PTL DEF Spec

\* Types, for every number of addresses.
THEOREM SocketTypeCorrect == Spec => []TypeOK
<1>1. IInv => TypeOK
  BY DEF IInv
<1> QED BY <1>1, Inductive, PTL

\* The list of addresses is there while one of them may be tried, in the first
\* run of the loop and in those that poll starts, and is freed with the socket.
THEOREM AddressesOutliveLoop == Spec => []AddressesLive
<1>1. Init => AddressesLive
  BY DEF Init, AddressesLive
<1>2. AddressesLive /\ [Next]_vars => AddressesLive'
  BY DEF AddressesLive, Next, ssh_socket_connect, Attempt, AttemptRefused, AttemptPending,
         AttemptConnected, Settle, PollError, EnterLoop, PollOut, Timeout, ssh_socket_free,
         ssh_socket_free_host, loop, vars
<1> QED BY <1>1, <1>2, PTL DEF Spec

\* No descriptor is left open, however many addresses were tried at a time.
THEOREM NoDescriptorLeaks == Spec => []OneDescriptor
<1>1. IInv => OneDescriptor
  BY DEF IInv
<1> QED BY <1>1, Inductive, PTL

\* A failure without a timeout means that every address has refused.
THEOREM EveryAddressRefused == Spec => []FailsOnlyWhenRefused
<1>1. IInv => FailsOnlyWhenRefused
  BY DEF IInv
<1> QED BY <1>1, Inductive, PTL

=============================================================================
