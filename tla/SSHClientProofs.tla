-------------------------- MODULE SSHClientProofs --------------------------
(***************************************************************************)
(* What is proved of the session holds of a client's session (the client's *)
(* steps are built from the session's), and with it that the credentials   *)
(* go to the expected server only and that a call that ended has freed     *)
(* what it allocated.  For every set of identifiers and of host keys.      *)
(***************************************************************************)
EXTENDS SSHClient, SSHSessionProofs

-----------------------------------------------------------------------------
(* Every step of a client is one of its session, or leaves it alone. *)

LEMMA CallSteps == CallStep => [Next]_vars
<1> SUFFICES ASSUME CallStep PROVE SessionStep \/ UNCHANGED vars
  BY DEF Next
<1>1. CASE Configure
  BY <1>1 DEF Configure, SessionStep
<1>2. CASE Free
  BY <1>2 DEF Free, SessionStep
<1>3. CASE Connect
  BY <1>3 DEF Connect, SessionStep
<1>4. CASE VerifyHostKey \/ GetHostKey
  BY <1>4 DEF VerifyHostKey, GetHostKey, AsksForKey, SessionStep
<1>5. CASE Authenticate
  BY <1>5 DEF Authenticate, SessionStep
<1>6. CASE Close
  BY <1>6 DEF Close, SessionStep
<1>7. CASE BodyEnds
  BY <1>7 DEF BodyEnds
<1> QED BY <1>1, <1>2, <1>3, <1>4, <1>5, <1>6, <1>7 DEF CallStep

LEMMA UseSteps == Use => Next
  BY DEF Use, Next, SessionStep

LEMMA Steps == [ClientNext]_clientVars => [Next]_vars
<1>1. Lose => Next
  BY DEF Lose, Next
<1> QED BY <1>1, CallSteps, UseSteps DEF ClientNext, clientVars

\* The behaviours of a client are behaviours of its session, by the way the
\* steps of ClientNext are put together, so that the theorems of SSHSession
\* can be cited.
LEMMA Uses == ClientSpec => Spec
<1>1. ClientInit => Init
  BY DEF ClientInit
<1> QED BY <1>1, Steps, PTL DEF ClientSpec, Spec

\* The session of a client neither leaks nor hands out dangling pointers.
THEOREM SessionIsSound == ClientSpec => [](NothingLeaks /\ OwnersRegistered /\ NothingDangles)
  BY Uses, NoLeak, OwnedByOpen, NoDanglingPointer, PTL

-----------------------------------------------------------------------------
(* A session that was freed stays freed. *)

LEMMA FreedForGood == [Next]_vars => (session' => session)
<1> SUFFICES ASSUME Next, session' PROVE session
  BY DEF vars, registry
<1>1. CASE LoseConnection
  BY <1>1 DEF LoseConnection, Connected
<1>2. CASE SessionStep
  <2>1. CASE setOption \/ connect \/ serverHostKey
    BY <2>1 DEF setOption, connect, serverHostKey, registry
  <2>2. CASE authenticate
    BY <2>2 DEF authenticate, RepliedClosed, registry
  <2>3. CASE freeUnused \/ close
    BY <2>3 DEF freeUnused, close
  <2> QED BY <1>2, <2>1, <2>2, <2>3 DEF SessionStep
<1>3. CASE \E id \in SSHChannelID : ChannelStep(id)
  BY <1>3 DEF ChannelStep, openChannelSession, closeChannel, useChannel,
       RepliedClosed, registry
<1>4. CASE \E id \in SFTPClientID : SftpStep(id)
  BY <1>4 DEF SftpStep, createSftp, pathOperation, freeSftp, RepliedClosed, registry
<1>5. CASE \E id \in SFTPFileID : FileStep(id)
  BY <1>5 DEF FileStep, openFile, useFile, seekFile, closeFile, RepliedClosed,
       registry
<1>6. CASE \E id \in SFTPDirectoryID : DirectoryStep(id)
  BY <1>6 DEF DirectoryStep, openDirectory, readDirectory, closeDirectory,
       RepliedClosed, registry
<1>7. CASE \E a \in SFTPAioID : AioStep(a)
  <2> SUFFICES ASSUME NEW a \in SFTPAioID, AioStep(a) PROVE session' = session
    BY <1>7
  <2>1. CASE beginRead(a) \/ beginWrite(a)
    BY <2>1 DEF beginRead, beginWrite, begin, NoWindow, RepliedClosed, registry
  <2>2. CASE waitRead(a) \/ waitWrite(a)
    BY <2>2 DEF waitRead, waitWrite, withFreeingAio, RepliedClosed, registry
  <2> QED BY <2>1, <2>2 DEF AioStep
<1> QED BY <1>1, <1>2, <1>3, <1>4, <1>5, <1>6, <1>7 DEF Next

-----------------------------------------------------------------------------
(* The steps of a call, in their order. *)

\* Once it ended the session is gone; it authenticates only towards the server
\* it wants, and not at all when it only asks for a key.
CInv ==
    /\ entry \in Entry /\ pc \in Step
    /\ expected \in HostKey \cup {NoKey} /\ presented \in HostKey \cup {NoKey}
    /\ credentials \subseteq HostKey
    /\ outcome \in Result \cup {"none", "hostKeyMismatch", "bodyError"}
    /\ pc \in {"verify", "authenticate"} => presented \in HostKey
    /\ pc = "ended" => ~session
    /\ pc = "verify" => entry # "hostKey"
    /\ pc = "authenticate" => entry # "hostKey" /\ expected \in {NoKey, presented}
    /\ CredentialsToExpected

LEMMA NextCInv == CInv /\ TypeOK' /\ [ClientNext]_clientVars => CInv'
<1> SUFFICES ASSUME CInv, TypeOK', [ClientNext]_clientVars PROVE CInv'
  OBVIOUS
<1>0. last'.result \in Result
  BY DEF TypeOK
<1> USE DEF CInv, Step, CredentialsToExpected, Try, Continue, Catch
<1>1. CASE Configure
  BY <1>0, <1>1 DEF Configure
<1>2. CASE Free
  BY <1>2 DEF Free, freeUnused
<1>3. CASE Connect
  BY <1>0, <1>3 DEF Connect, AfterConnect, Entry
<1>4. CASE VerifyHostKey
  BY <1>0, <1>4 DEF VerifyHostKey
<1>5. CASE GetHostKey
  BY <1>0, <1>5 DEF GetHostKey
<1>6. CASE Authenticate
  BY <1>0, <1>6 DEF Authenticate, Result
<1>7. CASE BodyEnds
  BY <1>7 DEF BodyEnds, AfterBody
<1>8. CASE Close
  BY <1>8 DEF Close, close
<1>9. CASE UNCHANGED client
  BY <1>9, Steps, FreedForGood DEF client
<1> QED BY <1>1, <1>2, <1>3, <1>4, <1>5, <1>6, <1>7, <1>8, <1>9 DEF ClientNext, CallStep, Use, Lose, clientVars, client

LEMMA ClientInductive == ClientSpec => []CInv
<1>1. ClientInit => CInv
  BY DEF ClientInit, CInv, Entry, Step, CredentialsToExpected
<1> QED BY <1>1, NextCInv, Uses, TypeCorrect, PTL DEF ClientSpec

\* Types, those of the session under the client's steps included.
THEOREM ClientTypeCorrect == ClientSpec => []ClientTypeOK
<1>1. CInv /\ TypeOK => ClientTypeOK
  BY DEF CInv, ClientTypeOK
<1> QED BY <1>1, ClientInductive, Uses, TypeCorrect, PTL

\* The credentials go to no server but the expected one.
THEOREM OnlyToExpected == ClientSpec => []CredentialsToExpected
<1>1. CInv => CredentialsToExpected
  BY DEF CInv
<1> QED BY <1>1, ClientInductive, PTL

\* A call that ended has freed everything, whatever escaped from its body.
THEOREM FreedAtTheEnd == ClientSpec => []EndedIsFreed
<1>1. CInv /\ NothingLeaks /\ OwnersRegistered => EndedIsFreed
  <2> SUFFICES ASSUME CInv, NothingLeaks, OwnersRegistered, pc = "ended" PROVE Freed
    BY DEF EndedIsFreed
  <2>1. ~session /\ channels = {} /\ sftps = {}
    BY DEF CInv, OwnersRegistered
  <2>2. files = {} /\ directories = {}
    BY <2>1 DEF OwnersRegistered
  <2>3. aios = {}
    BY <2>2 DEF OwnersRegistered
  <2> QED BY <2>1, <2>2, <2>3 DEF NothingLeaks, Freed
<1> QED BY <1>1, ClientInductive, SessionIsSound, PTL

=============================================================================
