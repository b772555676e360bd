---------------------------- MODULE SFTPTransfer ----------------------------
(***************************************************************************)
(* The transfers of SFTPFile.swift, several at a time over one SFTP        *)
(* session: the pipelined ones, SFTPReader (stream, download) and          *)
(* SFTPWriter (withAsyncWriter, upload), and the loops of SFTPFile.read    *)
(* and SFTPFile.write, which make one blocking call after another.         *)
(*                                                                         *)
(* A pipelined transfer keeps up to QueueSize requests in flight and waits *)
(* for them in the order it sent them.  All the transfers of a session send*)
(* through one channel, whose window is room at the server.  For these the *)
(* session actor never blocks on the window: beginRead and beginWrite      *)
(* answer nil when there is no room, and only a wait reads the socket,     *)
(* where the room comes back.  A transfer that is answered nil with nothing*)
(* of its own to wait for yields and asks again, so that it depends on the *)
(* others; such an iteration changes nothing and is a stuttering step here.*)
(* sftp_read and sftp_write do block, on the window and on the answer, and *)
(* hold the actor for everyone meanwhile.                                  *)
(*                                                                         *)
(* Any other call of the actor is one action; a wait is enabled once the   *)
(* answer is in the socket, since the actor does nothing else until then.  *)
(***************************************************************************)
EXTENDS Integers, SequencesExt

CONSTANTS
    Reader, Writer,     \* the transfers, each on a file of its own
    Size,               \* bytes of each transfer's file: on the server, or local
    Growth,             \* bytes that others may append to a file being read
    From, Length,       \* the range each reader asks for
    BufferSize,         \* bytes of a request, after SFTPLimits.readLength, writeLength
    QueueSize,          \* requests a transfer keeps in flight
    Overhead,           \* window a request takes besides its data
    Window,             \* the server's channel window
    Threshold,          \* the server returns room once it owes this much
    Reordering          \* the server may answer a request before an earlier one

Transfer == Reader \cup Writer

ASSUME TransferAssumption ==
    /\ Reader \cap Writer = {}
    /\ Size \in [Transfer -> Nat] /\ Growth \in Nat
    /\ From \in [Reader -> Nat] /\ Length \in [Reader -> Nat]
    /\ BufferSize \in Nat \ {0} /\ QueueSize \in Nat \ {0}
    /\ Overhead \in Nat \ {0} /\ Window \in Nat /\ Threshold \in Nat \ {0}
    /\ Reordering \in BOOLEAN

\* What the server keeps back never starves a request, not even one that a
\* blocking call sends whole: OpenSSH returns room long before its window is
\* used up, and the largest request is a small part of it.
ASSUME WindowAssumption == Window >= Threshold - 1 + Overhead + BufferSize

VARIABLES
    blocking,   \* the transfers that are SFTPFile.read or SFTPFile.write
    pc,         \* where each transfer is
    outcome,    \* how each transfer ended
    begun,      \* bytes requested so far: `count`, or the data written
    queue,      \* `queue`: the requests each transfer has to wait for
    position,   \* libssh: the offset of each open file
    delivered,  \* positions of the bytes each reader handed to its consumer
    stored,     \* positions of the bytes of each upload that the server has
    cancelled,  \* streams whose task was cancelled
    busy,       \* the transfer whose blocking call holds the actor, if any
    size,       \* bytes of each file being read, on the server
    link,       \* "up", "down", or "closed" once the SFTP session was freed
    window,     \* libssh: the room the client knows of
    sent,       \* requests on their way to the server
    owed,       \* room the server has not given back
    inbound,    \* answers in the socket, with the room given back before each
    replies     \* libssh: answers taken from the socket while waiting for others

local == <<blocking, pc, outcome, begun, queue, position, delivered, cancelled>>
network == <<link, window, sent, owed, inbound, replies>>
vars == <<blocking, pc, outcome, begun, queue, position, delivered, stored, cancelled,
          busy, size, link, window, sent, owed, inbound, replies>>

LeastOf(a, b) == IF a < b THEN a ELSE b

Request == [by : Transfer, at : Nat, length : Nat]

\* Room a request takes in the window: only a write carries data.
Cost(t, length) == Overhead + (IF t \in Writer THEN length ELSE 0)

-----------------------------------------------------------------------------
(* The server. *)

Failed == -1

\* How the server may answer: with the bytes there are, or with an error.
Answers(q) ==
    {Failed, IF q.by \in Writer THEN q.length
             ELSE IF q.at < size[q.by] THEN LeastOf(q.length, size[q.by] - q.at) ELSE 0}

\* The server handles a request.  Room is given back, when enough is owed,
\* before the answer is sent.
Serve ==
    /\ link = "up"
    /\ \E i \in DOMAIN sent : \E n \in Answers(sent[i]) :
        LET q == sent[i]
            due == owed + Cost(q.by, q.length)
            credit == IF due >= Threshold THEN due ELSE 0
        IN  /\ Reordering \/ i = 1
            /\ sent' = RemoveAt(sent, i)
            /\ owed' = due - credit
            /\ inbound' = Append(inbound, [request |-> q, result |-> n, credit |-> credit])
            /\ stored' = IF q.by \in Writer /\ n # Failed
                         THEN [stored EXCEPT ![q.by] = @ \cup q.at .. (q.at + n - 1)]
                         ELSE stored
    /\ UNCHANGED <<local, busy, size, link, window, replies>>

\* Somebody appends to a file while it is read, once.
Grow(t) ==
    /\ link = "up" /\ pc[t] \notin {"leave", "done"}
    /\ Growth > 0 /\ size[t] = Size[t]
    /\ size' = [size EXCEPT ![t] = @ + Growth]
    /\ UNCHANGED <<local, stored, busy, network>>

LoseConnection ==
    /\ link = "up"
    /\ link' = "down" /\ sent' = <<>> /\ inbound' = <<>>
    /\ UNCHANGED <<local, stored, busy, size, window, owed, replies>>

-----------------------------------------------------------------------------
(* libssh. *)

\* Mutant: only the header of a request is taken to need room.
HasRoomForHeader(t, length) == Overhead <= window

HasRoom(t, length) == Cost(t, length) <= window

\* A request goes out.  The window must have room for all of it: what a
\* blocking call sends in parts, as room comes back, goes out at once here.
SendRequest(t, length) ==
    LET q == [by |-> t, at |-> position[t], length |-> length] IN
    /\ link = "up" /\ HasRoom(t, length)
    /\ sent' = Append(sent, q)
    /\ window' = window - Cost(t, length)
    /\ queue' = [queue EXCEPT ![t] = Append(@, q)]
    /\ UNCHANGED <<link, owed, inbound, replies>>

Seek(t, offset) == position' = [position EXCEPT ![t] = offset]

\* The offset of the file is moved past what is asked for, in advance.
sftp_aio_begin_read(t, length) == SendRequest(t, length) /\ Seek(t, position[t] + length)
sftp_aio_begin_write(t, length) == SendRequest(t, length) /\ Seek(t, position[t] + length)

sftp_seek64(t, offset) == Seek(t, offset)

\* The first n answers in the socket are taken: the room they give back is
\* added to the window and the answers are kept for those who wait for them.
Total(first, amounts, n) ==
    LET total[i \in 0 .. n] == IF i = 0 THEN first ELSE total[i - 1] + amounts[i]
    IN  total[n]

Credits == [i \in DOMAIN inbound |-> inbound[i].credit]
Room(n) == Total(window, Credits, n)
Taken(n) == {[request |-> p.request, result |-> p.result] : p \in ToSet(SubSeq(inbound, 1, n))}

\* The answer to the oldest request of t, be it taken before or still in the
\* socket; without a connection there is none.
Answered(t, n) ==
    LET q == Head(queue[t])
        reply == [request |-> q, result |-> n]
    IN
    /\ queue[t] # <<>>
    /\ queue' = [queue EXCEPT ![t] = Tail(@)]
    /\ \/ reply \in replies /\ replies' = replies \ {reply}
          /\ UNCHANGED <<window, inbound>>
       \/ /\ link # "up" /\ n = Failed
          /\ \A r \in replies : r.request # q
          /\ UNCHANGED <<window, inbound, replies>>
       \/ \E i \in DOMAIN inbound :
            /\ inbound[i].request = q /\ inbound[i].result = n
            /\ window' = Room(i)
            /\ replies' = (replies \cup Taken(i)) \ {reply}
            /\ inbound' = SubSeq(inbound, i + 1, Len(inbound))
    /\ UNCHANGED <<link, sent, owed>>

\* Bytes read, 0 at the end of the file, or an error.
sftp_aio_wait_read(t, n) == Answered(t, n)

sftp_aio_wait_write(t, n) == Answered(t, n)

\* Mutant: the blocking calls move the offset by what was asked for.
AdvanceByRequest(t, n) == Seek(t, position[t] + Head(queue[t]).length)

\* The blocking calls move the offset by what was read or written.
Advance(t, n) == IF n = Failed THEN UNCHANGED position ELSE Seek(t, position[t] + n)

sftp_read(t, n) == Answered(t, n) /\ Advance(t, n)
sftp_write(t, n) == Answered(t, n) /\ Advance(t, n)

-----------------------------------------------------------------------------
(* The calls of the session actor that a transfer makes. *)

\* Nobody's blocking call holds the actor.
ActorFree == busy = {}

\* The transfer throws: its scope will close the file.
Throws(t) == /\ pc' = [pc EXCEPT ![t] = "leave"]
             /\ outcome' = [outcome EXCEPT ![t] = "failed"]

\* The transfer returns, or its consumer sees the end.
Returns(t) == /\ pc' = [pc EXCEPT ![t] = "leave"]
              /\ outcome' = [outcome EXCEPT ![t] = "ok"]

\* beginRead and beginWrite look at the window before libssh looks at the
\* connection, and answer nil when there is no room.
NoRoom(t) == link # "closed" /\ window < Overhead + (IF t \in Writer THEN 1 ELSE 0)

\* Mutant: the transfer asks again although it has something to wait for.
MustWaitWhenFull(t) == NoRoom(t) /\ Len(queue[t]) = QueueSize

\* Mutant: nil ends the filling of the queue even when it is empty.
MustWaitAlways(t) == NoRoom(t)

\* Nil ends the filling of the queue while there is something to wait for;
\* otherwise the transfer yields and asks again.
MustWait(t) == NoRoom(t) /\ queue[t] # <<>>

\* Mutant: nil is also the answer on a connection that was lost.
BeginThrowsWhenClosed(t) == link = "closed"

BeginThrows(t) == link = "closed" \/ (~NoRoom(t) /\ link = "down")

beginRead(t, length) ==
    /\ ~NoRoom(t)
    /\ sftp_aio_begin_read(t, length)
    /\ begun' = [begun EXCEPT ![t] = @ + length]

\* The window may cut the request short.
beginWrite(t, length) ==
    /\ ~NoRoom(t)
    /\ LET fits == LeastOf(length, window - Overhead) IN
        /\ sftp_aio_begin_write(t, fits)
        /\ begun' = [begun EXCEPT ![t] = @ + fits]

-----------------------------------------------------------------------------
(* SFTPReader.Iterator.next and the consumer around it. *)

\* The offset is set before the first request.
Seeks(t) == begun[t] = 0

\* The consumer calls next, or read begins.  Only streams look at the
\* cancellation of their task.
StartNext(t) ==
    /\ pc[t] = "next"
    /\ IF t \in cancelled
       THEN /\ pc' = [pc EXCEPT ![t] = "leave"]
            /\ outcome' = [outcome EXCEPT ![t] = "cancelled"]
            /\ UNCHANGED position
       ELSE /\ Seeks(t) => ActorFree
            /\ IF Seeks(t) /\ link = "closed"
               THEN Throws(t) /\ UNCHANGED position
               ELSE /\ pc' = [pc EXCEPT ![t] = IF t \in blocking THEN "call" ELSE "fill"]
                    /\ IF Seeks(t) THEN sftp_seek64(t, From[t]) ELSE UNCHANGED position
                    /\ UNCHANGED outcome
    /\ UNCHANGED <<blocking, begun, queue, delivered, stored, cancelled, busy, size, network>>

\* The condition of the loop that fills the queue.
Filling(t) == Len(queue[t]) < QueueSize /\ begun[t] < Length[t]

\* One iteration of that loop, unless it only yields.
Fill(t) ==
    /\ pc[t] = "fill" /\ Filling(t) /\ ActorFree
    /\ \/ /\ BeginThrows(t) /\ Throws(t)
          /\ UNCHANGED <<begun, queue, position, network>>
       \/ /\ MustWait(t)
          /\ pc' = [pc EXCEPT ![t] = "take"]
          /\ UNCHANGED <<outcome, begun, queue, position, network>>
       \/ /\ beginRead(t, LeastOf(BufferSize, Length[t] - begun[t]))
          /\ UNCHANGED <<pc, outcome>>
    /\ UNCHANGED <<blocking, delivered, stored, cancelled, busy, size>>

\* The offsets of the bytes that the oldest request of t has read.
Reads(t, n) == [k \in 1 .. n |-> Head(queue[t]).at + k - 1]

\* The oldest request is waited for; nothing read is the end of the stream.
Take(t) ==
    /\ pc[t] = "take" \/ (pc[t] = "fill" /\ ~Filling(t))
    /\ \/ /\ queue[t] = <<>> /\ Returns(t)
          /\ UNCHANGED <<queue, delivered, network>>
       \/ \E n \in Failed .. BufferSize :
            /\ ActorFree
            /\ sftp_aio_wait_read(t, n)
            /\ \/ n = Failed /\ Throws(t) /\ UNCHANGED delivered
               \/ n = 0 /\ Returns(t) /\ UNCHANGED delivered
               \/ /\ n > 0
                  /\ pc' = [pc EXCEPT ![t] = "next"]
                  /\ delivered' = [delivered EXCEPT ![t] = @ \o Reads(t, n)]
                  /\ UNCHANGED outcome
    /\ UNCHANGED <<blocking, begun, position, stored, cancelled, busy, size>>

\* The task of a stream is cancelled, or its consumer leaves the loop.
Cancel(t) ==
    /\ t \notin blocking /\ pc[t] \in {"next", "fill", "take"}
    /\ cancelled' = cancelled \cup {t}
    /\ UNCHANGED <<blocking, pc, outcome, begun, queue, position, delivered, stored, busy, size,
                   network>>

-----------------------------------------------------------------------------
(* SFTPFile.upload: SFTPWriter.write for each piece of the local file, then *)
(* SFTPWriter.flush.  Writers do not look at the cancellation of the task.  *)

\* What is left of the piece being written.
Remaining(t) ==
    LeastOf(Size[t], BufferSize * (begun[t] \div BufferSize + 1)) - begun[t]

Writing(t) == pc[t] = "write" /\ begun[t] < Size[t]

\* One iteration of the loop in write that has room in the queue, unless it
\* only yields.
Write(t) ==
    /\ Writing(t) /\ Len(queue[t]) < QueueSize /\ ActorFree
    /\ \/ /\ BeginThrows(t) /\ Throws(t)
          /\ UNCHANGED <<begun, queue, position, network>>
       \/ /\ MustWait(t)
          /\ pc' = [pc EXCEPT ![t] = "drain"]
          /\ UNCHANGED <<outcome, begun, queue, position, network>>
       \/ /\ beginWrite(t, Remaining(t))
          /\ UNCHANGED <<pc, outcome>>
    /\ UNCHANGED <<blocking, delivered, stored, cancelled, busy, size>>

\* The condition of the loop in flush.
Flushing(t) == pc[t] = "write" /\ begun[t] = Size[t]

\* The oldest request is waited for: the queue is full, or the window is, or
\* everything was written.
Flush(t) ==
    /\ \/ pc[t] = "drain"
       \/ Writing(t) /\ Len(queue[t]) = QueueSize
       \/ Flushing(t)
    /\ ActorFree
    /\ \E n \in Failed .. BufferSize :
        /\ sftp_aio_wait_write(t, n)
        /\ IF n = Failed THEN Throws(t)
           ELSE pc' = [pc EXCEPT ![t] = "write"] /\ UNCHANGED outcome
    /\ UNCHANGED <<blocking, begun, position, delivered, stored, cancelled, busy, size>>

\* Mutant: withAsyncWriter does not flush.
FlushedUnwaited(t) == Flushing(t)

Flushed(t) == Flushing(t) /\ queue[t] = <<>>

\* withAsyncWriter returns.
FinishWrite(t) ==
    /\ Flushed(t) /\ Returns(t)
    /\ UNCHANGED <<blocking, begun, queue, position, delivered, stored, cancelled, busy, size,
                   network>>

-----------------------------------------------------------------------------
(* SFTPFile.read and SFTPFile.write: one blocking call of the actor after   *)
(* another, each with at most BufferSize bytes.                             *)

\* What the loop has yet to read or to write.
Missing(t) == IF t \in Reader THEN Length[t] - Len(delivered[t]) ELSE Size[t] - begun[t]

Piece(t) == LeastOf(BufferSize, Missing(t))

\* readFile or writeFile is called: libssh sends the request, or waits for
\* the window to have room for it.
Call(t) ==
    /\ pc[t] = "call" /\ Missing(t) > 0 /\ ActorFree
    /\ \/ /\ link # "up" /\ Throws(t)
          /\ UNCHANGED <<queue, busy, network>>
       \/ /\ link = "up" /\ busy' = {t}
          /\ IF HasRoom(t, Piece(t)) THEN SendRequest(t, Piece(t))
             ELSE UNCHANGED <<queue, network>>
          /\ UNCHANGED <<pc, outcome>>
    /\ UNCHANGED <<blocking, begun, position, delivered, stored, cancelled, size>>

\* The call waits for the window: it takes answers from the socket until
\* there is room.
Resume(t) ==
    /\ busy = {t} /\ queue[t] = <<>>
    /\ \/ /\ link # "up" /\ Throws(t) /\ busy' = {}
          /\ UNCHANGED <<queue, network>>
       \/ /\ HasRoom(t, Piece(t)) /\ SendRequest(t, Piece(t))
          /\ UNCHANGED <<pc, outcome, busy>>
       \/ /\ ~HasRoom(t, Piece(t)) /\ inbound # <<>>
          /\ window' = Room(1) /\ replies' = replies \cup Taken(1)
          /\ inbound' = Tail(inbound)
          /\ UNCHANGED <<pc, outcome, busy, queue, link, sent, owed>>
    /\ UNCHANGED <<blocking, begun, position, delivered, stored, cancelled, size>>

\* The call returns.  A read of nothing ends the loop; a write that was not
\* of all its data would throw.
CallReturns(t) ==
    /\ busy = {t} /\ busy' = {}
    /\ \E n \in Failed .. BufferSize :
        /\ IF t \in Reader THEN sftp_read(t, n) ELSE sftp_write(t, n)
        /\ IF n = Failed \/ (t \in Writer /\ n # Piece(t)) THEN Throws(t)
           ELSE IF n = 0 THEN Returns(t)
           ELSE UNCHANGED <<pc, outcome>>
        /\ IF t \in Reader /\ n > 0
           THEN delivered' = [delivered EXCEPT ![t] = @ \o Reads(t, n)]
           ELSE UNCHANGED delivered
        /\ IF t \in Writer /\ n > 0
           THEN begun' = [begun EXCEPT ![t] = @ + n]
           ELSE UNCHANGED begun
    /\ UNCHANGED <<blocking, stored, cancelled, size>>

\* Everything was read or written.
LoopEnds(t) ==
    /\ pc[t] = "call" /\ busy # {t} /\ Missing(t) = 0 /\ Returns(t)
    /\ UNCHANGED <<blocking, begun, queue, position, delivered, stored, cancelled, busy, size,
                   network>>

-----------------------------------------------------------------------------

\* withSftpFile closes the file, and with it the requests that nobody waited
\* for.  The close is a request of its own: while its answer is awaited all
\* that came before is taken from the socket.  The room that it takes in the
\* window for so long is left out.
Leave(t) ==
    /\ pc[t] = "leave" /\ ActorFree
    /\ pc' = [pc EXCEPT ![t] = "done"]
    /\ queue' = [queue EXCEPT ![t] = <<>>]
    /\ IF link = "up"
       THEN \E n \in 0 .. Len(inbound) :
                /\ Reordering \/ (sent = <<>> /\ n = Len(inbound))
                /\ window' = Room(n)
                /\ replies' = {r \in replies \cup Taken(n) : r.request.by # t}
                /\ inbound' = SubSeq(inbound, n + 1, Len(inbound))
       ELSE UNCHANGED <<window, replies, inbound>>
    /\ UNCHANGED <<blocking, outcome, begun, position, delivered, stored, cancelled, busy, size,
                   link, sent, owed>>

\* Somebody closes the SFTP session: libssh forgets its channel, the actor
\* the requests.
CloseSftp ==
    /\ link \in {"up", "down"} /\ ActorFree
    /\ link' = "closed"
    /\ sent' = <<>> /\ inbound' = <<>> /\ replies' = {}
    /\ UNCHANGED <<local, stored, busy, size, window, owed>>

-----------------------------------------------------------------------------

Init ==
    /\ blocking \in SUBSET Transfer
    /\ pc = [t \in Transfer |-> IF t \in Reader THEN "next"
                             ELSE IF t \in blocking THEN "call" ELSE "write"]
    /\ outcome = [t \in Transfer |-> "none"]
    /\ begun = [t \in Transfer |-> 0]
    /\ queue = [t \in Transfer |-> <<>>]
    /\ position = [t \in Transfer |-> 0]
    /\ delivered = [t \in Reader |-> <<>>]
    /\ stored = [t \in Writer |-> {}]
    /\ cancelled = {} /\ busy = {}
    /\ size = [t \in Reader |-> Size[t]]
    /\ link = "up" /\ window = Window
    /\ sent = <<>> /\ owed = 0 /\ inbound = <<>> /\ replies = {}

Read(t) == StartNext(t) \/ Fill(t) \/ Take(t)
Upload(t) == Write(t) \/ Flush(t) \/ FinishWrite(t)
Loop(t) == Call(t) \/ Resume(t) \/ CallReturns(t) \/ LoopEnds(t)

Next ==
    \/ Serve \/ LoseConnection \/ CloseSftp
    \/ \E t \in Reader : Read(t) \/ Cancel(t) \/ Grow(t)
    \/ \E t \in Writer : Upload(t)
    \/ \E t \in Transfer : Loop(t) \/ Leave(t)

\* A task that can run runs, and the server handles what it is sent.  Nobody
\* has to cancel, to close, or to lose the connection.
Fairness ==
    /\ WF_vars(Serve)
    /\ \A t \in Reader : WF_vars(Read(t) \/ Loop(t) \/ Leave(t))
    /\ \A t \in Writer : WF_vars(Upload(t) \/ Loop(t) \/ Leave(t))

Spec == Init /\ [][Next]_vars /\ Fairness

-----------------------------------------------------------------------------
(* Properties. *)

TypeOK ==
    /\ blocking \subseteq Transfer
    /\ pc \in [Transfer -> {"next", "fill", "take", "write", "drain", "call", "leave", "done"}]
    /\ outcome \in [Transfer -> {"none", "ok", "failed", "cancelled"}]
    /\ begun \in [Transfer -> Nat] /\ position \in [Transfer -> Nat]
    /\ queue \in [Transfer -> Seq(Request)]
    /\ delivered \in [Reader -> Seq(Nat)]
    /\ stored \in [Writer -> SUBSET Nat]
    /\ cancelled \subseteq Reader \ blocking
    /\ busy = {} \/ \E t \in blocking : busy = {t} /\ pc[t] = "call"
    /\ \A t \in Reader : size[t] \in {Size[t], Size[t] + Growth}
    /\ link \in {"up", "down", "closed"}
    /\ window \in 0 .. Window /\ owed \in 0 .. Threshold - 1
    /\ sent \in Seq(Request)
    /\ inbound \in Seq([request : Request, result : Int, credit : Nat])
    /\ replies \subseteq [request : Request, result : Int]

\* A consumer gets the bytes of its range in order, with no gap and no
\* repetition, whatever the order the server answers in and whoever takes the
\* answers from the socket (SFTPFile.swift:39-66, 139-157).  A stream has its
\* file to itself; read also stands others' appending to the file meanwhile.
InOrder(t) == \A i \in DOMAIN delivered[t] : delivered[t][i] = From[t] + i - 1

\* A stream of a file that grows may leave a gap: it counts what it asked for.
DeliveredInOrder == \A t \in Reader : t \in blocking \/ size[t] = Size[t] => InOrder(t)

\* The bytes there are in the range of a reader when it starts.
Expected(t) == From[t] .. (LeastOf(From[t] + Length[t], Size[t]) - 1)

\* A read that ends by itself, neither thrown out of nor cancelled, has
\* delivered all of its range: a download that returns with a part of the
\* file was cancelled (SFTPFile.swift:40, 59-65, 149-155).
EndedReadIsWhole ==
    \A t \in Reader : outcome[t] = "ok" =>
        /\ Expected(t) \subseteq ToSet(delivered[t])
        /\ size[t] = Size[t] => Expected(t) = ToSet(delivered[t])

\* When upload or write returns, the server has every byte: no failed request
\* was skipped and none is still in flight (SFTPFile.swift:80-103, 159-173,
\* 199-205).
ReturnedUploadIsStored ==
    \A t \in Writer : outcome[t] = "ok" => stored[t] = 0 .. Size[t] - 1

\* While the connection holds every transfer comes to an end: none is left
\* spinning for room in the window that nobody takes from the socket, and no
\* blocking call holds the actor while it waits for what only another
\* transfer could do (SFTPFile.swift:48-56, 82-92; LibSSH.swift:676-705).
TransfersEnd == \A t \in Transfer : <>(pc[t] = "done" \/ link = "down")

\* Once the connection is lost every transfer ends if the window has room for
\* a request: the next begin finds the connection gone (LibSSH.swift:781, 816).
LossWithRoomEndsTransfers ==
    \A t \in Transfer : link = "down" /\ window > Overhead ~> pc[t] = "done"

\* What the test sftpFileOperationAfterConnectionDropThrowsConnectionFailed
\* (SFTPFileTests.swift:456) says of an operation on a file: after the
\* connection is dropped it throws, hence ends.
LossEndsTransfers == \A t \in Transfer : link = "down" ~> pc[t] = "done"

=============================================================================
