------------------------------ MODULE Transfer ------------------------------
(* One connection as a stream of bytes: the frames of a client pass through  *)
(* Buffer::readFd (include/LJob/Buffer.h) with SocketImpl::recv_data, and    *)
(* the replies through SocketImpl::send_data (src/LSocket/socketimpl.cpp).   *)
(* TCP delivers what was sent in pieces of any size and holds only so much   *)
(* in either direction.  SubReactor has the threads and takes a frame as a   *)
(* whole; here one process stands for the reactor and the worker, which the  *)
(* one-shot registration lets at the socket in turn.                         *)
(* A byte is its place in the stream, so that a server that has lost the     *)
(* frames is seen.                                                           *)
EXTENDS Integers, Sequences, FiniteSetsExt

CONSTANTS Frames,       \* what the client sends: "HYT" or "TST", in a sequence
          Body,         \* bytes in the body of a HYT frame
          TestLen,      \* bytes in the body of a TST frame, 82 in the code
          Reply,        \* bytes in the text of a reply
          CapIn, CapOut,    \* what TCP holds in each direction
          Ahead,        \* frames that the client sends before it reads
          Garbage       \* lengths that a half read int may have

ConfirmSize == 3
IntSize == 4
ReplySize == IntSize + Reply

(* The client may owe the reading of Ahead - 1 replies while it sends.       *)
ASSUME RoomAssumption == CapOut >= (Ahead - 1) * ReplySize
ASSUME FramesAssumption ==
    /\ {Body, TestLen, Reply, CapIn, CapOut, Ahead} \subseteq Nat \ {0}
    /\ Garbage \subseteq Nat /\ Frames \in Seq({"HYT", "TST"})

VARIABLES sent, hung,       \* the client: bytes sent, it has hung up
          answers, got,     \* replies given, bytes of replies read
          read, out,        \* the server: bytes read, bytes of replies sent
          frames,           \* frames that task() was called for
          at, left,         \* where it stands, what the call still wants
          stale,            \* errno is EAGAIN
          torn              \* history: a header was read in part

client == <<sent, hung, got>>
transferVars == <<client, answers, read, out, frames, at, left, stale, torn>>

FrameSize(k) == ConfirmSize + IF k = "HYT" THEN IntSize + Body ELSE TestLen

(* Where frame i + 1 begins.                                                 *)
Start[i \in 0 .. Len(Frames)] ==
    IF i = 0 THEN 0 ELSE Start[i - 1] + FrameSize(Frames[i])

Total == Start[Len(Frames)]

TransferInit == /\ sent = 0 /\ hung = FALSE /\ got = 0
                /\ answers = 0 /\ read = 0 /\ out = 0 /\ frames = 0
                /\ at = "epoll" /\ left = 0
                /\ stale \in BOOLEAN /\ torn = FALSE
-----------------------------------------------------------------------------
(* The client sends on while it is less than Ahead replies behind, in pieces *)
(* that end anywhere, and reads when it may not send.                        *)
Behind == answers - (got \div ReplySize)
Limit == Start[Min({Len(Frames), frames - Behind + Ahead})]

ClientSends == /\ ~hung
               /\ \E k \in 1 .. Limit - sent :
                    /\ sent + k - read <= CapIn
                    /\ sent' = sent + k
               /\ UNCHANGED <<hung, got, answers, read, out, frames, at, left, stale, torn>>

ClientReads == /\ ~hung /\ sent >= Limit
               /\ \E k \in 1 .. out - got : got' = got + k
               /\ UNCHANGED <<sent, hung, answers, read, out, frames, at, left, stale, torn>>

ClientHangsUp == /\ ~hung /\ hung' = TRUE
                 /\ UNCHANGED <<sent, got, answers, read, out, frames, at, left, stale, torn>>
-----------------------------------------------------------------------------
(* recv of at most want bytes, k of them here; none are there: end of stream *)
(* or EAGAIN.                                                                *)
Avail == sent - read
Recv(k, want) == /\ k = Min({want, Avail}) /\ k > 0
                 /\ read' = read + k
Empty == Avail = 0
Again == Empty /\ ~hung /\ stale' = TRUE

Close == at' = "closed" /\ UNCHANGED left

(* An event, which stays armed until the reactor takes it.  Before that the  *)
(* thread may have dealt with other connections: errno is whatever they left.*)
EpollWait == /\ at = "epoll" /\ (~Empty \/ hung)
             /\ at' = "confirm" /\ stale' \in BOOLEAN
             /\ UNCHANGED <<client, answers, read, out, frames, left, torn>>

(* The three bytes in one call: of a frame that begins there, or bytes that  *)
(* are no confirm.  Those, fewer or the end close the connection.            *)
InStep == frames <= Len(Frames) /\ read = Start[frames]
Kinds == {Frames[i] : i \in {i \in DOMAIN Frames : read = Start[i - 1]}}

RecvConfirm ==
    /\ at = "confirm"
    /\ \/ Empty /\ Close /\ UNCHANGED <<read, torn>>
       \/ \E k \in 1 .. ConfirmSize :
            /\ Recv(k, ConfirmSize)
            /\ torn' = (torn \/ k < ConfirmSize)
            /\ \/ (k < ConfirmSize \/ Kinds = {}) /\ Close
               \/ k = ConfirmSize /\ "TST" \in Kinds /\ at' = "body" /\ left' = TestLen
               \/ k = ConfirmSize /\ "HYT" \in Kinds /\ at' = "len" /\ UNCHANGED left
    /\ UNCHANGED <<client, answers, out, frames, stale>>

(* The length, again in one call, but as few as one byte will do: the rest   *)
(* of mpkgH.len was never written, and a length that resize refuses ends the *)
(* process.                                                                  *)
RecvLen ==
    /\ at = "len"
    /\ \/ Again /\ UNCHANGED <<read, at, left, torn>>
       \/ Empty /\ hung /\ Close /\ UNCHANGED <<read, stale, torn>>
       \/ \E k \in 1 .. IntSize :
            /\ Recv(k, IntSize)
            /\ torn' = (torn \/ k < IntSize)
            /\ left' \in IF k < IntSize THEN Garbage ELSE {Body}
            /\ at' = "body" \/ (k < IntSize /\ at' = "crashed")
            /\ UNCHANGED stale
    /\ UNCHANGED <<client, answers, out, frames>>

(* recv_data and send_data: until nothing is left.  The end of the stream is *)
(* one more EAGAIN to recv_data when errno still says so.                    *)
Left_once(k) == 0           \* one call and no loop
Left_all(k) == left         \* len -= ret is missing
Left(k) == left - k

RecvBody ==
    /\ at = "body" /\ left > 0
    /\ \/ Again /\ UNCHANGED <<read, at, left>>
       \/ Empty /\ hung /\ ~stale /\ Close /\ UNCHANGED <<read, stale>>
       \/ \E k \in 1 .. left :
            /\ Recv(k, left)
            /\ left' = Left(k)
            /\ UNCHANGED <<at, stale>>
    /\ UNCHANGED <<client, answers, out, frames, torn>>

(* task(): an empty answer, or its length and text.  A client knows which    *)
(* types have no answer, and does not wait for one.                          *)
Answer_bug == 2 * ReplySize  \* both calls send the whole reply
Answer == ReplySize

Deal == /\ at = "body" /\ left = 0
        /\ frames' = frames + 1
        /\ \/ at' = "epoll" /\ UNCHANGED <<answers, left>>
           \/ at' = "send" /\ left' = Answer /\ answers' = answers + 1
        /\ UNCHANGED <<client, read, out, stale, torn>>

(* send_data, which spins while the socket is full, and whose errors are     *)
(* only logged.  Two calls in a row make one stream.  (SubReactor has the    *)
(* SIGPIPE.)                                                                 *)
SendData ==
    /\ at = "send" /\ left > 0
    /\ \/ \E k \in 1 .. Min({left, CapOut - (out - got)}) :
            ~hung /\ out' = out + k /\ left' = Left(k)
       \/ hung /\ left' = 0 /\ UNCHANGED out
    /\ UNCHANGED <<client, answers, read, frames, at, stale, torn>>

Readable == /\ at = "send" /\ left = 0
            /\ at' = "epoll"
            /\ UNCHANGED <<client, answers, read, out, frames, left, stale, torn>>
-----------------------------------------------------------------------------
Server == \/ EpollWait \/ RecvConfirm \/ RecvLen \/ RecvBody \/ Deal
          \/ SendData \/ Readable

TransferNext == ClientSends \/ ClientReads \/ ClientHangsUp \/ Server

TransferSpec == TransferInit /\ [][TransferNext]_transferVars

(* Threads go on; a client that has begun finishes a frame and reads its     *)
(* replies, or hangs up.                                                     *)
FairTransferSpec == /\ TransferSpec
                    /\ WF_transferVars(Server)
                    /\ WF_transferVars(ClientSends) /\ WF_transferVars(ClientReads)
-----------------------------------------------------------------------------
TransferTypeOK ==
    /\ sent \in 0 .. Total /\ read \in 0 .. sent
    /\ frames \in Nat /\ answers \in 0 .. frames
    /\ out \in 0 .. answers * ReplySize /\ got \in 0 .. out
    /\ out - got <= CapOut /\ sent - read <= CapIn
    /\ at \in {"epoll", "confirm", "len", "body", "send", "closed", "crashed"}
    /\ left \in Nat
    /\ hung \in BOOLEAN /\ stale \in BOOLEAN /\ torn \in BOOLEAN

(* However TCP cuts the streams, between two frames the server is where a    *)
(* frame begins, unless a header was cut, and has sent its replies whole.    *)
(* So a client that keeps to the protocol gets on the black list only after  *)
(* TCP has cut one of its headers.                                           *)
FramesInStep == at \in {"epoll", "confirm"} =>
                    (torn \/ InStep) /\ (hung \/ out = answers * ReplySize)

(* The worker that spins in send_data on a full socket and a client that     *)
(* cannot send on never wait for each other: the client has come to where it *)
(* reads.                                                                    *)
ServerWaits == at = "send" /\ left > 0 /\ out - got = CapOut
ClientWaits == sent < Limit /\ sent - read = CapIn
NoStandstill == ServerWaits /\ ClientWaits => hung \/ torn

(* A client that pipelines gets through: a frame that it has begun to send   *)
(* is dealt with, although the worker spins in send_data until the client    *)
(* reads, and the client reads only when it has sent.                        *)
FramesDone == \A i \in DOMAIN Frames :
                sent > Start[i - 1] ~> (frames >= i \/ hung \/ torn)
=============================================================================
