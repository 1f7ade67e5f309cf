--------------------------- MODULE FileOperations ---------------------------
(***************************************************************************)
(* The operations of poll_file and async_file, and the functions of the    *)
(* Boost.Asio layer's service that initiate them.                          *)
(*                                                                         *)
(* async_read_some and async_write_some wait until the file is ready and   *)
(* then make system calls that do not block, one after another and buffer  *)
(* by buffer, until one has nothing to give (asio::read and asio::write,   *)
(* which loop over asio_uring::read and asio_uring::write).  Between two   *)
(* of these calls the peer, and the calls of operations whose handlers     *)
(* run on another executor, change what the file has.  The operations of   *)
(* async_file are one vectored call of the kernel each.                    *)
(*                                                                         *)
(* Bytes are not told apart: what is followed is where in the buffers each *)
(* byte goes to or comes from.  How the handlers get to their threads is   *)
(* the business of FileObject.                                             *)
(***************************************************************************)
EXTENDS Integers, SequencesExt

CONSTANTS
  Ops,
  Shapes,  \* buffer sequences, as the sizes of their buffers
  Supply,  \* bytes that the peer sends
  Room,    \* bytes that the file takes before the peer removes some
  Null

ASSUME BoundsAssumption ==
  /\ Shapes \subseteq Seq(Nat) /\ <<>> \in Shapes
  /\ Supply \in Nat /\ Room \in Nat \ {0}

VARIABLES
  kind,    \* kind[op]
  bufs,    \* bufs[op]: the sizes of the buffers of its sequence
  target,  \* target[op]: the operation whose poll a poll_remove is to remove
  phase,   \* phase[op]
  res,     \* res[op]: cqe.res
  cur,     \* cur[op]: the buffer that a read or write is at (begin)
  got,     \* got[op]: bytes of it that are done
  ec,      \* ec[op]
  n,       \* n[op]: bytes_transferred
  log,     \* log[op]: the places of the bytes that were moved, in order
  last,    \* last[op]: what the last system call of op came to
  avail,   \* bytes in the file to be read
  sent,    \* bytes the peer has sent
  inEnd,   \* how the peer has ended what it sends
  used,    \* bytes in the file that the peer has not removed
  broken   \* the peer takes no more

request == <<kind, bufs, target>>
attempt == <<cur, got, ec, n, log, last>>
file == <<avail, sent, inEnd, used, broken>>
vars == <<request, phase, res, attempt, file>>

Stream == {"read", "write"}         \* async_read_some, async_write_some
Polls  == {"poll_in", "poll_out"}   \* async_poll_in, async_poll_out
Vector == {"read_at", "write_at"}   \* async_read_some_at, async_write_some_at
Kinds  == Stream \cup Polls \cup Vector \cup {"flush", "remove"}

(* A place is a buffer of a sequence and a byte of it.                     *)
Places(b) == UNION {{i} \X (1..b[i]) : i \in DOMAIN b}

(* Bytes in the buffers before the i-th, and the places in their order.    *)
Before(b, i) ==
  LET sum[k \in 0..Len(b)] == IF k = 0 THEN 0 ELSE sum[k - 1] + b[k]
  IN  sum[i - 1]
BufferSize(b) == Before(b, Len(b) + 1)
InOrder(b) ==
  [p \in 1..BufferSize(b) |->
     CHOOSE a \in Places(b) : Before(b, a[1]) + a[2] = p]

TypeOK ==
  /\ kind \in [Ops -> Kinds \cup {Null}]
  /\ bufs \in [Ops -> Shapes]
  /\ target \in [Ops -> Ops \cup {Null}]
  /\ phase \in [Ops -> {"idle", "posted", "polling", "submitted", "completed",
                        "moving", "called"}]
  /\ res \in [Ops -> Nat \cup {-1}]
  /\ cur \in [Ops -> Nat \ {0}]
  /\ got \in [Ops -> Nat]
  /\ ec \in [Ops -> {"ok", "aborted", "error"}]
  /\ n \in [Ops -> Nat]
  /\ \A op \in Ops : \A p \in DOMAIN log[op] : log[op][p] \in Places(bufs[op])
  /\ last \in [Ops -> {"none", "bytes", "again", "end", "error"}]
  /\ avail \in 0..sent /\ sent \in 0..Supply /\ used \in 0..Room
  /\ inEnd \in {"open", "closed", "reset"} /\ broken \in BOOLEAN

Init ==
  /\ kind = [op \in Ops |-> Null]
  /\ bufs = [op \in Ops |-> <<>>]
  /\ target = [op \in Ops |-> Null]
  /\ phase = [op \in Ops |-> "idle"]
  /\ res = [op \in Ops |-> 0]
  /\ cur = [op \in Ops |-> 1]
  /\ got = [op \in Ops |-> 0]
  /\ ec = [op \in Ops |-> "ok"]
  /\ n = [op \in Ops |-> 0]
  /\ log = [op \in Ops |-> <<>>]
  /\ last = [op \in Ops |-> "none"]
  /\ avail = 0 /\ sent = 0 /\ inEnd = "open" /\ used = 0 /\ broken = FALSE

-----------------------------------------------------------------------------
(***************************************************************************)
(* Initiating functions.                                                   *)
(***************************************************************************)

Begin(op, k, b, t, p) ==
  /\ phase[op] = "idle"
  /\ kind' = [kind EXCEPT ![op] = k]
  /\ bufs' = [bufs EXCEPT ![op] = b]
  /\ target' = [target EXCEPT ![op] = t]
  /\ phase' = [phase EXCEPT ![op] = p]
  /\ UNCHANGED <<res, attempt, file>>

(* The functions of the service, one for each kind of request.             *)
InitiatePollAdd(op, k, b) == Begin(op, k, b, Null, "polling")
InitiateRwSomeAt(op, k, b) == Begin(op, k, b, Null, "submitted")
InitiateFsync(op) == Begin(op, "flush", <<>>, Null, "submitted")

(* initiate_poll_remove, with a completion of the object as user data.     *)
InitiatePollRemove(op) ==
  \E t \in Ops :
    /\ kind[t] \in Polls \cup Stream
    /\ Begin(op, "remove", <<>>, t, "submitted")

(* poll_file: a read or write waits with an invoker, or, where there are   *)
(* no bytes to move (async_impl), its handler is posted.                   *)
AsyncPollThen(op, k, b) == InitiatePollAdd(op, k, b)
Post(op, k, b) == Begin(op, k, b, Null, "posted")
AsyncSome(op) ==
  \E k \in Stream, b \in Shapes :
    IF BufferSize(b) # 0 THEN AsyncPollThen(op, k, b) ELSE Post(op, k, b)

AsyncPoll(op) == \E k \in Polls : InitiatePollAdd(op, k, <<>>)

(* async_file.                                                             *)
AsyncSomeAt(op) == \E k \in Vector, b \in Shapes : InitiateRwSomeAt(op, k, b)
AsyncFlush(op) == InitiateFsync(op)

-----------------------------------------------------------------------------
(***************************************************************************)
(* The kernel and the peer.                                                *)
(***************************************************************************)

Readable == avail > 0 \/ inEnd # "open"
Writable == used < Room \/ broken

(* POLLIN or POLLOUT, as the second argument of async_poll_then says.      *)
Ready(op) ==
  IF kind[op] \in {"read", "poll_in"} THEN Readable ELSE Writable

KernelCompletes(op, r) ==
  /\ phase' = [phase EXCEPT ![op] = "completed"]
  /\ res' = [res EXCEPT ![op] = r]

PollCompletes(op) ==
  /\ phase[op] = "polling"
  /\ \/ Ready(op) /\ KernelCompletes(op, 1)
     \/ KernelCompletes(op, -1)
  /\ UNCHANGED <<request, attempt, file>>

(* A poll that is removed completes with 0; it may be too late for that.   *)
RemoveCompletes(op) ==
  /\ phase[op] = "submitted" /\ kind[op] = "remove"
  /\ IF phase[target[op]] = "polling"
     THEN /\ phase' = [phase EXCEPT ![op] = "completed", ![target[op]] = "completed"]
          /\ res' = [res EXCEPT ![op] = 0, ![target[op]] = 0]
     ELSE KernelCompletes(op, -1)
  /\ UNCHANGED <<request, attempt, file>>

FlushCompletes(op) ==
  /\ phase[op] = "submitted" /\ kind[op] = "flush"
  /\ \E r \in {0, -1} : KernelCompletes(op, r)
  /\ UNCHANGED <<request, attempt, file>>

(* to_iovecs: the buffers in their order, each with its address and size.  *)
ToIovec(address, size) == [iov_base |-> address, iov_len |-> size]
ToIovecs(b) == [i \in DOMAIN b |-> ToIovec(i, b[i])]

(* The bytes that a list of iovecs describes.                              *)
Described(v) ==
  LET spans == [i \in DOMAIN v |-> [j \in 1..v[i].iov_len |-> <<v[i].iov_base, j>>]]
  IN  FlattenSeq(spans)

(* A vectored read or write moves some bytes, or fails.                    *)
VectorCompletes(op) ==
  /\ phase[op] = "submitted" /\ kind[op] \in Vector
  /\ LET d == Described(ToIovecs(bufs[op])) IN
     \E r \in -1..Len(d) :
       /\ KernelCompletes(op, r)
       /\ log' = [log EXCEPT ![op] = IF r > 0 THEN SubSeq(d, 1, r) ELSE <<>>]
  /\ UNCHANGED <<request, cur, got, ec, n, last, file>>

Peer ==
  /\ \/ /\ inEnd = "open" /\ sent < Supply
        /\ sent' = sent + 1 /\ avail' = avail + 1
        /\ UNCHANGED <<inEnd, used, broken>>
     \/ /\ inEnd = "open" /\ inEnd' \in {"closed", "reset"}
        /\ UNCHANGED <<avail, sent, used, broken>>
     \/ used > 0 /\ used' = used - 1 /\ UNCHANGED <<avail, sent, inEnd, broken>>
     \/ ~broken /\ broken' = TRUE /\ UNCHANGED <<avail, sent, inEnd, used>>
  /\ UNCHANGED <<request, phase, res, attempt>>

-----------------------------------------------------------------------------
(***************************************************************************)
(* Completion.                                                             *)
(***************************************************************************)

ToPollAddResult(r) ==
  IF r > 0 THEN "ok" ELSE IF r < 0 THEN "error" ELSE "aborted"
ToPollRemoveResult(r) == IF r >= 0 THEN "ok" ELSE "error"
ToFsyncResult(r) == ToPollRemoveResult(r)

(* Faulty: an error is a number of bytes too. *)
ToRwResultUnchecked(r) == <<"ok", r>>

ToRwResult(r) == IF r < 0 THEN <<"error", 0>> ELSE <<"ok", r>>

Call(op, e, bytes) ==
  /\ phase' = [phase EXCEPT ![op] = "called"]
  /\ ec' = [ec EXCEPT ![op] = e]
  /\ n' = [n EXCEPT ![op] = bytes]

Posted(op) ==
  /\ phase[op] = "posted"
  /\ Call(op, "ok", 0)
  /\ UNCHANGED <<request, res, cur, got, log, last, file>>

(* The function that the service calls with the cqe, where it goes to the  *)
(* caller's handler at once.                                               *)
Complete(op) ==
  /\ phase[op] = "completed"
  /\ \/ kind[op] \in Polls /\ Call(op, ToPollAddResult(res[op]), 0)
     \/ kind[op] = "remove" /\ Call(op, ToPollRemoveResult(res[op]), 0)
     \/ kind[op] = "flush" /\ Call(op, ToFsyncResult(res[op]), 0)
     \/ /\ kind[op] \in Vector
        /\ LET r == ToRwResult(res[op]) IN Call(op, r[1], r[2])
  /\ UNCHANGED <<request, res, cur, got, log, last, file>>

(* The invoker of poll_file_op: after an error nothing is attempted.       *)
Attempt(op) ==
  /\ phase[op] = "completed" /\ kind[op] \in Stream
  /\ LET e == ToPollAddResult(res[op]) IN
     IF e = "ok"
     THEN phase' = [phase EXCEPT ![op] = "moving"] /\ UNCHANGED <<ec, n>>
     ELSE Call(op, e, 0)
  /\ UNCHANGED <<request, res, cur, got, log, last, file>>

-----------------------------------------------------------------------------
(***************************************************************************)
(* The attempt.                                                            *)
(***************************************************************************)

Stopped(op) == last[op] \in {"again", "end", "error"}
InBuffer(op) ==
  /\ phase[op] = "moving"
  /\ got[op] < bufs[op][cur[op]] /\ ~Stopped(op)

(* What a system call came to: bytes moved, from ptr on ...                *)
Moves(op, bytes) ==
  /\ got' = [got EXCEPT ![op] = @ + bytes]
  /\ log' = [log EXCEPT ![op] = @ \o [j \in 1..bytes |-> <<cur[op], got[op] + j>>]]
  /\ last' = [last EXCEPT ![op] = "bytes"]
  /\ UNCHANGED ec

(* ... or none, with an error unless the call would have blocked.          *)
Stops(op, outcome) ==
  /\ last' = [last EXCEPT ![op] = outcome]
  /\ ec' = [ec EXCEPT ![op] = IF outcome = "error" THEN "error" ELSE "ok"]
  /\ UNCHANGED <<got, log>>

Left(op) == bufs[op][cur[op]] - got[op]

(* Faulty: takes no bytes for a reason to try again. *)
ReadCallGoesOn(op) ==
  /\ InBuffer(op) /\ kind[op] = "read"
  /\ \/ \E k \in 1..Left(op) : k <= avail /\ avail' = avail - k /\ Moves(op, k)
     \/ avail = 0 /\ inEnd = "open" /\ Stops(op, "again") /\ UNCHANGED avail
     \/ avail = 0 /\ inEnd = "reset" /\ Stops(op, "error") /\ UNCHANGED avail
  /\ UNCHANGED <<request, phase, res, cur, n, sent, inEnd, used, broken>>

(* One turn of the loop of asio_uring::read.                               *)
ReadCall(op) ==
  /\ InBuffer(op) /\ kind[op] = "read"
  /\ \/ \E k \in 1..Left(op) : k <= avail /\ avail' = avail - k /\ Moves(op, k)
     \/ avail = 0 /\ inEnd = "open" /\ Stops(op, "again") /\ UNCHANGED avail
     \/ avail = 0 /\ inEnd # "open" /\ Stops(op, "end") /\ UNCHANGED avail
     \/ avail = 0 /\ inEnd = "reset" /\ Stops(op, "error") /\ UNCHANGED avail
  /\ UNCHANGED <<request, phase, res, cur, n, sent, inEnd, used, broken>>

(* One turn of the loop of asio_uring::write.                              *)
WriteCall(op) ==
  /\ InBuffer(op) /\ kind[op] = "write"
  /\ \/ \E k \in 1..Left(op) :
          ~broken /\ used + k <= Room /\ used' = used + k /\ Moves(op, k)
     \/ ~broken /\ used = Room /\ Stops(op, "again") /\ UNCHANGED used
     \/ broken /\ Stops(op, "error") /\ UNCHANGED used
  /\ UNCHANGED <<request, phase, res, cur, n, avail, sent, inEnd, broken>>

(* The loop returns, or goes on to the next buffer.                        *)
Finish(op) ==
  /\ phase' = [phase EXCEPT ![op] = "called"]
  /\ cur' = [cur EXCEPT ![op] = 1]
  /\ got' = [got EXCEPT ![op] = 0]
  /\ UNCHANGED last
NextBuffer(op) ==
  IF cur[op] = Len(bufs[op])
  THEN Finish(op)
  ELSE /\ cur' = [cur EXCEPT ![op] = @ + 1]
       /\ got' = [got EXCEPT ![op] = 0]
       /\ last' = [last EXCEPT ![op] = "none"]
       /\ UNCHANGED phase

BufferDone(op) ==
  /\ phase[op] = "moving"
  /\ got[op] = bufs[op][cur[op]] \/ Stopped(op)

(* Faulty: goes on to the next buffer although this one is not full. *)
BufferEndsSkips(op) ==
  /\ BufferDone(op)
  /\ n' = [n EXCEPT ![op] = @ + got[op]]
  /\ IF ec[op] # "ok" THEN Finish(op) ELSE NextBuffer(op)
  /\ UNCHANGED <<request, res, ec, log, file>>

(* Faulty: looks at the error before it counts the bytes. *)
BufferEndsErrorFirst(op) ==
  /\ BufferDone(op)
  /\ n' = [n EXCEPT ![op] = IF ec[op] # "ok" THEN @ ELSE @ + got[op]]
  /\ IF ec[op] # "ok" \/ got[op] # bufs[op][cur[op]]
     THEN Finish(op) ELSE NextBuffer(op)
  /\ UNCHANGED <<request, res, ec, log, file>>

(* One turn of the loop of asio::read or asio::write over the sequence.    *)
BufferEnds(op) ==
  /\ BufferDone(op)
  /\ n' = [n EXCEPT ![op] = @ + got[op]]
  /\ IF ec[op] # "ok" \/ got[op] # bufs[op][cur[op]]
     THEN Finish(op) ELSE NextBuffer(op)
  /\ UNCHANGED <<request, res, ec, log, file>>

Run(op) == ReadCall(op) \/ WriteCall(op) \/ BufferEnds(op)

Next ==
  \/ \E op \in Ops :
       \/ AsyncSome(op) \/ AsyncPoll(op) \/ AsyncSomeAt(op) \/ AsyncFlush(op)
       \/ InitiatePollRemove(op)
       \/ PollCompletes(op) \/ RemoveCompletes(op) \/ FlushCompletes(op)
       \/ VectorCompletes(op)
       \/ Posted(op) \/ Complete(op) \/ Attempt(op) \/ Run(op)
  \/ Peer

(* The thread of an executor goes on with the handler it is in.            *)
Fairness == \A op \in Ops : WF_vars(Run(op))

Spec == Init /\ [][Next]_vars /\ Fairness

-----------------------------------------------------------------------------
(***************************************************************************)
(* Properties.                                                             *)
(***************************************************************************)

(* However the bytes come and go, and whoever else uses the file: a buffer *)
(* sequence is filled, or emptied, from its start, without a gap and       *)
(* without a byte twice.                                                   *)
BuffersInOrder == \A op \in Ops : IsPrefix(log[op], InOrder(bufs[op]))

(* The handler is told of every byte that was moved, those before an error *)
(* included; of an error exactly if there was one; and less than it asked  *)
(* for without an error only when the file had nothing to give or room for *)
(* nothing (core's read.hpp:15: "until either ... data could not be read   *)
(* without blocking; The buffer is full"), or the kernel decided so.       *)
ReportsTruthfully ==
  \A op \in Ops : phase[op] = "called" =>
    /\ kind[op] \in Stream \cup Vector => n[op] = Len(log[op])
    /\ kind[op] \in Stream /\ BufferSize(bufs[op]) # 0 =>
         /\ ec[op] # "ok" <=> res[op] <= 0 \/ last[op] = "error"
         /\ ec[op] = "ok" /\ n[op] < BufferSize(bufs[op]) => last[op] \in {"again", "end"}
    /\ kind[op] \in Vector => (ec[op] # "ok" <=> res[op] < 0)

(* The attempt does not keep its thread for ever: it ends with the call of *)
(* the handler, at the end of the file too.                                *)
AttemptEnds == \A op \in Ops : phase[op] = "moving" ~> phase[op] = "called"
=============================================================================
