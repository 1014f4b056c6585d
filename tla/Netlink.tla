------------------------------ MODULE Netlink ------------------------------
(***************************************************************************)
(* Request/answer exchanges over one netlink handle (netlink.c).           *)
(*                                                                         *)
(* The client is nl_exchange with nl_send, nl_recv and                     *)
(* nl_check_interrupted_dump, one action per step of their loops.  A       *)
(* handle serves several exchanges in a row (if_list dumps links and then  *)
(* addresses on one handle), so an answer to a request that timed out is   *)
(* still in the socket when the next request is sent.                      *)
(*                                                                         *)
(* The kernel and the other processes are external.  The kernel answers    *)
(* the requests it was sent, at any later time, with datagrams of data     *)
(* messages, DONE and ERROR; other senders put datagrams in the socket     *)
(* that may carry our port id and sequence number.  It serves one request  *)
(* of a socket at a time but may refuse a later one meanwhile (EBUSY).     *)
(* That an answer may never come is what the timeout in the code is for.   *)
(*                                                                         *)
(* Messages carry two ghost fields the code cannot see: rid, the request   *)
(* a message answers (0: none), and idx, its place in the answer.          *)
(***************************************************************************)
EXTENDS Integers, Sequences

CONSTANTS
    NL_RETRY_COUNT,     \* sends per exchange (16 in the code)
    SeqMod,             \* sequence numbers are unsigned: 2^32 in the code
    MaxSends,           \* bound: requests sent over the handle's life
    MaxParts,           \* bound: data messages in an answer to a dump
    MaxForeign,         \* bound: datagrams that answer no request of ours
    MaxQueue            \* bound: datagrams in the receive queue (SO_RCVBUF in the code)

ASSUME RetryAssumption == NL_RETRY_COUNT \in Nat \ {0}
ASSUME SeqAssumption == SeqMod \in Nat \ {0} /\ MaxSends \in Nat /\ MaxSends < SeqMod
ASSUME BoundAssumption == MaxParts \in Nat /\ MaxForeign \in Nat /\ MaxQueue \in Nat

Rids == 1..MaxSends
Codes == {"retry", "fatal"}     \* retry: ETIME, EAGAIN or EINTR
Results == {"none", "ok", "EINTR", "error"}

Message == [pid  : {"ours", "other"},
            seq  : 0..(SeqMod - 1),
            type : {"data", "done", "error"},
            code : Codes,
            intr : BOOLEAN,
            rid  : 0..MaxSends,
            idx  : Nat]

Datagram == [kernel : BOOLEAN, msgs : Seq(Message)]

VARIABLES
    \* the handle and the locals of nl_exchange and nl_recv
    pc,         \* "idle", "send", "recv", "parse" or "check"
    seq,        \* hnd->seq
    retry,
    isDump,
    dest,       \* the list *dest, NULL being <<>>
    buf,        \* messages of the datagram in hand not looked at yet
    result,     \* what the last nl_exchange returned
    \* outside the program
    rx,         \* datagrams in the socket's receive queue
    dumpReq,    \* the kind of each request the kernel holds: rid -> is it a dump
    parts,      \* data messages the kernel produced for each request
    closed,     \* requests the kernel has answered completely
    foreign,    \* datagrams other senders delivered
    \* ghost
    sends       \* requests sent; the last request's rid

client == <<pc, seq, retry, isDump, dest, buf, result, sends>>
kernel == <<dumpReq, parts, closed, foreign>>
vars == <<pc, seq, retry, isDump, dest, buf, result, rx, dumpReq, parts, closed, foreign, sends>>

Init ==
    /\ pc = "idle"
    /\ seq = 0
    /\ retry = 0
    /\ isDump = FALSE
    /\ dest = <<>>
    /\ buf = <<>>
    /\ result = "none"
    /\ rx = <<>>
    /\ dumpReq = [r \in Rids |-> FALSE]
    /\ parts = [r \in Rids |-> 0]
    /\ closed = Rids            \* nothing asked, nothing to answer
    /\ foreign = 0
    /\ sends = 0

-----------------------------------------------------------------------------
(* nl_exchange and nl_send *)

StartExchange(d) ==
    /\ pc = "idle"
    /\ sends + NL_RETRY_COUNT <= MaxSends
    /\ pc' = "send"
    /\ retry' = NL_RETRY_COUNT
    /\ isDump' = d
    /\ dest' = <<>>
    /\ result' = "none"
    /\ UNCHANGED <<seq, buf, rx, kernel, sends>>

GiveUp ==
    /\ pc = "send"
    /\ retry = 0
    /\ pc' = "idle"
    /\ result' = "EINTR"
    /\ UNCHANGED <<seq, retry, isDump, dest, buf, rx, kernel, sends>>

\* Mutant: a retry reuses the number of the request it repeats.
NextSeqMutant == IF retry < NL_RETRY_COUNT THEN seq ELSE (seq + 1) % SeqMod
NextSeq == (seq + 1) % SeqMod

\* Mutant: the retries are never exhausted.
TakeSeqMutant ==
    /\ pc = "send"
    /\ retry' = retry - 1
    /\ seq' = NextSeq
    /\ sends' = sends + 1

\* The number is taken whether or not sendmsg succeeds.
TakeSeq ==
    /\ pc = "send"
    /\ retry > 0
    /\ retry' = retry - 1
    /\ seq' = NextSeq
    /\ sends' = sends + 1

SendRequest ==
    /\ TakeSeq
    /\ pc' = "recv"
    /\ dest' = <<>>
    /\ dumpReq' = [dumpReq EXCEPT ![sends + 1] = isDump]
    /\ closed' = closed \ {sends + 1}
    /\ UNCHANGED <<isDump, buf, result, rx, parts, foreign>>

SendFails ==
    /\ TakeSeq
    /\ pc' = "idle"
    /\ result' = "error"
    /\ UNCHANGED <<isDump, dest, buf, rx, kernel>>

-----------------------------------------------------------------------------
(* nl_recv *)

\* Mutant: waits on the socket again instead of giving the attempt up.
FailMutant(code) ==
    /\ UNCHANGED <<dest, buf>>
    /\ IF code = "retry"
          THEN UNCHANGED <<pc, result>>
          ELSE pc' = "idle" /\ result' = "error"
    /\ UNCHANGED <<seq, retry, isDump, kernel, sends>>

\* err_out, and what nl_exchange does with the error.
Fail(code) ==
    /\ dest' = <<>>
    /\ buf' = <<>>
    /\ IF code = "retry"
          THEN pc' = "send" /\ UNCHANGED result
          ELSE pc' = "idle" /\ result' = "error"
    /\ UNCHANGED <<seq, retry, isDump, kernel, sends>>

Timeout ==
    /\ pc = "recv"
    /\ rx = <<>>
    /\ Fail("retry")
    /\ UNCHANGED rx

\* poll or recvmsg fails, or an orderly shutdown (EPIPE)
RecvFails(code) ==
    /\ pc = "recv"
    /\ Fail(code)
    /\ UNCHANGED rx

FromKernel(d) == d.kernel

Receive ==
    /\ pc = "recv"
    /\ rx # <<>>
    /\ rx' = Tail(rx)
    /\ IF FromKernel(Head(rx))
          THEN pc' = "parse" /\ buf' = Head(rx).msgs
          ELSE UNCHANGED <<pc, buf>>
    /\ UNCHANGED <<seq, retry, isDump, dest, result, kernel, sends>>

NextDatagram ==
    /\ pc = "parse"
    /\ buf = <<>>
    /\ pc' = "recv"
    /\ UNCHANGED <<seq, retry, isDump, dest, buf, result, rx, kernel, sends>>

\* Mutant: the sequence number is not compared.
OursMutant(m) == m.pid = "ours"
Ours(m) == m.pid = "ours" /\ m.seq = seq

SkipMessage ==
    /\ pc = "parse"
    /\ buf # <<>>
    /\ ~Ours(Head(buf))
    /\ buf' = Tail(buf)
    /\ UNCHANGED <<pc, seq, retry, isDump, dest, result, rx, kernel, sends>>

Accepts ==
    /\ pc = "parse"
    /\ buf # <<>>
    /\ Ours(Head(buf))

EndsDump(m) == isDump /\ m.type = "done"

DumpDone ==
    /\ Accepts
    /\ EndsDump(Head(buf))
    /\ pc' = "check"
    /\ buf' = <<>>
    /\ UNCHANGED <<seq, retry, isDump, dest, result, rx, kernel, sends>>

ErrorMessage ==
    /\ Accepts
    /\ Head(buf).type = "error"
    /\ Fail(Head(buf).code)
    /\ UNCHANGED rx

Stores(m) == ~EndsDump(m) /\ m.type # "error"

\* A single answer ends the loop, a dump goes on until DONE.
StoreMessage ==
    /\ Accepts
    /\ Stores(Head(buf))
    /\ dest' = Append(dest, Head(buf))
    /\ IF isDump THEN pc' = "parse" /\ buf' = Tail(buf)
                 ELSE pc' = "check" /\ buf' = <<>>
    /\ UNCHANGED <<seq, retry, isDump, result, rx, kernel, sends>>

OutOfMemory ==
    /\ Accepts
    /\ Stores(Head(buf))
    /\ Fail("fatal")
    /\ UNCHANGED rx

-----------------------------------------------------------------------------
(* nl_check_interrupted_dump and the end of nl_exchange *)

\* Mutant: only the first message of the list is looked at.
InterruptedMutant == isDump /\ dest # <<>> /\ dest[1].intr

\* Looks at the stored messages only: DONE is not among them.
Interrupted == isDump /\ \E i \in 1..Len(dest) : dest[i].intr

CheckInterrupted ==
    /\ pc = "check"
    /\ Interrupted
    /\ pc' = "send"
    /\ dest' = <<>>
    /\ UNCHANGED <<seq, retry, isDump, buf, result, rx, kernel, sends>>

Return ==
    /\ pc = "check"
    /\ ~Interrupted
    /\ pc' = "idle"
    /\ result' = "ok"
    /\ UNCHANGED <<seq, retry, isDump, dest, buf, rx, kernel, sends>>

-----------------------------------------------------------------------------
(* The kernel and the other senders (external) *)

Answer(r, type, code, intr, idx) ==
    [pid |-> "ours", seq |-> r % SeqMod, type |-> type, code |-> code,
     intr |-> intr, rid |-> r, idx |-> idx]

Deliver(msgs, fromKernel) ==
    /\ Len(rx) < MaxQueue
    /\ rx' = Append(rx, [kernel |-> fromKernel, msgs |-> msgs])

\* Requests are served in the order they were sent.
Serves(r) == r \notin closed /\ \A q \in Rids : q < r => q \in closed

\* One more part of a dump, in a datagram of its own or, for the last one,
\* together with DONE.  The kernel flags the parts after a change of the
\* dumped table, DONE included.
KernelPart(r, intr, last) ==
    /\ Serves(r)
    /\ dumpReq[r]
    /\ parts[r] < MaxParts
    /\ parts' = [parts EXCEPT ![r] = @ + 1]
    /\ closed' = IF last THEN closed \union {r} ELSE closed
    /\ LET part == Answer(r, "data", "fatal", intr, parts[r] + 1)
       IN  Deliver(IF last THEN <<part, Answer(r, "done", "fatal", intr, 0)>>
                           ELSE <<part>>, TRUE)
    /\ UNCHANGED <<client, dumpReq, foreign>>

KernelDone(r, intr) ==
    /\ Serves(r)
    /\ dumpReq[r]
    /\ closed' = closed \union {r}
    /\ Deliver(<<Answer(r, "done", "fatal", intr, 0)>>, TRUE)
    /\ UNCHANGED <<client, dumpReq, parts, foreign>>

KernelSingle(r) ==
    /\ Serves(r)
    /\ ~dumpReq[r]
    /\ parts' = [parts EXCEPT ![r] = 1]
    /\ closed' = closed \union {r}
    /\ Deliver(<<Answer(r, "data", "fatal", FALSE, 1)>>, TRUE)
    /\ UNCHANGED <<client, dumpReq, foreign>>

KernelError(r, code) ==
    /\ r \notin closed
    /\ closed' = closed \union {r}
    /\ Deliver(<<Answer(r, "error", code, FALSE, 0)>>, TRUE)
    /\ UNCHANGED <<client, dumpReq, parts, foreign>>

\* A process that writes to our port may copy port id and number; the kernel
\* itself sends messages for other ports or none.
Foreign(fromKernel, type) ==
    /\ foreign < MaxForeign
    /\ foreign' = foreign + 1
    /\ Deliver(<<[pid |-> IF fromKernel THEN "other" ELSE "ours", seq |-> seq,
                  type |-> type, code |-> "fatal", intr |-> FALSE, rid |-> 0, idx |-> 0]>>,
               fromKernel)
    /\ UNCHANGED <<client, dumpReq, parts, closed>>

-----------------------------------------------------------------------------
ClientStep ==
    \/ GiveUp \/ SendRequest \/ SendFails
    \/ Timeout \/ (\E c \in Codes : RecvFails(c)) \/ Receive
    \/ NextDatagram \/ SkipMessage \/ DumpDone \/ ErrorMessage
    \/ StoreMessage \/ OutOfMemory \/ CheckInterrupted \/ Return

Outside ==
    \/ \E r \in Rids, intr \in BOOLEAN, last \in BOOLEAN : KernelPart(r, intr, last)
    \/ \E r \in Rids, intr \in BOOLEAN : KernelDone(r, intr)
    \/ \E r \in Rids : KernelSingle(r)
    \/ \E r \in Rids, c \in Codes : KernelError(r, c)
    \/ \E k \in BOOLEAN, t \in {"data", "done", "error"} : Foreign(k, t)

Next ==
    \/ \E d \in BOOLEAN : StartExchange(d)
    \/ ClientStep
    \/ Outside

\* The program's one thread keeps running, and poll returns within
\* NL_TIMEOUT_MS; nothing is assumed of the kernel.
Fairness == WF_vars(ClientStep)

Spec == Init /\ [][Next]_vars /\ Fairness

-----------------------------------------------------------------------------
TypeOK ==
    /\ pc \in {"idle", "send", "recv", "parse", "check"}
    /\ seq \in 0..(SeqMod - 1)
    /\ retry \in 0..NL_RETRY_COUNT
    /\ isDump \in BOOLEAN
    /\ dest \in Seq(Message)
    /\ buf \in Seq(Message)
    /\ result \in Results
    /\ rx \in Seq(Datagram)
    /\ dumpReq \in [Rids -> BOOLEAN]
    /\ parts \in [Rids -> Nat]
    /\ closed \in SUBSET Rids
    /\ foreign \in Nat
    /\ sends \in 0..MaxSends

\* Every message nl_recv stored answers the last request sent: no message of a
\* timed-out attempt, of an earlier exchange on the handle, or of another
\* sender ends up in the list the caller gets (netlink.c:304-310).
NoMixing == \A i \in 1..Len(dest) : dest[i].rid = sends

\* When nl_exchange returns 0 for a dump, the caller holds the kernel's whole
\* answer to one request, in order, and no stored message is marked as
\* interrupted; for a single request it holds exactly the one answer
\* (netlink.c:371-383).
AnswerComplete ==
    result = "ok" =>
        /\ sends \in closed
        /\ Len(dest) = parts[sends]
        /\ \A i \in 1..Len(dest) : dest[i].rid = sends /\ dest[i].idx = i
        /\ isDump => \A i \in 1..Len(dest) : ~dest[i].intr

\* The receive loop is left through a message only if that message answers the
\* last request: a late DONE or ERROR of an earlier attempt neither completes
\* nor fails the current one (netlink.c:308-336).
EndsOnOwnAnswer ==
    [][(pc = "parse" /\ pc' # "parse" /\ buf # <<>>) => Head(buf).rid = sends]_vars

\* Every exchange returns: retries are bounded and a silent kernel is given up
\* on (netlink.c:365-373).
ExchangeReturns == (pc # "idle") ~> (pc = "idle")
=============================================================================
