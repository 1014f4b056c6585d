--------------------------- MODULE NetlinkProofs ---------------------------
(***************************************************************************)
(* Type correctness, NoMixing, EndsOnOwnAnswer and AnswerComplete for      *)
(* every retry count, every number of requests below the wrap-around of    *)
(* the sequence number, and every behaviour of the kernel and of other     *)
(* senders.                                                                *)
(*                                                                         *)
(* NoMixing is not inductive: that the message in hand answers the last    *)
(* request must follow from its port id and number, for every message the  *)
(* socket may still hold.  IInv says so (Genuine) and bounds the requests  *)
(* an exchange can still send, so that no number is ever used twice.       *)
(* AnswerComplete needs more (Exchange): what the client stored and the    *)
(* parts still in its hand and in the socket make up, in order, what the   *)
(* kernel produced for the last request, and the end comes after them.     *)
(***************************************************************************)
EXTENDS Netlink, TLAPS

\* A message with our port id was sent by the kernel for a request we made,
\* and the others answer none.
Genuine(m) ==
    /\ m.pid = "ours" => m.rid \in 1..sends /\ m.seq = m.rid
    /\ m.pid # "ours" => m.rid = 0

QueueGenuine ==
    \A i \in 1..Len(rx) : rx[i].kernel =>
        \A j \in 1..Len(rx[i].msgs) : Genuine(rx[i].msgs[j])

BufGenuine == \A j \in 1..Len(buf) : Genuine(buf[j])

SendBudget == sends + (IF pc = "idle" THEN 0 ELSE retry) <= MaxSends

KernelHoldsSent == \A r \in Rids : r \notin closed => r <= sends

IInv ==
    /\ TypeOK
    /\ SendBudget
    /\ seq = sends
    /\ KernelHoldsSent
    /\ QueueGenuine
    /\ BufGenuine
    /\ NoMixing
    /\ pc = "send" => dest = <<>>

USE RetryAssumption, SeqAssumption, BoundAssumption

\* No sequence number is reduced modulo 2^32 within the bound.
LEMMA SmallMod ==
    ASSUME NEW n \in Nat, n <= MaxSends PROVE n % SeqMod = n
  OBVIOUS

\* The initial state satisfies the invariant.
LEMMA InitIInv == Init => IInv
<1>. SUFFICES ASSUME Init PROVE IInv
  OBVIOUS
<1>1. TypeOK
  <2>1. dumpReq \in [Rids -> BOOLEAN]
    BY DEF Init
  <2>2. parts \in [Rids -> Nat]
    BY DEF Init
  <2>3. dest \in Seq(Message) /\ buf \in Seq(Message) /\ rx \in Seq(Datagram)
    BY DEF Init
  <2>4. seq \in 0..(SeqMod - 1) /\ retry \in 0..NL_RETRY_COUNT /\ sends \in 0..MaxSends
    BY DEF Init
  <2>5. isDump \in BOOLEAN /\ result \in Results
    BY DEF Init, Results
  <2>6. pc \in {"idle", "send", "recv", "parse", "check"} /\ foreign \in Nat /\ closed \in SUBSET Rids
    BY DEF Init
  <2>. QED
    BY <2>1, <2>2, <2>3, <2>4, <2>5, <2>6 DEF TypeOK
<1>2. SendBudget /\ seq = sends /\ KernelHoldsSent
  BY DEF Init, SendBudget, KernelHoldsSent
<1>3. QueueGenuine /\ BufGenuine /\ NoMixing
  BY DEF Init, QueueGenuine, BufGenuine, NoMixing
<1>. QED
  BY <1>1, <1>2, <1>3 DEF IInv, Init

\* A step that ends an attempt or an exchange and at most drops what it holds
\* keeps the invariant.
LEMMA EndIInv ==
    ASSUME IInv, UNCHANGED <<seq, retry, isDump, rx, kernel, sends>>,
           pc # "idle", pc' \in {"idle", "send"}, pc' = "send" => dest' = <<>>,
           dest' \in {dest, <<>>}, buf' \in {buf, <<>>}, result' \in Results
    PROVE  IInv'
<1>1. TypeOK'
  <2>0. <<>> \in Seq(Message)
    OBVIOUS
  <2>1. dest \in Seq(Message) /\ buf \in Seq(Message)
    BY DEF IInv, TypeOK
  <2>2. dest' \in Seq(Message) /\ buf' \in Seq(Message)
    BY <2>0, <2>1, Zenon
  <2>. QED
    BY <2>2 DEF IInv, TypeOK, kernel
<1>2. SendBudget'
  <2>1. sends + retry <= MaxSends
    BY DEF IInv, SendBudget
  <2>2. sends \in Nat /\ retry \in Nat
    BY DEF IInv, TypeOK
  <2>3. sends' = sends /\ retry' = retry
    OBVIOUS
  <2>. QED
    BY <2>1, <2>2, <2>3 DEF SendBudget
<1>3. KernelHoldsSent'
  BY DEF IInv, KernelHoldsSent, kernel
<1>4. \A m : Genuine(m) => Genuine(m)'
  BY DEF Genuine
<1>5. QueueGenuine'
  BY <1>4 DEF IInv, QueueGenuine
<1>6. BufGenuine'
  BY <1>4 DEF IInv, BufGenuine
<1>7. NoMixing'
  BY DEF IInv, NoMixing
<1>. QED
  BY <1>1, <1>2, <1>3, <1>5, <1>6, <1>7 DEF IInv

\* Leaving nl_recv through err_out keeps the invariant.
LEMMA FailIInv ==
    ASSUME IInv, NEW c \in Codes, Fail(c), UNCHANGED rx, pc \in {"recv", "parse"}
    PROVE  IInv'
<1>1. UNCHANGED <<seq, retry, isDump, rx, kernel, sends>>
  BY DEF Fail
<1>2. dest' = <<>> /\ buf' = <<>> /\ pc' \in {"idle", "send"}
  BY DEF Fail
<1>3. result' \in Results
  BY DEF Fail, IInv, TypeOK, Results
<1>. QED
  BY <1>1, <1>2, <1>3, EndIInv

\* A step of nl_exchange or nl_send keeps the invariant.
LEMMA ExchangeIInv ==
    ASSUME IInv,
           (\E d \in BOOLEAN : StartExchange(d)) \/ GiveUp \/ SendRequest \/ SendFails
              \/ CheckInterrupted \/ Return
    PROVE  IInv'
<1>. USE DEF IInv, TypeOK, kernel
<1>1. CASE \E d \in BOOLEAN : StartExchange(d)
  <2>. PICK d \in BOOLEAN : StartExchange(d)
    BY <1>1
  <2>. USE DEF StartExchange
  <2>1. TypeOK'
    <3>1. isDump' \in BOOLEAN
      OBVIOUS
    <3>2. retry' \in 0..NL_RETRY_COUNT /\ dest' \in Seq(Message) /\ result' \in Results
      BY DEF Results
    <3>. QED
      BY <3>1, <3>2
  <2>2. (SendBudget /\ seq = sends /\ KernelHoldsSent /\ QueueGenuine /\ BufGenuine /\ NoMixing)'
    <3>1. (SendBudget /\ seq = sends /\ KernelHoldsSent)'
      BY DEF SendBudget, KernelHoldsSent
    <3>2. (QueueGenuine /\ BufGenuine)'
      BY DEF QueueGenuine, BufGenuine, Genuine
    <3>3. NoMixing'
      BY DEF NoMixing
    <3>. QED
      BY <3>1, <3>2, <3>3
  <2>. QED
    BY <2>1, <2>2
<1>2. CASE GiveUp \/ CheckInterrupted \/ Return
  <2>1. /\ UNCHANGED <<seq, retry, isDump, rx, kernel, sends>> /\ pc # "idle"
        /\ pc' \in {"idle", "send"} /\ (pc' = "send" => dest' = <<>>)
        /\ dest' \in {dest, <<>>} /\ buf' \in {buf, <<>>}
    BY <1>2 DEF GiveUp, CheckInterrupted, Return
  <2>2. result' \in Results
    BY <1>2 DEF GiveUp, CheckInterrupted, Return, Results
  <2>. HIDE DEF IInv, TypeOK, kernel
  <2>. QED
    BY <2>1, <2>2, EndIInv
<1>3. ASSUME TakeSeq, UNCHANGED <<isDump, buf, rx, parts, foreign>>
      PROVE  /\ sends' \in 1..MaxSends /\ sends' = sends + 1
             /\ retry' \in 0..NL_RETRY_COUNT /\ sends' + retry' <= MaxSends
             /\ seq' = sends' /\ seq' \in 0..(SeqMod - 1)
             /\ QueueGenuine' /\ BufGenuine'
  <2>1. sends' \in 1..MaxSends /\ sends' = sends + 1
        /\ retry' \in 0..NL_RETRY_COUNT /\ sends' + retry' <= MaxSends
    BY <1>3 DEF TakeSeq, SendBudget
  <2>2. seq' = sends' /\ seq' \in 0..(SeqMod - 1)
    BY <1>3, <2>1, SmallMod DEF TakeSeq, NextSeq
  <2>3. \A m : Genuine(m) => Genuine(m)'
    BY <2>1 DEF Genuine
  <2>. QED
    BY <1>3, <2>1, <2>2, <2>3 DEF QueueGenuine, BufGenuine
<1>4. /\ dumpReq \in [Rids -> BOOLEAN] /\ closed \in SUBSET Rids /\ KernelHoldsSent
      /\ isDump \in BOOLEAN /\ buf \in Seq(Message) /\ result \in Results /\ rx \in Seq(Datagram)
      /\ parts \in [Rids -> Nat] /\ foreign \in Nat /\ sends \in 0..MaxSends
      /\ pc = "send" => dest = <<>>
  OBVIOUS
<1>5. CASE SendRequest \/ SendFails
  <2>. HIDE DEF IInv, TypeOK
  <2>1. TakeSeq /\ UNCHANGED <<isDump, buf, rx, parts, foreign>> /\ pc = "send"
    BY <1>5 DEF SendRequest, SendFails, TakeSeq
  <2>2. /\ sends' \in 1..MaxSends /\ sends' = sends + 1
        /\ retry' \in 0..NL_RETRY_COUNT /\ sends' + retry' <= MaxSends
        /\ seq' = sends' /\ seq' \in 0..(SeqMod - 1)
        /\ QueueGenuine' /\ BufGenuine'
    BY <1>3, <2>1, Zenon
  <2>3. dest' = <<>> /\ pc' \in {"recv", "idle"} /\ result' \in Results
    BY <1>4, <1>5, <2>1 DEF SendRequest, SendFails, Results
  <2>4. dumpReq' \in [Rids -> BOOLEAN] /\ closed' \in SUBSET Rids
    BY <1>4, <1>5 DEF SendRequest, SendFails
  <2>5. SendBudget'
    <3>1. sends' \in Nat /\ retry' \in Nat /\ MaxSends \in Nat
      BY <2>2
    <3>. QED
      BY <2>2, <3>1 DEF SendBudget
  <2>6. KernelHoldsSent'
    <3>1. \A r \in Rids : r \notin closed' => r \notin closed \/ r = sends + 1
      BY <1>5 DEF SendRequest, SendFails
    <3>2. \A r \in Rids : r <= sends \/ r = sends + 1 => r <= sends'
      BY <1>4, <2>2 DEF Rids
    <3>. QED
      BY <1>4, <3>1, <3>2 DEF KernelHoldsSent
  <2>7. NoMixing'
    BY <2>3 DEF NoMixing
  <2>8. dest' \in Seq(Message) /\ sends' \in 0..MaxSends /\ (pc' = "send" => dest' = <<>>)
    BY <2>2, <2>3
  <2>9. TypeOK'
    BY <1>4, <2>1, <2>2, <2>3, <2>4, <2>8 DEF TypeOK
  <2>. QED
    BY <2>2, <2>5, <2>6, <2>7, <2>8, <2>9 DEF IInv
<1>. QED
  BY <1>1, <1>2, <1>5

\* A message that passes the checks of nl_recv answers the last request.
LEMMA OursIsLast ==
    ASSUME IInv, Accepts PROVE Head(buf) \in Message /\ Head(buf).rid = sends
  BY DEF IInv, TypeOK, BufGenuine, Genuine, Accepts, Ours

\* A step of nl_recv keeps the invariant.
LEMMA RecvIInv ==
    ASSUME IInv,
           Timeout \/ (\E c \in Codes : RecvFails(c)) \/ Receive \/ NextDatagram
              \/ SkipMessage \/ DumpDone \/ ErrorMessage \/ StoreMessage \/ OutOfMemory
    PROVE  IInv'
<1>1. CASE Timeout
  BY <1>1, FailIInv DEF Timeout, Codes
<1>2. CASE \E c \in Codes : RecvFails(c)
  BY <1>2, FailIInv DEF RecvFails
<1>3. CASE ErrorMessage
  <2>1. Head(buf).code \in Codes
    BY <1>3, OursIsLast DEF ErrorMessage, Message
  <2>. QED
    BY <1>3, <2>1, FailIInv DEF ErrorMessage, Accepts
<1>4. CASE OutOfMemory
  BY <1>4, FailIInv DEF OutOfMemory, Accepts, Codes
<1>. USE DEF IInv, TypeOK, kernel
<1>5. CASE Receive
  <2>1. Head(rx) = rx[1] /\ rx[1] \in Datagram /\ rx' \in Seq(Datagram) /\ 1 \in 1..Len(rx)
    BY <1>5 DEF Receive
  <2>2. \A i \in 1..Len(rx') : rx'[i] = rx[i + 1] /\ i + 1 \in 1..Len(rx)
    BY <1>5 DEF Receive
  <2>3. \A m : Genuine(m)' <=> Genuine(m)
    BY <1>5 DEF Receive, Genuine
  <2>4. QueueGenuine'
    BY <2>2, <2>3 DEF QueueGenuine
  <2>5. CASE FromKernel(Head(rx))
    <3>1. buf' = rx[1].msgs /\ pc' = "parse" /\ rx[1].kernel
      BY <1>5, <2>1, <2>5 DEF Receive, FromKernel
    <3>2. buf' \in Seq(Message) /\ BufGenuine'
      BY <2>1, <2>3, <3>1 DEF Datagram, QueueGenuine, BufGenuine
    <3>. QED
      BY <1>5, <2>1, <2>4, <3>1, <3>2 DEF Receive, SendBudget, KernelHoldsSent, NoMixing
  <2>6. CASE ~FromKernel(Head(rx))
    <3>1. UNCHANGED <<buf, pc>>
      BY <1>5, <2>6 DEF Receive
    <3>2. BufGenuine'
      BY <2>3, <3>1 DEF BufGenuine
    <3>. QED
      BY <1>5, <2>1, <2>4, <3>1, <3>2 DEF Receive, SendBudget, KernelHoldsSent, NoMixing
  <2>. QED
    BY <2>5, <2>6
<1>6. ASSUME UNCHANGED <<seq, retry, isDump, rx, kernel, sends>>, result' \in Results,
             pc \in {"parse", "check"}, pc' \in {"recv", "parse", "check"},
             \/ buf' = <<>>
             \/ UNCHANGED buf
             \/ buf # <<>> /\ buf' = Tail(buf),
             \/ UNCHANGED dest
             \/ Accepts /\ dest' = Append(dest, Head(buf))
      PROVE  IInv'
  <2>1. \A m : Genuine(m)' <=> Genuine(m)
    BY <1>6 DEF Genuine
  <2>2. QueueGenuine'
    BY <1>6, <2>1 DEF QueueGenuine
  <2>3. buf' \in Seq(Message) /\ BufGenuine'
    <3>1. CASE buf' = <<>>
      BY <3>1 DEF BufGenuine
    <3>2. CASE UNCHANGED buf
      BY <2>1, <3>2 DEF BufGenuine
    <3>3. CASE buf # <<>> /\ buf' = Tail(buf)
      BY <2>1, <3>3 DEF BufGenuine
    <3>. QED
      BY <1>6, <3>1, <3>2, <3>3
  <2>4. dest' \in Seq(Message) /\ NoMixing'
    <3>1. CASE UNCHANGED dest
      BY <1>6, <3>1 DEF NoMixing
    <3>2. CASE Accepts /\ dest' = Append(dest, Head(buf))
      BY <1>6, <3>2, OursIsLast DEF NoMixing
    <3>. QED
      BY <1>6, <3>1, <3>2
  <2>5. SendBudget' /\ KernelHoldsSent'
    BY <1>6 DEF SendBudget, KernelHoldsSent
  <2>. QED
    BY <1>6, <2>2, <2>3, <2>4, <2>5
<1>7. CASE NextDatagram
  BY <1>6, <1>7 DEF NextDatagram
<1>8. CASE SkipMessage
  BY <1>6, <1>8 DEF SkipMessage
<1>9. CASE DumpDone
  BY <1>6, <1>9 DEF DumpDone, Accepts
<1>10. CASE StoreMessage
  BY <1>6, <1>10 DEF StoreMessage, Accepts
<1>. QED
  BY <1>1, <1>2, <1>3, <1>4, <1>5, <1>6, <1>7, <1>8, <1>9, <1>10

\* What the kernel puts in an answer to a request it holds is genuine.
LEMMA AnswerGenuine ==
    ASSUME IInv, NEW r \in Rids, r \notin closed, NEW t \in {"data", "done", "error"},
           NEW c \in Codes, NEW b \in BOOLEAN, NEW i \in Nat
    PROVE  Answer(r, t, c, b, i) \in Message /\ Genuine(Answer(r, t, c, b, i))
<1>1. r \in Nat /\ r <= sends /\ r <= MaxSends /\ r >= 1 /\ r % SeqMod = r
  BY SmallMod DEF IInv, KernelHoldsSent, Rids
<1>2. r \in 0..(SeqMod - 1) /\ r \in 0..MaxSends
  BY <1>1
<1>3. Answer(r, t, c, b, i) \in Message
  BY <1>1, <1>2 DEF Answer, Message
<1>4. Genuine(Answer(r, t, c, b, i))
  BY <1>1 DEF Answer, Genuine, IInv, TypeOK
<1>. QED
  BY <1>3, <1>4

\* Delivering messages that are genuine, or not from the kernel, keeps the
\* invariant, whatever happens to the kernel's own bookkeeping.
LEMMA DeliverIInv ==
    ASSUME IInv, NEW msgs \in Seq(Message), NEW k \in BOOLEAN, Deliver(msgs, k),
           k => \A j \in 1..Len(msgs) : Genuine(msgs[j]),
           UNCHANGED <<client, dumpReq>>, parts' \in [Rids -> Nat], foreign' \in Nat,
           closed' \in SUBSET Rids, closed \subseteq closed'
    PROVE  IInv'
<1>. USE DEF IInv, TypeOK, client
<1>. DEFINE d == [kernel |-> k, msgs |-> msgs]
<1>1. d \in Datagram
  BY DEF Datagram
<1>2. rx' \in Seq(Datagram) /\ Len(rx') = Len(rx) + 1 /\ rx'[Len(rx) + 1] = d
      /\ \A i \in 1..Len(rx) : rx'[i] = rx[i]
  BY <1>1 DEF Deliver
<1>3. \A m : Genuine(m)' <=> Genuine(m)
  BY DEF Genuine
<1>4. QueueGenuine'
  <2>. SUFFICES ASSUME NEW i \in 1..Len(rx'), rx'[i].kernel, NEW j \in 1..Len(rx'[i].msgs)
                PROVE  Genuine(rx'[i].msgs[j])
    BY <1>3 DEF QueueGenuine
  <2>1. CASE i = Len(rx) + 1
    BY <1>2, <2>1
  <2>2. CASE i \in 1..Len(rx)
    BY <1>2, <2>2 DEF QueueGenuine
  <2>. QED
    BY <1>2, <2>1, <2>2
<1>5. BufGenuine' /\ NoMixing'
  BY <1>3 DEF BufGenuine, NoMixing
<1>6. SendBudget' /\ KernelHoldsSent'
  BY DEF SendBudget, KernelHoldsSent
<1>. QED
  BY <1>2, <1>4, <1>5, <1>6

\* A step of the kernel or of another sender keeps the invariant.
LEMMA OutsideIInv == ASSUME IInv, Outside PROVE IInv'
<1>0. parts \in [Rids -> Nat] /\ closed \in SUBSET Rids /\ foreign \in Nat /\ "fatal" \in Codes
  BY DEF IInv, TypeOK, Codes
<1>1. ASSUME NEW r \in Rids, NEW b \in BOOLEAN, NEW last \in BOOLEAN, KernelPart(r, b, last)
      PROVE  IInv'
  <2>. DEFINE part == Answer(r, "data", "fatal", b, parts[r] + 1)
              done == Answer(r, "done", "fatal", b, 0)
              msgs == IF last THEN <<part, done>> ELSE <<part>>
  <2>1. r \notin closed /\ parts[r] + 1 \in Nat
    BY <1>0, <1>1 DEF KernelPart, Serves
  <2>2. part \in Message /\ Genuine(part) /\ done \in Message /\ Genuine(done)
    BY <1>0, <2>1, AnswerGenuine
  <2>. HIDE DEF part, done
  <2>3. msgs \in Seq(Message) /\ \A j \in 1..Len(msgs) : Genuine(msgs[j])
    <3>1. CASE last
      BY <2>2, <3>1
    <3>2. CASE ~last
      BY <2>2, <3>2
    <3>. QED
      BY <3>1, <3>2
  <2>4. Deliver(msgs, TRUE)
    BY <1>1 DEF KernelPart, part, done
  <2>5. parts' \in [Rids -> Nat]
    BY <1>0, <1>1, <2>1 DEF KernelPart
  <2>6. closed' \in SUBSET Rids /\ closed \subseteq closed'
    BY <1>0, <1>1 DEF KernelPart
  <2>. HIDE DEF msgs
  <2>. QED
    BY <1>0, <1>1, <2>3, <2>4, <2>5, <2>6, DeliverIInv DEF KernelPart
<1>2. ASSUME NEW r \in Rids, NEW t \in {"data", "done", "error"}, NEW c \in Codes,
             NEW b \in BOOLEAN, NEW i \in Nat, r \notin closed,
             Deliver(<<Answer(r, t, c, b, i)>>, TRUE),
             UNCHANGED <<client, dumpReq, foreign>>, parts' \in [Rids -> Nat],
             closed' = closed \union {r}
      PROVE  IInv'
  <2>. DEFINE m == Answer(r, t, c, b, i)
  <2>1. m \in Message /\ Genuine(m)
    BY <1>2, AnswerGenuine
  <2>. HIDE DEF m
  <2>2. <<m>> \in Seq(Message) /\ \A j \in 1..Len(<<m>>) : Genuine(<<m>>[j])
    BY <2>1
  <2>3. Deliver(<<m>>, TRUE)
    BY <1>2 DEF m
  <2>. QED
    BY <1>0, <1>2, <2>2, <2>3, DeliverIInv
<1>3. ASSUME NEW r \in Rids, NEW b \in BOOLEAN, KernelDone(r, b) PROVE IInv'
  BY <1>0, <1>2, <1>3 DEF KernelDone, Serves
<1>4. ASSUME NEW r \in Rids, KernelSingle(r) PROVE IInv'
  <2>1. parts' \in [Rids -> Nat]
    BY <1>0, <1>4 DEF KernelSingle
  <2>. QED
    BY <1>0, <1>2, <1>4, <2>1 DEF KernelSingle, Serves
<1>5. ASSUME NEW r \in Rids, NEW c \in Codes, KernelError(r, c) PROVE IInv'
  BY <1>0, <1>2, <1>5 DEF KernelError
<1>6. ASSUME NEW k \in BOOLEAN, NEW t \in {"data", "done", "error"}, Foreign(k, t) PROVE IInv'
  <2>. DEFINE m == [pid |-> IF k THEN "other" ELSE "ours", seq |-> seq, type |-> t,
                    code |-> "fatal", intr |-> FALSE, rid |-> 0, idx |-> 0]
  <2>1. m \in Message
    BY <1>0 DEF Message, IInv, TypeOK
  <2>2. k => Genuine(m)
    BY DEF Genuine
  <2>3. Deliver(<<m>>, k)
    BY <1>6 DEF Foreign
  <2>. HIDE DEF m
  <2>4. <<m>> \in Seq(Message) /\ (k => \A j \in 1..Len(<<m>>) : Genuine(<<m>>[j]))
    BY <2>1, <2>2
  <2>5. foreign' \in Nat
    BY <1>0, <1>6 DEF Foreign
  <2>. QED
    BY <1>0, <1>6, <2>3, <2>4, <2>5, DeliverIInv DEF Foreign
<1>. QED
  BY <1>1, <1>3, <1>4, <1>5, <1>6 DEF Outside

\* The invariant is preserved by every step.
LEMMA NextIInv == IInv /\ [Next]_vars => IInv'
<1>. SUFFICES ASSUME IInv, [Next]_vars PROVE IInv'
  OBVIOUS
<1>1. CASE Next
  BY <1>1, ExchangeIInv, RecvIInv, OutsideIInv DEF Next, ClientStep
<1>2. CASE UNCHANGED vars
  BY <1>2 DEF vars, IInv, TypeOK, SendBudget, KernelHoldsSent, QueueGenuine, BufGenuine,
              Genuine, NoMixing
<1>. QED
  BY <1>1, <1>2

\* The invariant holds in every reachable state.
LEMMA Invariance == Spec => []IInv
  BY InitIInv, NextIInv, PTL DEF Spec

\* The variables of nl_exchange, nl_recv and of the socket keep their types.
THEOREM TypeCorrect == Spec => []TypeOK
<1>1. IInv => TypeOK
  BY DEF IInv
<1>. QED
  BY <1>1, Invariance, PTL

\* Nothing but answers to the last request is ever stored by nl_recv, for any
\* number of retries and exchanges on the handle (netlink.c:304-310).
THEOREM NoMixingCorrect == Spec => []NoMixing
<1>1. IInv => NoMixing
  BY DEF IInv
<1>. QED
  BY <1>1, Invariance, PTL

\* A message that ends the receive loop answers the last request: a late DONE
\* or ERROR never completes or fails a later attempt (netlink.c:308-336).
THEOREM EndsOnOwnAnswerCorrect == Spec => EndsOnOwnAnswer
<1>1. IInv /\ [Next]_vars =>
          [(pc = "parse" /\ pc' # "parse" /\ buf # <<>>) => Head(buf).rid = sends]_vars
  <2>. SUFFICES ASSUME IInv, Next, pc = "parse", pc' # "parse", buf # <<>>
                PROVE  Head(buf).rid = sends
    BY DEF vars
  <2>1. ASSUME Outside PROVE FALSE
    BY <2>1 DEF Outside, KernelPart, KernelDone, KernelSingle, KernelError, Foreign, client
  <2>2. Accepts
    BY <2>1 DEF Next, ClientStep, StartExchange, GiveUp, SendRequest, SendFails, TakeSeq,
                Timeout, RecvFails, Receive, NextDatagram, SkipMessage, DumpDone, ErrorMessage,
                StoreMessage, OutOfMemory, CheckInterrupted, Return
  <2>. QED
    BY <2>2, OursIsLast
<1>. QED
  BY <1>1, Invariance, PTL DEF Spec, EndsOnOwnAnswer

-----------------------------------------------------------------------------
(* The answer on its way: the messages in hand and in the socket *)

\* Message j of datagram i, where datagram 0 is what is left of the one in hand
Held(i, j) ==
    IF i = 0 THEN j \in 1..Len(buf)
    ELSE i \in 1..Len(rx) /\ rx[i].kernel /\ j \in 1..Len(rx[i].msgs)
Msg(i, j) == IF i = 0 THEN buf[j] ELSE rx[i].msgs[j]
Earlier(i, j, k, l) == i < k \/ (i = k /\ j < l)

\* The messages that answer the last request, and the parts among them
Own(i, j) == Held(i, j) /\ Msg(i, j).rid = sends
Part(i, j) == Own(i, j) /\ Msg(i, j).type = "data"

\* The parts that are missing in dest are on their way, each once and in order,
\* and the end of the answer comes after them.
Recognised ==
    \A i, j \in Nat : Own(i, j) => Ours(Msg(i, j)) /\ (Msg(i, j).type = "done" => isDump)
Missing == \A i, j \in Nat : Part(i, j) => Msg(i, j).idx \in (Len(dest) + 1)..parts[sends]
OnTheirWay ==
    \A n \in (Len(dest) + 1)..parts[sends] : \E i, j \in Nat : Part(i, j) /\ Msg(i, j).idx = n
InOrder ==
    \A i, j, k, l \in Nat :
        (Part(i, j) /\ Part(k, l) /\ Earlier(i, j, k, l)) => Msg(i, j).idx < Msg(k, l).idx
EndIsLast ==
    \A i, j \in Nat : (Own(i, j) /\ ~ Part(i, j)) =>
        sends \in closed /\ \A k, l \in Nat : Part(k, l) => Earlier(k, l, i, j)

Flow == Recognised /\ Missing /\ OnTheirWay /\ InOrder /\ EndIsLast

\* What was stored, and what the kernel was asked
Stored ==
    /\ sends \in Rids
    /\ dumpReq[sends] = isDump
    /\ Len(dest) <= parts[sends]
    /\ \A i \in 1..Len(dest) : dest[i].idx = i
    /\ ~ isDump => dest = <<>> /\ (parts[sends] = 0 \/ (parts[sends] = 1 /\ sends \in closed))

Complete ==
    /\ sends \in Rids \cap closed
    /\ Len(dest) = parts[sends]
    /\ \A i \in 1..Len(dest) : dest[i].idx = i

Exchange ==
    /\ \A r \in Rids : r > sends => parts[r] = 0
    /\ pc # "parse" => buf = <<>>
    /\ pc \in {"recv", "parse"} => Stored /\ Flow
    /\ pc = "check" => Complete
    /\ result = "ok" => pc = "idle" /\ Complete /\ ~ Interrupted

\* The head of the datagram in hand, if it is a part of the answer, is the next.
LEMMA HeadNext ==
    ASSUME Missing, OnTheirWay, InOrder, Part(0, 1), Len(dest) \in Nat, parts[sends] \in Nat
    PROVE  Msg(0, 1).idx = Len(dest) + 1
<1>1. Msg(0, 1).idx \in (Len(dest) + 1)..parts[sends]
  BY DEF Missing
<1>2. Len(dest) + 1 \in (Len(dest) + 1)..parts[sends]
  BY <1>1
<1>3. PICK i \in Nat, j \in Nat : Part(i, j) /\ Msg(i, j).idx = Len(dest) + 1
  BY <1>2 DEF OnTheirWay
<1>4. j >= 1
  BY <1>3 DEF Part, Own, Held
<1>5. CASE i = 0 /\ j = 1
  BY <1>3, <1>5
<1>6. CASE Earlier(0, 1, i, j)
  BY <1>1, <1>3, <1>6 DEF InOrder
<1>. QED
  BY <1>4, <1>5, <1>6 DEF Earlier

\* Taking a datagram out of the socket (a = 1) or a message out of the one in
\* hand (b = 1), which is stored (c = 1) or no part of the answer
Moves(a, b, c) ==
    /\ Len(dest') = Len(dest) + c
    /\ UNCHANGED <<sends, seq, isDump, closed, parts>>
    /\ \A i, j \in Nat : Own(i, j)' =>
          LET l == IF i = 0 THEN j + b ELSE j
          IN  Own(i + a, l) /\ Msg(i, j)' = Msg(i + a, l) /\ (c = 1 => Earlier(0, 1, i + a, l))
    /\ \A i, j \in Nat : Own(i, j) =>
          \/ c = 1 /\ i = 0 /\ j = 1
          \/ \E k, l \in Nat : Own(k, l)' /\ i = k + a /\ j = IF k = 0 THEN l + b ELSE l
    /\ c = 1 => Part(0, 1)

\* Messages on their way move on: the parts of the answer stay in order.
LEMMA FlowMoved ==
    ASSUME Flow, NEW a \in {0, 1}, NEW b \in {0, 1}, NEW c \in {0, 1},
           Len(dest) \in Nat, parts[sends] \in Nat, Moves(a, b, c)
    PROVE  Flow'
<1>. USE DEF Moves
<1>. DEFINE L(i, j) == IF i = 0 THEN j + b ELSE j
<1>1. \A i, j \in Nat : i + a \in Nat /\ L(i, j) \in Nat
  OBVIOUS
<1>2. ASSUME NEW i \in Nat, NEW j \in Nat, Own(i, j)'
      PROVE  /\ Own(i + a, L(i, j)) /\ Msg(i, j)' = Msg(i + a, L(i, j))
             /\ c = 1 => Earlier(0, 1, i + a, L(i, j))
             /\ Part(i, j)' <=> Part(i + a, L(i, j))
  BY <1>2 DEF Part
<1>3. \A i, j \in Nat : Part(i, j)' => Own(i, j)' /\ Part(i + a, L(i, j))
  BY <1>2 DEF Part
<1>4. \A i, j, k, l \in Nat : Earlier(i, j, k, l) <=> Earlier(i + a, L(i, j), k + a, L(k, l))
  BY DEF Earlier
<1>5. \A i, j \in Nat : Own(i, j) =>
          \/ c = 1 /\ i = 0 /\ j = 1
          \/ \E k, l \in Nat : Own(k, l)' /\ i = k + a /\ j = L(k, l)
  OBVIOUS
<1>0. /\ Len(dest') = Len(dest) + c /\ UNCHANGED <<sends, seq, isDump, closed, parts>>
      /\ c = 1 => Part(0, 1)
  OBVIOUS
<1>. HIDE DEF L, Moves
<1>. USE <1>0
<1>6. Recognised'
  <2>. SUFFICES ASSUME NEW i \in Nat, NEW j \in Nat, Own(i, j)'
                PROVE  Ours(Msg(i, j)') /\ (Msg(i, j)'.type = "done" => isDump)
    BY DEF Recognised, Ours
  <2>1. Own(i + a, L(i, j)) /\ Msg(i, j)' = Msg(i + a, L(i, j)) /\ Recognised
    BY <1>2 DEF Flow
  <2>2. /\ Ours(Msg(i + a, L(i, j)))
        /\ Msg(i + a, L(i, j)).type = "done" => isDump
    BY <1>1, <2>1 DEF Recognised
  <2>. QED
    BY <2>1, <2>2
<1>7. c = 1 => Msg(0, 1).idx = Len(dest) + 1
  BY HeadNext DEF Flow
<1>8. Missing'
  <2>. SUFFICES ASSUME NEW i \in Nat, NEW j \in Nat, Part(i, j)'
                PROVE  Msg(i, j)'.idx \in (Len(dest) + c + 1)..parts[sends]
    BY DEF Missing
  <2>1. Part(i + a, L(i, j)) /\ Msg(i, j)' = Msg(i + a, L(i, j))
    BY <1>2, <1>3
  <2>2. Msg(i, j)'.idx \in (Len(dest) + 1)..parts[sends]
    BY <1>1, <2>1 DEF Flow, Missing
  <2>3. c = 1 => Len(dest) + 1 < Msg(i, j)'.idx
    <3>1. c = 1 => Earlier(0, 1, i + a, L(i, j))
      BY <1>2, <1>3
    <3>2. InOrder
      BY DEF Flow
    <3>3. c = 1 => Msg(0, 1).idx < Msg(i + a, L(i, j)).idx
      BY <1>1, <2>1, <3>1, <3>2 DEF InOrder
    <3>. QED
      BY <1>7, <2>1, <3>3
  <2>4. PICK x : x = Msg(i, j)'.idx
    OBVIOUS
  <2>5. x \in (Len(dest) + 1)..parts[sends] /\ (c = 1 => Len(dest) + 1 < x)
    BY <2>2, <2>3, <2>4
  <2>6. x \in (Len(dest) + c + 1)..parts[sends]
    BY <2>5
  <2>. QED
    BY <2>4, <2>6
<1>9. OnTheirWay'
  <2>. SUFFICES ASSUME NEW n \in (Len(dest) + c + 1)..parts[sends]
                PROVE  \E i, j \in Nat : Part(i, j)' /\ Msg(i, j)'.idx = n
    BY DEF OnTheirWay
  <2>1. PICK i \in Nat, j \in Nat : Part(i, j) /\ Msg(i, j).idx = n
    BY DEF Flow, OnTheirWay
  <2>2. ~ (c = 1 /\ i = 0 /\ j = 1)
    BY <1>7, <2>1
  <2>3. PICK k \in Nat, l \in Nat : Own(k, l)' /\ i = k + a /\ j = L(k, l)
    BY <1>5, <2>1, <2>2 DEF Part
  <2>. QED
    BY <1>2, <2>1, <2>3
<1>10. InOrder'
  <2>. SUFFICES ASSUME NEW i \in Nat, NEW j \in Nat, NEW k \in Nat, NEW l \in Nat,
                       Part(i, j)', Part(k, l)', Earlier(i, j, k, l)
                PROVE  Msg(i, j)'.idx < Msg(k, l)'.idx
    BY DEF InOrder, Earlier
  <2>1. /\ Part(i + a, L(i, j)) /\ Msg(i, j)' = Msg(i + a, L(i, j))
        /\ Part(k + a, L(k, l)) /\ Msg(k, l)' = Msg(k + a, L(k, l))
    BY <1>2, <1>3
  <2>2. InOrder /\ Earlier(i + a, L(i, j), k + a, L(k, l))
    BY <1>4 DEF Flow
  <2>3. Msg(i + a, L(i, j)).idx < Msg(k + a, L(k, l)).idx
    BY <1>1, <2>1, <2>2 DEF InOrder
  <2>. QED
    BY <2>1, <2>3
<1>11. EndIsLast'
  <2>. SUFFICES ASSUME NEW i \in Nat, NEW j \in Nat, Own(i, j)', ~ Part(i, j)'
                PROVE  sends \in closed /\ \A k, l \in Nat : Part(k, l)' => Earlier(k, l, i, j)
    BY DEF EndIsLast, Earlier
  <2>1. Own(i + a, L(i, j)) /\ ~ Part(i + a, L(i, j))
    BY <1>2
  <2>2. sends \in closed /\ \A k, l \in Nat : Part(k, l) => Earlier(k, l, i + a, L(i, j))
    BY <1>1, <2>1 DEF Flow, EndIsLast
  <2>. QED
    BY <1>1, <1>3, <1>4, <2>2
<1>. QED
  BY <1>6, <1>8, <1>9, <1>10, <1>11 DEF Flow

\* A datagram that does not answer the last request changes nothing.
LEMMA FlowOthers ==
    ASSUME Flow, UNCHANGED <<sends, seq, isDump, dest>>, parts'[sends] = parts[sends],
           closed \subseteq closed',
           \A i, j \in Nat : /\ Own(i, j)' <=> Own(i, j)
                             /\ Own(i, j) => Msg(i, j)' = Msg(i, j)
    PROVE  Flow'
<1>1. \A i, j \in Nat : Part(i, j)' <=> Part(i, j)
  BY DEF Part
<1>2. Recognised'
  BY DEF Flow, Recognised, Ours
<1>3. Missing' /\ OnTheirWay'
  <2>1. \A i, j \in Nat : Part(i, j) => Msg(i, j)' = Msg(i, j)
    BY DEF Part
  <2>. QED
    BY <1>1, <2>1 DEF Flow, Missing, OnTheirWay
<1>4. InOrder'
  <2>1. \A i, j \in Nat : Part(i, j) => Msg(i, j)' = Msg(i, j)
    BY DEF Part
  <2>. QED
    BY <1>1, <2>1 DEF Flow, InOrder, Earlier
<1>5. EndIsLast'
  BY <1>1 DEF Flow, EndIsLast, Earlier
<1>. QED
  BY <1>2, <1>3, <1>4, <1>5 DEF Flow

\* A datagram with a part (n = 1) or the end (e = 1) of the answer, or both
Adds(p, n, e) ==
    /\ UNCHANGED <<sends, seq, isDump, dest>>
    /\ parts'[sends] = parts[sends] + n
    /\ closed \subseteq closed' /\ sends \notin closed /\ (e = 1 => sends \in closed')
    /\ \A i, j \in Nat : Own(i, j) => i < p /\ Own(i, j)' /\ Msg(i, j)' = Msg(i, j)
    /\ \A i, j \in Nat : Own(i, j)' => Own(i, j) \/ (i = p /\ j \in 1..(n + e))
    /\ \A j \in 1..(n + e) : Own(p, j)' /\ Ours(Msg(p, j)') /\ (Msg(p, j)'.type = "done" => isDump)
    /\ n = 1 => Msg(p, 1)'.type = "data" /\ Msg(p, 1)'.idx = parts[sends] + 1
    /\ e = 1 => Msg(p, n + 1)'.type # "data"

\* Messages the kernel adds come after those on their way.
LEMMA FlowDelivered ==
    ASSUME Flow, NEW p \in Nat, NEW n \in {0, 1}, NEW e \in {0, 1},
           Len(dest) \in Nat, parts[sends] \in Nat, Len(dest) <= parts[sends], Adds(p, n, e)
    PROVE  Flow'
<1>. USE DEF Adds
<1>1. \A i, j \in Nat : Own(i, j) => Part(i, j)
  BY DEF Flow, EndIsLast
<1>2. \A i, j \in Nat : Part(i, j) => i < p /\ Part(i, j)' /\ Msg(i, j)' = Msg(i, j)
  BY DEF Part
<1>3. ASSUME NEW i \in Nat, NEW j \in Nat, Part(i, j)'
      PROVE  Part(i, j) \/ (n = 1 /\ i = p /\ j = 1)
  <2>1. CASE Own(i, j)
    BY <1>1, <2>1
  <2>2. CASE i = p /\ j \in 1..(n + e)
    <3>1. j = n + 1 => e = 1
      BY <2>2
    <3>2. j # n + 1
      BY <1>3, <2>2, <3>1 DEF Part
    <3>. QED
      BY <2>2, <3>2
  <2>. QED
    BY <1>3, <2>1, <2>2 DEF Part
<1>4. n = 1 => Part(p, 1)' /\ Msg(p, 1)'.idx = parts[sends] + 1
  BY DEF Part
<1>5. Recognised'
  <2>1. \A i, j \in Nat : Own(i, j)' => Ours(Msg(i, j)') /\ (Msg(i, j)'.type = "done" => isDump)
    <3>. SUFFICES ASSUME NEW i \in Nat, NEW j \in Nat, Own(i, j)'
                  PROVE  Ours(Msg(i, j)') /\ (Msg(i, j)'.type = "done" => isDump)
      OBVIOUS
    <3>1. CASE Own(i, j)
      BY <3>1 DEF Flow, Recognised
    <3>2. CASE i = p /\ j \in 1..(n + e)
      BY <3>2
    <3>. QED
      BY <3>1, <3>2
  <2>. QED
    BY <2>1 DEF Recognised, Ours
<1>6. Missing'
  <2>. SUFFICES ASSUME NEW i \in Nat, NEW j \in Nat, Part(i, j)'
                PROVE  Msg(i, j)'.idx \in (Len(dest) + 1)..(parts[sends] + n)
    BY DEF Missing
  <2>1. CASE Part(i, j)
    <3>1. Msg(i, j)'.idx \in (Len(dest) + 1)..parts[sends]
      BY <1>2, <2>1 DEF Flow, Missing
    <3>. QED
      BY <3>1
  <2>2. CASE n = 1 /\ i = p /\ j = 1
    BY <1>4, <2>2
  <2>. QED
    BY <1>3, <2>1, <2>2
<1>7. OnTheirWay'
  <2>. SUFFICES ASSUME NEW k \in (Len(dest) + 1)..(parts[sends] + n)
                PROVE  \E i, j \in Nat : Part(i, j)' /\ Msg(i, j)'.idx = k
    BY DEF OnTheirWay
  <2>1. CASE k \in (Len(dest) + 1)..parts[sends]
    BY <1>2, <2>1 DEF Flow, OnTheirWay
  <2>2. CASE n = 1 /\ k = parts[sends] + 1
    BY <1>4, <2>2
  <2>. QED
    BY <2>1, <2>2
<1>8. InOrder'
  <2>. SUFFICES ASSUME NEW i \in Nat, NEW j \in Nat, NEW k \in Nat, NEW l \in Nat,
                       Part(i, j)', Part(k, l)', Earlier(i, j, k, l)
                PROVE  Msg(i, j)'.idx < Msg(k, l)'.idx
    BY DEF InOrder, Earlier
  <2>1. CASE Part(i, j) /\ Part(k, l)
    <3>1. InOrder
      BY DEF Flow
    <3>2. Msg(i, j).idx < Msg(k, l).idx
      BY <2>1, <3>1 DEF InOrder
    <3>. QED
      BY <1>2, <2>1, <3>2
  <2>2. CASE Part(i, j) /\ n = 1 /\ k = p /\ l = 1
    <3>1. Msg(i, j)'.idx \in (Len(dest) + 1)..parts[sends]
      BY <1>2, <2>2 DEF Flow, Missing
    <3>. QED
      BY <1>4, <2>2, <3>1
  <2>3. CASE i = p /\ j = 1
    <3>1. ~ Part(k, l)
      BY <1>2, <2>3 DEF Earlier
    <3>. QED
      BY <1>3, <2>3, <3>1 DEF Earlier
  <2>. QED
    BY <1>3, <2>1, <2>2, <2>3
<1>9. EndIsLast'
  <2>. SUFFICES ASSUME NEW i \in Nat, NEW j \in Nat, Own(i, j)', ~ Part(i, j)'
                PROVE  sends \in closed' /\ \A k, l \in Nat : Part(k, l)' => Earlier(k, l, i, j)
    BY DEF EndIsLast, Earlier
  <2>1. i = p /\ j \in 1..(n + e)
    BY <1>1, <1>2
  <2>2. j = n + 1 /\ e = 1
    BY <1>4, <2>1
  <2>. QED
    BY <1>2, <1>3, <2>1, <2>2 DEF Earlier
<1>. QED
  BY <1>5, <1>6, <1>7, <1>8, <1>9 DEF Flow

\* A step that gives up an attempt or an exchange, or starts one
LEMMA ExchangeLeft ==
    ASSUME IInv, Exchange, pc' \in {"idle", "send"}, result' # "ok", buf' = <<>>, parts' = parts,
           sends' \in Nat, sends <= sends'
    PROVE  Exchange'
<1>1. \A r \in Rids : r > sends' => parts'[r] = 0
  BY DEF IInv, TypeOK, Exchange, Rids
<1>. QED
  BY <1>1 DEF Exchange

\* A call that fails promises nothing of the answer.
LEMMA ExchangeFails ==
    ASSUME IInv, Exchange, NEW c \in Codes, Fail(c), pc \in {"recv", "parse"} PROVE Exchange'
<1>1. result' # "ok"
  BY DEF Fail, Exchange
<1>. QED
  BY <1>1, ExchangeLeft DEF Fail, kernel, IInv, TypeOK

\* Every message in hand or in the socket is genuine.
LEMMA HeldGenuine ==
    ASSUME IInv, NEW i \in Nat, NEW j \in Nat, Held(i, j) PROVE Genuine(Msg(i, j))
BY DEF IInv, QueueGenuine, BufGenuine, Held, Msg

\* The lengths and counters that the arithmetic is about
LEMMA NumbersOK ==
    ASSUME IInv
    PROVE  /\ Len(dest) \in Nat /\ Len(rx) \in Nat /\ Len(buf) \in Nat /\ sends \in Nat
           /\ sends \in Rids => parts[sends] \in Nat
BY DEF IInv, TypeOK

\* A new request: nothing of its answer is on its way, and none was produced.
LEMMA ExchangeSends == ASSUME IInv, Exchange, SendRequest PROVE Exchange'
<1>1. /\ sends' = sends + 1 /\ sends' \in Rids /\ buf' = buf /\ buf = <<>> /\ rx' = rx /\ dest' = <<>>
      /\ parts' = parts /\ dumpReq' = [dumpReq EXCEPT ![sends + 1] = isDump] /\ isDump' = isDump
      /\ pc = "send" /\ pc' = "recv" /\ result' = result
  BY DEF SendRequest, TakeSeq, IInv, SendBudget, TypeOK, Rids, Exchange
<1>2. parts'[sends'] = 0 /\ \A r \in Rids : r > sends' => parts'[r] = 0
  BY <1>1 DEF Exchange, IInv, TypeOK, Rids
<1>3. ASSUME NEW i \in Nat, NEW j \in Nat, Own(i, j)' PROVE FALSE
  <2>1. Held(i, j) /\ Msg(i, j).rid = sends + 1
    BY <1>1, <1>3 DEF Own, Held, Msg
  <2>2. Genuine(Msg(i, j))
    BY <2>1, HeldGenuine
  <2>. QED
    BY <2>1, <2>2, NumbersOK DEF Genuine
<1>4. Flow'
  <2>1. Len(dest') = 0
    BY <1>1
  <2>2. OnTheirWay'
    BY <1>2, <2>1 DEF OnTheirWay
  <2>3. \A i, j \in Nat : ~ Own(i, j)' /\ ~ Part(i, j)'
    BY <1>3 DEF Part
  <2>4. Recognised' /\ Missing' /\ InOrder' /\ EndIsLast'
    BY <2>3 DEF Recognised, Missing, InOrder, EndIsLast
  <2>. QED
    BY <2>2, <2>4 DEF Flow
<1>5. Stored'
  <2>1. dumpReq'[sends'] = isDump'
    BY <1>1 DEF IInv, TypeOK
  <2>2. Len(dest') = 0
    BY <1>1
  <2>. QED
    BY <1>1, <1>2, <2>1, <2>2 DEF Stored
<1>. QED
  BY <1>1, <1>2, <1>4, <1>5 DEF Exchange

\* The next datagram is taken from the socket.
LEMMA ExchangeReceives == ASSUME IInv, Exchange, Receive PROVE Exchange'
<1>1. /\ pc = "recv" /\ pc' \in {"recv", "parse"} /\ buf = <<>> /\ rx # <<>> /\ rx' = Tail(rx)
      /\ UNCHANGED <<sends, seq, isDump, dest, closed, parts, dumpReq, result>>
      /\ Stored /\ Flow
  BY DEF Receive, Exchange, kernel
<1>2. buf' = IF rx[1].kernel THEN rx[1].msgs ELSE <<>>
  BY <1>1 DEF Receive, FromKernel, IInv, TypeOK
<1>3. /\ Len(rx') = Len(rx) - 1 /\ Len(rx) \in Nat \ {0}
      /\ \A i \in 1..Len(rx') : rx'[i] = rx[i + 1]
  BY <1>1 DEF IInv, TypeOK
<1>4. ASSUME NEW i \in Nat, NEW j \in Nat
      PROVE  (Held(i, j)' <=> Held(i + 1, j)) /\ (Held(i, j)' => Msg(i, j)' = Msg(i + 1, j))
  <2>1. CASE i = 0
    BY <1>2, <1>3, <2>1 DEF Held, Msg
  <2>2. CASE i # 0
    <3>1. i \in 1..Len(rx') <=> i + 1 \in 1..Len(rx)
      BY <1>3, <2>2
    <3>. QED
      BY <1>3, <2>2, <3>1 DEF Held, Msg
  <2>. QED
    BY <2>1, <2>2
<1>5. \A i, j \in Nat : /\ Own(i, j)' <=> Own(i + 1, j)
                        /\ Own(i, j)' => Msg(i, j)' = Msg(i + 1, j)
  BY <1>1, <1>4 DEF Own
<1>6. \A i, j \in Nat : Own(i, j) => \E k, l \in Nat : Own(k, l)' /\ i = k + 1 /\ j = l
  <2>. SUFFICES ASSUME NEW i \in Nat, NEW j \in Nat, Own(i, j)
                PROVE  \E k, l \in Nat : Own(k, l)' /\ i = k + 1 /\ j = l
    OBVIOUS
  <2>1. i # 0
    BY <1>1 DEF Own, Held
  <2>2. i - 1 \in Nat /\ i = (i - 1) + 1
    BY <2>1
  <2>. QED
    BY <1>5, <2>2
<1>7. Flow'
  <2>1. Len(dest) \in Nat /\ parts[sends] \in Nat /\ Len(dest') = Len(dest) + 0
    BY <1>1, NumbersOK DEF Stored
  <2>2. \A i, j \in Nat : (IF i = 0 THEN j + 0 ELSE j) = j
    OBVIOUS
  <2>3. Moves(1, 0, 0)
    BY <1>1, <1>5, <1>6, <2>1, <2>2 DEF Moves
  <2>. QED
    BY <1>1, <2>1, <2>3, FlowMoved
<1>8. Stored'
  BY <1>1 DEF Stored
<1>9. pc' # "parse" => buf' = <<>>
  BY <1>1 DEF Receive
<1>. QED
  BY <1>1, <1>7, <1>8, <1>9 DEF Exchange

\* The message in hand is dropped or stored: the others move up.
LEMMA MovedUp ==
    ASSUME IInv, buf # <<>>, buf' = Tail(buf), UNCHANGED <<rx, sends>>
    PROVE  /\ Held(0, 1) /\ Msg(0, 1) = Head(buf)
           /\ \A i, j \in Nat :
                LET l == IF i = 0 THEN j + 1 ELSE j
                IN  Own(i, j)' => Own(i, l) /\ Msg(i, j)' = Msg(i, l) /\ Earlier(0, 1, i, l)
           /\ \A i, j \in Nat : Own(i, j) =>
                \/ i = 0 /\ j = 1
                \/ \E k, l \in Nat : Own(k, l)' /\ i = k /\ j = IF k = 0 THEN l + 1 ELSE l
<1>1. /\ Len(buf') = Len(buf) - 1 /\ Len(buf) \in Nat \ {0} /\ Head(buf) = buf[1]
      /\ \A j \in 1..Len(buf') : buf'[j] = buf[j + 1]
  BY DEF IInv, TypeOK
<1>2. Held(0, 1) /\ Msg(0, 1) = Head(buf)
  BY <1>1 DEF Held, Msg
<1>3. \A j \in Nat : /\ Held(0, j)' <=> (j >= 1 /\ Held(0, j + 1))
                     /\ Held(0, j)' => Msg(0, j)' = Msg(0, j + 1)
  BY <1>1 DEF Held, Msg
<1>4. \A i, j \in Nat : i # 0 => (Held(i, j)' <=> Held(i, j)) /\ Msg(i, j)' = Msg(i, j)
  BY DEF Held, Msg
<1>5. \A i, j \in Nat : Held(i, j) => j >= 1
  BY DEF Held
<1>6. \A i, j \in Nat :
         LET l == IF i = 0 THEN j + 1 ELSE j
         IN  Own(i, j)' => Own(i, l) /\ Msg(i, j)' = Msg(i, l) /\ Earlier(0, 1, i, l)
  <2>. SUFFICES ASSUME NEW i \in Nat, NEW j \in Nat, Own(i, j)'
                PROVE  LET l == IF i = 0 THEN j + 1 ELSE j
                       IN  Own(i, l) /\ Msg(i, j)' = Msg(i, l) /\ Earlier(0, 1, i, l)
    OBVIOUS
  <2>1. CASE i = 0
    BY <1>3, <2>1 DEF Own, Earlier
  <2>2. CASE i # 0
    BY <1>4, <2>2 DEF Own, Earlier
  <2>. QED
    BY <2>1, <2>2
<1>7. \A i, j \in Nat : Own(i, j) =>
         \/ i = 0 /\ j = 1
         \/ \E k, l \in Nat : Own(k, l)' /\ i = k /\ j = IF k = 0 THEN l + 1 ELSE l
  <2>. SUFFICES ASSUME NEW i \in Nat, NEW j \in Nat, Own(i, j), ~ (i = 0 /\ j = 1)
                PROVE  \E k, l \in Nat : Own(k, l)' /\ i = k /\ j = IF k = 0 THEN l + 1 ELSE l
    OBVIOUS
  <2>1. CASE i = 0
    <3>1. j >= 2 /\ j - 1 \in Nat /\ j = (j - 1) + 1 /\ j - 1 >= 1
      BY <1>5, <2>1 DEF Own
    <3>2. Own(0, j - 1)'
      BY <1>3, <2>1, <3>1 DEF Own
    <3>. QED
      BY <2>1, <3>1, <3>2
  <2>2. CASE i # 0
    <3>1. Own(i, j)'
      BY <1>4, <2>2 DEF Own
    <3>. QED
      BY <2>2, <3>1
  <2>. QED
    BY <2>1, <2>2
<1>. QED
  BY <1>2, <1>6, <1>7

\* A message that is not ours is no part of the answer.
LEMMA ExchangeSkips == ASSUME IInv, Exchange, SkipMessage PROVE Exchange'
<1>1. /\ pc = "parse" /\ pc' = "parse" /\ buf # <<>> /\ buf' = Tail(buf) /\ ~ Ours(Head(buf))
      /\ UNCHANGED <<rx, sends, seq, isDump, dest, closed, parts, dumpReq, result>>
      /\ Stored /\ Flow
  BY DEF SkipMessage, Exchange, kernel
<1>2. ~ Own(0, 1)
  BY <1>1, MovedUp DEF Flow, Recognised
<1>3. Len(dest) \in Nat /\ parts[sends] \in Nat /\ Len(dest') = Len(dest) + 0
  BY <1>1, NumbersOK DEF Stored
<1>4. \A i \in Nat : i + 0 = i
  OBVIOUS
<1>5. /\ \A i, j \in Nat :
          LET l == IF i = 0 THEN j + 1 ELSE j
          IN  Own(i, j)' => Own(i, l) /\ Msg(i, j)' = Msg(i, l)
      /\ \A i, j \in Nat : Own(i, j) =>
          \E k, l \in Nat : Own(k, l)' /\ i = k /\ j = IF k = 0 THEN l + 1 ELSE l
  BY <1>1, <1>2, MovedUp
<1>6. Moves(0, 1, 0)
  BY <1>1, <1>3, <1>4, <1>5 DEF Moves
<1>7. Flow'
  BY <1>1, <1>3, <1>6, FlowMoved
<1>8. Stored'
  BY <1>1 DEF Stored
<1>. QED
  BY <1>1, <1>7, <1>8 DEF Exchange

\* DONE is the last message of the answer: every part is in dest.
LEMMA ExchangeEnds == ASSUME IInv, Exchange, DumpDone PROVE Exchange'
<1>1. /\ pc = "parse" /\ pc' = "check" /\ buf # <<>> /\ buf' = <<>> /\ Accepts
      /\ Head(buf).type = "done"
      /\ UNCHANGED <<rx, sends, seq, isDump, dest, closed, parts, dumpReq, result>>
      /\ Stored /\ Flow
  BY DEF DumpDone, Accepts, EndsDump, Exchange, kernel
<1>2. Held(0, 1) /\ Msg(0, 1) = Head(buf) /\ Msg(0, 1).rid = sends
  BY <1>1, OursIsLast DEF Held, Msg, IInv, TypeOK
<1>3. Own(0, 1) /\ ~ Part(0, 1)
  BY <1>1, <1>2 DEF Own, Part
<1>4. sends \in closed /\ \A k, l \in Nat : Part(k, l) => Earlier(k, l, 0, 1)
  <2>1. EndIsLast
    BY <1>1 DEF Flow
  <2>. QED
    BY <1>3, <2>1 DEF EndIsLast
<1>5. \A k, l \in Nat : ~ Part(k, l)
  BY <1>4 DEF Earlier, Part, Own, Held
<1>6. Len(dest) = parts[sends]
  <2>1. Len(dest) \in Nat /\ parts[sends] \in Nat /\ Len(dest) <= parts[sends]
    BY <1>1, NumbersOK DEF Stored
  <2>2. parts[sends] \notin (Len(dest) + 1)..parts[sends]
    BY <1>1, <1>5 DEF Flow, OnTheirWay
  <2>. QED
    BY <2>1, <2>2
<1>7. Complete'
  BY <1>1, <1>4, <1>6 DEF Stored, Complete
<1>. QED
  BY <1>1, <1>7 DEF Exchange

\* The message stored is the next part of the answer.
LEMMA ExchangeStores == ASSUME IInv, Exchange, StoreMessage PROVE Exchange'
<1>1. /\ pc = "parse" /\ buf # <<>> /\ Accepts /\ Stores(Head(buf))
      /\ dest' = Append(dest, Head(buf)) /\ pc' = (IF isDump THEN "parse" ELSE "check")
      /\ buf' = (IF isDump THEN Tail(buf) ELSE <<>>)
      /\ UNCHANGED <<rx, sends, seq, isDump, closed, parts, dumpReq, result>>
      /\ Stored /\ Flow /\ result # "ok"
  BY DEF StoreMessage, Accepts, Exchange, kernel
<1>2. Held(0, 1) /\ Msg(0, 1) = Head(buf) /\ Msg(0, 1).rid = sends /\ Head(buf) \in Message
  BY <1>1, OursIsLast DEF Held, Msg, IInv, TypeOK
<1>3. Part(0, 1)
  <2>1. Own(0, 1)
    BY <1>2 DEF Own
  <2>2. Msg(0, 1).type = "done" => isDump
    BY <1>1, <2>1 DEF Flow, Recognised
  <2>3. Msg(0, 1).type \in {"data", "done", "error"}
    BY <1>2 DEF Message
  <2>. QED
    BY <1>1, <1>2, <2>1, <2>2, <2>3 DEF Part, Stores, EndsDump
<1>4. Len(dest) \in Nat /\ parts[sends] \in Nat
  BY <1>1, NumbersOK DEF Stored
<1>5. Head(buf).idx = Len(dest) + 1
  BY <1>1, <1>2, <1>3, <1>4, HeadNext DEF Flow
<1>6. Head(buf).idx \in (Len(dest) + 1)..parts[sends]
  BY <1>1, <1>2, <1>3 DEF Flow, Missing
<1>7. /\ Len(dest') = Len(dest) + 1 /\ Len(dest') <= parts[sends]
      /\ \A i \in 1..Len(dest') : dest'[i].idx = i
  <2>1. dest \in Seq(Message)
    BY DEF IInv, TypeOK
  <2>2. Len(dest') = Len(dest) + 1 /\ dest'[Len(dest) + 1] = Head(buf)
        /\ \A i \in 1..Len(dest) : dest'[i] = dest[i]
    BY <1>1, <1>2, <2>1
  <2>. QED
    BY <1>1, <1>4, <1>5, <1>6, <2>2 DEF Stored
<1>8. CASE isDump
  <2>1. buf' = Tail(buf) /\ pc' = "parse"
    BY <1>1, <1>8
  <2>2. \A i \in Nat : i + 0 = i
    OBVIOUS
  <2>3. /\ \A i, j \in Nat :
            LET l == IF i = 0 THEN j + 1 ELSE j
            IN  Own(i, j)' => Own(i, l) /\ Msg(i, j)' = Msg(i, l) /\ Earlier(0, 1, i, l)
        /\ \A i, j \in Nat : Own(i, j) =>
            \/ i = 0 /\ j = 1
            \/ \E k, l \in Nat : Own(k, l)' /\ i = k /\ j = IF k = 0 THEN l + 1 ELSE l
    BY <1>1, <2>1, MovedUp
  <2>4. Moves(0, 1, 1)
    <3>1. UNCHANGED <<sends, seq, isDump, closed, parts>> /\ Len(dest') = Len(dest) + 1
      BY <1>1, <1>7
    <3>2. \A i, j \in Nat : Own(i, j)' =>
            LET l == IF i = 0 THEN j + 1 ELSE j
            IN  Own(i + 0, l) /\ Msg(i, j)' = Msg(i + 0, l) /\ (1 = 1 => Earlier(0, 1, i + 0, l))
      BY <2>2, <2>3
    <3>3. \A i, j \in Nat : Own(i, j) =>
            \/ 1 = 1 /\ i = 0 /\ j = 1
            \/ \E k, l \in Nat : Own(k, l)' /\ i = k + 0 /\ j = IF k = 0 THEN l + 1 ELSE l
      BY <2>2, <2>3
    <3>. QED
      BY <1>3, <3>1, <3>2, <3>3 DEF Moves
  <2>5. Flow'
    BY <1>1, <1>4, <2>4, FlowMoved
  <2>6. Stored'
    BY <1>1, <1>7, <1>8 DEF Stored
  <2>. QED
    BY <1>1, <2>1, <2>5, <2>6 DEF Exchange
<1>9. CASE ~ isDump
  <2>1. dest = <<>> /\ parts[sends] = 1 /\ sends \in closed /\ sends \in Rids
    BY <1>1, <1>4, <1>6, <1>9 DEF Stored
  <2>2. Complete'
    BY <1>1, <1>7, <2>1 DEF Complete
  <2>. QED
    BY <1>1, <1>9, <2>2 DEF Exchange
<1>. QED
  BY <1>8, <1>9

\* What a delivery does: one more datagram at the end of the socket's queue
LEMMA Delivered ==
    ASSUME IInv, NEW d \in Datagram, rx' = Append(rx, d),
           UNCHANGED <<sends, buf>>, NEW p, p = Len(rx) + 1
    PROVE  /\ p \in Nat
           /\ \A i, j \in Nat : Own(i, j) => i < p /\ Own(i, j)' /\ Msg(i, j)' = Msg(i, j)
           /\ \A i, j \in Nat : Own(i, j)' => Own(i, j) \/ (i = p /\ j \in 1..Len(d.msgs))
           /\ \A j \in 1..Len(d.msgs) : /\ Msg(p, j)' = d.msgs[j]
                                        /\ Own(p, j)' <=> d.kernel /\ d.msgs[j].rid = sends
<1>2. /\ Len(rx') = p /\ p \in Nat /\ p # 0 /\ p \in 1..Len(rx') /\ Len(rx) \in Nat
      /\ rx'[p] = d /\ \A i \in 1..Len(rx) : rx'[i] = rx[i]
  BY DEF IInv, TypeOK
<1>3. ASSUME NEW i \in Nat, NEW j \in Nat, Held(i, j)
      PROVE  i < p /\ Held(i, j)' /\ Msg(i, j)' = Msg(i, j)
  BY <1>2, <1>3 DEF Held, Msg
<1>4. ASSUME NEW i \in Nat, NEW j \in Nat, Held(i, j)', i # p
      PROVE  Held(i, j)
  <2>1. CASE i = 0
    BY <1>4, <2>1 DEF Held
  <2>2. CASE i # 0
    <3>1. i \in 1..Len(rx)
      BY <1>2, <1>4, <2>2 DEF Held
    <3>. QED
      BY <1>2, <1>4, <2>2, <3>1 DEF Held
  <2>. QED
    BY <2>1, <2>2
<1>5. ASSUME NEW j \in Nat
      PROVE  (Held(p, j)' <=> d.kernel /\ j \in 1..Len(d.msgs)) /\ Msg(p, j)' = d.msgs[j]
  BY <1>2 DEF Held, Msg
<1>6. \A i, j \in Nat : Own(i, j) => i < p /\ Own(i, j)' /\ Msg(i, j)' = Msg(i, j)
  BY <1>3 DEF Own
<1>7. \A i, j \in Nat : Own(i, j)' => Own(i, j) \/ (i = p /\ j \in 1..Len(d.msgs))
  <2>. SUFFICES ASSUME NEW i \in Nat, NEW j \in Nat, Own(i, j)', i # p PROVE Own(i, j)
    BY <1>5 DEF Own
  <2>1. Held(i, j)
    BY <1>4 DEF Own
  <2>. QED
    BY <1>3, <2>1 DEF Own
<1>8. \A j \in 1..Len(d.msgs) : Msg(p, j)' = d.msgs[j] /\ (Own(p, j)' <=> d.kernel /\ d.msgs[j].rid = sends)
  BY <1>5 DEF Own
<1>. QED
  BY <1>2, <1>6, <1>7, <1>8

\* The parts of Exchange that no delivery touches
LEMMA ExchangeOutside ==
    ASSUME IInv, Exchange, UNCHANGED <<client, dumpReq>>, closed \subseteq closed',
           closed' \subseteq Rids,
           \A r \in Rids : r > sends \/ r \in closed => parts'[r] = parts[r],
           pc \in {"recv", "parse"} => Stored' /\ Flow'
    PROVE  Exchange'
<1>. USE DEF client
<1>1. \A r \in Rids : r > sends' => parts'[r] = 0
  BY DEF Exchange
<1>2. Complete => Complete'
  BY DEF Complete
<1>3. Interrupted' <=> Interrupted
  BY DEF Interrupted
<1>. QED
  BY <1>1, <1>2, <1>3 DEF Exchange

\* A datagram that carries nothing of the last answer
LEMMA ExchangeOther ==
    ASSUME IInv, Exchange, UNCHANGED <<client, dumpReq>>,
           NEW msgs \in Seq(Message), NEW k \in BOOLEAN, Deliver(msgs, k),
           closed \subseteq closed', closed' \subseteq Rids,
           \A j \in 1..Len(msgs) : ~ k \/ msgs[j].rid # sends,
           \A r \in Rids : r = sends \/ r > sends \/ r \in closed => parts'[r] = parts[r]
    PROVE  Exchange'
<1>. USE DEF client
<1>1. \A i, j \in Nat : /\ Own(i, j)' <=> Own(i, j)
                        /\ Own(i, j) => Msg(i, j)' = Msg(i, j)
  <2>1. PICK p : p = Len(rx) + 1
    OBVIOUS
  <2>2. PICK d \in Datagram : rx' = Append(rx, d) /\ d.msgs = msgs /\ (d.kernel <=> k)
    BY DEF Deliver, Datagram
  <2>3. \A i, j \in Nat : /\ Own(i, j) => Own(i, j)' /\ Msg(i, j)' = Msg(i, j)
                          /\ Own(i, j)' => Own(i, j) \/ (i = p /\ j \in 1..Len(msgs))
    BY <2>1, <2>2, Delivered
  <2>4. \A j \in 1..Len(msgs) : ~ Own(p, j)'
    BY <2>1, <2>2, Delivered
  <2>. QED
    BY <2>3, <2>4
<1>2. ASSUME pc \in {"recv", "parse"} PROVE Stored' /\ Flow'
  <2>1. Stored /\ Flow /\ sends \in Rids /\ parts'[sends] = parts[sends]
    BY <1>2 DEF Exchange, Stored
  <2>2. Flow'
    BY <1>1, <2>1, FlowOthers
  <2>. QED
    BY <2>1, <2>2 DEF Stored
<1>. QED
  BY <1>2, ExchangeOutside

\* A datagram with a part (n = 1) or the end (e = 1) of the last answer, or both
Answers(msgs, n, e) ==
    /\ Deliver(msgs, TRUE) /\ Len(msgs) = n + e
    /\ \A j \in 1..(n + e) : /\ msgs[j].rid = sends /\ Ours(msgs[j])
                             /\ msgs[j].type = "done" => dumpReq[sends]
    /\ n = 1 => msgs[1].type = "data"
    /\ e = 1 => msgs[n + 1].type # "data" /\ sends \in closed'
    /\ closed \subseteq closed' /\ closed' \subseteq Rids
    /\ \A r \in Rids \ {sends} : parts'[r] = parts[r]
    /\ ~ dumpReq[sends] => n = 0 \/ sends \in closed'
    /\ pc \in {"recv", "parse"} => /\ parts'[sends] = parts[sends] + n
                                   /\ n = 1 => msgs[1].idx = parts[sends] + 1

\* The kernel adds to the answer of the current request.
LEMMA ExchangeOwn ==
    ASSUME IInv, Exchange, UNCHANGED <<client, dumpReq>>, sends \in Rids, sends \notin closed,
           NEW n \in {0, 1}, NEW e \in {0, 1}, NEW msgs \in Seq(Message), Answers(msgs, n, e)
    PROVE  Exchange'
<1>0. /\ Deliver(msgs, TRUE) /\ Len(msgs) = n + e
      /\ \A j \in 1..(n + e) : /\ msgs[j].rid = sends /\ Ours(msgs[j])
                               /\ msgs[j].type = "done" => dumpReq[sends]
      /\ n = 1 => msgs[1].type = "data"
      /\ e = 1 => msgs[n + 1].type # "data" /\ sends \in closed'
      /\ closed \subseteq closed' /\ closed' \subseteq Rids
      /\ \A r \in Rids \ {sends} : parts'[r] = parts[r]
      /\ ~ dumpReq[sends] => n = 0 \/ sends \in closed'
  BY DEF Answers
<1>1. \A r \in Rids : r > sends \/ r \in closed => parts'[r] = parts[r]
  BY <1>0, NumbersOK
<1>2. ASSUME pc \in {"recv", "parse"} PROVE Stored' /\ Flow'
  <2>0. Stored /\ Flow
    BY <1>2 DEF Exchange
  <2>1. /\ Stored /\ Flow /\ parts'[sends] = parts[sends] + n
        /\ n = 1 => msgs[1].idx = parts[sends] + 1
    BY <1>2, <2>0 DEF Answers
  <2>2. UNCHANGED <<sends, buf, seq, isDump, dest>>
    BY DEF client
  <2>3. Len(dest) \in Nat /\ parts[sends] \in Nat /\ Len(dest) <= parts[sends]
    BY <2>1, NumbersOK DEF Stored
  <2>4. dumpReq[sends] = isDump
    BY <2>1 DEF Stored
  <2>5. PICK p : p = Len(rx) + 1
    OBVIOUS
  <2>6. /\ p \in Nat
        /\ \A i, j \in Nat : Own(i, j) => i < p /\ Own(i, j)' /\ Msg(i, j)' = Msg(i, j)
        /\ \A i, j \in Nat : Own(i, j)' => Own(i, j) \/ (i = p /\ j \in 1..(n + e))
        /\ \A j \in 1..(n + e) : Msg(p, j)' = msgs[j] /\ Own(p, j)'
    <3>. DEFINE d == [kernel |-> TRUE, msgs |-> msgs]
    <3>1. d \in Datagram /\ rx' = Append(rx, d) /\ d.msgs = msgs /\ d.kernel
      BY <1>0 DEF Deliver, Datagram
    <3>. HIDE DEF d
    <3>2. /\ p \in Nat
          /\ \A i, j \in Nat : Own(i, j) => i < p /\ Own(i, j)' /\ Msg(i, j)' = Msg(i, j)
          /\ \A i, j \in Nat : Own(i, j)' => Own(i, j) \/ (i = p /\ j \in 1..Len(d.msgs))
          /\ \A j \in 1..Len(d.msgs) : /\ Msg(p, j)' = d.msgs[j]
                                       /\ Own(p, j)' <=> d.kernel /\ d.msgs[j].rid = sends
      BY <2>2, <2>5, <3>1, Delivered
    <3>. QED
      BY <1>0, <3>1, <3>2
  <2>7. \A j \in 1..(n + e) : Own(p, j)' /\ Ours(Msg(p, j)') /\ (Msg(p, j)'.type = "done" => isDump)
    BY <1>0, <2>4, <2>6
  <2>8. n = 1 => Msg(p, 1)'.type = "data" /\ Msg(p, 1)'.idx = parts[sends] + 1
    BY <1>0, <2>1, <2>6
  <2>9. e = 1 => Msg(p, n + 1)'.type # "data"
    BY <1>0, <2>6
  <2>10. Flow'
    <3>1. Adds(p, n, e)
      BY <1>0, <2>1, <2>2, <2>6, <2>7, <2>8, <2>9 DEF Adds
    <3>. QED
      BY <2>1, <2>3, <2>6, <3>1, FlowDelivered
  <2>11. Stored'
    BY <1>0, <2>1, <2>2, <2>3, <2>4 DEF Stored
  <2>. QED
    BY <2>10, <2>11
<1>. QED
  BY <1>0, <1>1, <1>2, ExchangeOutside

\* A step of the kernel or of another sender
LEMMA ExchangeDelivers == ASSUME IInv, Exchange, Outside PROVE Exchange'
<1>0. /\ parts \in [Rids -> Nat] /\ closed \in SUBSET Rids /\ "fatal" \in Codes /\ FALSE \in BOOLEAN
      /\ dumpReq \in [Rids -> BOOLEAN] /\ seq = sends /\ sends \in Nat /\ Rids \subseteq Nat
      /\ seq \in 0..(SeqMod - 1) /\ 0 \in Nat /\ 1 \in Nat
  BY DEF IInv, TypeOK, Codes, Rids
<1>1. ASSUME NEW r \in Rids, r \notin closed, NEW t \in {"data", "done", "error"},
             NEW c \in Codes, NEW b \in BOOLEAN, NEW i \in Nat
      PROVE  LET m == Answer(r, t, c, b, i)
             IN  /\ r <= sends /\ m \in Message /\ m.rid = r /\ m.type = t /\ m.idx = i
                 /\ r = sends => Ours(m)
  <2>1. r \in Nat /\ r <= sends /\ r <= MaxSends /\ r % SeqMod = r
    BY <1>1, SmallMod DEF IInv, KernelHoldsSent, Rids
  <2>2. Answer(r, t, c, b, i) \in Message
    BY <1>1, AnswerGenuine
  <2>. QED
    BY <1>0, <2>1, <2>2 DEF Answer, Ours
<1>2. ASSUME NEW r \in Rids, NEW b \in BOOLEAN, NEW last \in BOOLEAN, KernelPart(r, b, last)
      PROVE  Exchange'
  <2>. DEFINE part == Answer(r, "data", "fatal", b, parts[r] + 1)
              done == Answer(r, "done", "fatal", b, 0)
              msgs == IF last THEN <<part, done>> ELSE <<part>>
              e == IF last THEN 1 ELSE 0
  <2>1. /\ r \notin closed /\ dumpReq[r] /\ parts' = [parts EXCEPT ![r] = parts[r] + 1]
        /\ closed' = (IF last THEN closed \union {r} ELSE closed)
        /\ Deliver(msgs, TRUE) /\ UNCHANGED <<client, dumpReq>>
    BY <1>2 DEF KernelPart, Serves
  <2>2. parts[r] + 1 \in Nat /\ parts[r] \in Nat
    BY <1>0
  <2>3. /\ r <= sends /\ part \in Message /\ part.rid = r /\ part.type = "data"
        /\ part.idx = parts[r] + 1 /\ (r = sends => Ours(part))
    BY <1>0, <1>1, <2>1, <2>2
  <2>4. done \in Message /\ done.rid = r /\ done.type = "done" /\ (r = sends => Ours(done))
    BY <1>0, <1>1, <2>1
  <2>. HIDE DEF part, done
  <2>5. /\ msgs \in Seq(Message) /\ Len(msgs) = 1 + e /\ msgs[1] = part /\ e \in {0, 1}
        /\ e = 1 => msgs[2] = done /\ last
    BY <2>3, <2>4
  <2>6. \A j \in 1..(1 + e) : msgs[j] = part \/ (msgs[j] = done)
    BY <2>5
  <2>7. closed \subseteq closed' /\ closed' \subseteq Rids /\ (e = 1 => r \in closed')
    BY <1>0, <2>1
  <2>8. parts'[r] = parts[r] + 1 /\ \A q \in Rids \ {r} : parts'[q] = parts[q]
    BY <1>0, <2>1
  <2>. HIDE DEF msgs, e
  <2>9. CASE r = sends
    <3>1. \A j \in 1..(1 + e) : /\ msgs[j].rid = sends /\ Ours(msgs[j])
                                /\ msgs[j].type = "done" => dumpReq[sends]
      <4>1. dumpReq[sends] /\ part.rid = sends /\ done.rid = sends /\ Ours(part) /\ Ours(done)
        BY <2>1, <2>3, <2>4, <2>9
      <4>. QED
        BY <2>6, <4>1
    <3>2. e = 1 => msgs[1 + 1].type # "data"
      BY <2>4, <2>5
    <3>3. Answers(msgs, 1, e)
      BY <2>1, <2>2, <2>3, <2>5, <2>7, <2>8, <2>9, <3>1, <3>2 DEF Answers
    <3>. QED
      BY <2>1, <2>5, <2>9, <3>3, ExchangeOwn
  <2>10. CASE r # sends
    <3>1. \A j \in 1..Len(msgs) : msgs[j].rid # sends
      BY <2>3, <2>4, <2>5, <2>6, <2>10
    <3>2. \A q \in Rids : q = sends \/ q > sends \/ q \in closed => parts'[q] = parts[q]
      BY <1>0, <2>1, <2>3, <2>8, <2>10
    <3>. QED
      BY <2>1, <2>5, <2>7, <3>1, <3>2, ExchangeOther
  <2>. QED
    BY <2>9, <2>10
<1>3. ASSUME NEW r \in Rids, r \notin closed, NEW t \in {"done", "error"}, NEW c \in Codes,
             NEW b \in BOOLEAN, Deliver(<<Answer(r, t, c, b, 0)>>, TRUE), t = "done" => dumpReq[r],
             closed' = closed \union {r}, UNCHANGED <<client, dumpReq, parts>>
      PROVE  Exchange'
  <2>. DEFINE m == Answer(r, t, c, b, 0)
              msgs == <<m>>
  <2>1. r <= sends /\ m \in Message /\ m.rid = r /\ m.type = t /\ (r = sends => Ours(m))
    BY <1>0, <1>1, <1>3
  <2>. HIDE DEF m
  <2>2. msgs \in Seq(Message) /\ Len(msgs) = 0 + 1 /\ msgs[1] = m /\ msgs[0 + 1] = m
    BY <2>1
  <2>3. \A j \in 1..(0 + 1) : msgs[j] = m
    BY <2>2
  <2>4. Deliver(msgs, TRUE)
    BY <1>3 DEF m
  <2>5. closed \subseteq closed' /\ closed' \subseteq Rids /\ r \in closed'
    BY <1>0, <1>3
  <2>. HIDE DEF msgs
  <2>6. CASE r = sends
    <3>1. \A j \in 1..(0 + 1) : /\ msgs[j].rid = sends /\ Ours(msgs[j])
                                /\ msgs[j].type = "done" => dumpReq[sends]
      BY <1>3, <2>1, <2>3, <2>6
    <3>2. parts'[sends] = parts[sends] + 0
      BY <1>0, <1>3, <2>6
    <3>. QED
      <4>1. Answers(msgs, 0, 1)
        <5>1. msgs[0 + 1].type # "data" /\ sends \in closed'
          BY <1>3, <2>1, <2>2, <2>5, <2>6
        <5>2. \A q \in Rids \ {sends} : parts'[q] = parts[q]
          BY <1>3
        <5>. QED
          BY <2>2, <2>4, <2>5, <3>1, <3>2, <5>1, <5>2, 0 # 1, Zenon DEF Answers
      <4>. QED
        BY <1>3, <2>2, <2>6, <4>1, ExchangeOwn
  <2>7. CASE r # sends
    BY <1>3, <2>1, <2>2, <2>3, <2>4, <2>5, <2>7, ExchangeOther
  <2>. QED
    BY <2>6, <2>7
<1>4. ASSUME NEW r \in Rids, KernelSingle(r) PROVE Exchange'
  <2>. DEFINE m == Answer(r, "data", "fatal", FALSE, 1)
              msgs == <<m>>
  <2>1. /\ r \notin closed /\ ~ dumpReq[r] /\ parts' = [parts EXCEPT ![r] = 1]
        /\ closed' = closed \union {r} /\ Deliver(msgs, TRUE) /\ UNCHANGED <<client, dumpReq>>
    BY <1>4 DEF KernelSingle, Serves
  <2>2. r <= sends /\ m \in Message /\ m.rid = r /\ m.type = "data" /\ m.idx = 1 /\ (r = sends => Ours(m))
    BY <1>0, <1>1, <2>1
  <2>. HIDE DEF m
  <2>3. msgs \in Seq(Message) /\ Len(msgs) = 1 + 0 /\ msgs[1] = m /\ \A j \in 1..(1 + 0) : msgs[j] = m
    BY <2>2
  <2>4. closed \subseteq closed' /\ closed' \subseteq Rids /\ r \in closed'
    BY <1>0, <2>1
  <2>5. parts'[r] = 1 /\ \A q \in Rids \ {r} : parts'[q] = parts[q]
    BY <1>0, <2>1
  <2>. HIDE DEF msgs
  <2>6. CASE r = sends
    <3>1. pc \in {"recv", "parse"} => parts[sends] = 0
      BY <2>1, <2>6 DEF Exchange, Stored
    <3>. QED
      <4>1. Answers(msgs, 1, 0)
        <5>1. /\ \A j \in 1..(1 + 0) : /\ msgs[j].rid = sends /\ Ours(msgs[j])
                                       /\ msgs[j].type = "done" => dumpReq[sends]
              /\ msgs[1].type = "data" /\ msgs[1].idx = 1
          BY <2>2, <2>3, <2>6
        <5>2. parts'[sends] = 1 /\ (pc \in {"recv", "parse"} => 1 = parts[sends] + 1)
          BY <2>5, <2>6, <3>1
        <5>3. Len(msgs) = 1 + 0 /\ 0 # 1
          BY <2>3
        <5>7. Deliver(msgs, TRUE)
          BY <2>1
        <5>4. closed \subseteq closed' /\ closed' \subseteq Rids /\ sends \in closed'
          BY <2>4, <2>6
        <5>5. \A q \in Rids \ {sends} : parts'[q] = parts[q]
          BY <2>5, <2>6
        <5>6. pc \in {"recv", "parse"} => /\ parts'[sends] = parts[sends] + 1
                                          /\ 1 = 1 => msgs[1].idx = parts[sends] + 1
          BY <5>1, <5>2
        <5>. QED
          BY <5>1, <5>3, <5>4, <5>5, <5>6, <5>7, Zenon DEF Answers
      <4>. QED
        BY <2>1, <2>3, <2>6, <4>1, ExchangeOwn
  <2>7. CASE r # sends
    <3>1. \A q \in Rids : q = sends \/ q > sends \/ q \in closed => parts'[q] = parts[q]
      BY <1>0, <2>1, <2>2, <2>5, <2>7
    <3>. QED
      BY <2>1, <2>2, <2>3, <2>4, <2>7, <3>1, ExchangeOther
  <2>. QED
    BY <2>6, <2>7
<1>5. ASSUME NEW k \in BOOLEAN, NEW t \in {"data", "done", "error"}, Foreign(k, t) PROVE Exchange'
  <2>. DEFINE m == [pid |-> IF k THEN "other" ELSE "ours", seq |-> seq, type |-> t,
                    code |-> "fatal", intr |-> FALSE, rid |-> 0, idx |-> 0]
              msgs == <<m>>
  <2>1. Deliver(msgs, k) /\ UNCHANGED <<client, dumpReq, parts, closed>>
    BY <1>5 DEF Foreign
  <2>2. m \in Message /\ m.rid = 0
    BY <1>0 DEF Message
  <2>. HIDE DEF m
  <2>3. msgs \in Seq(Message) /\ Len(msgs) = 1 /\ \A j \in 1..Len(msgs) : msgs[j] = m
    BY <2>2
  <2>. HIDE DEF msgs
  <2>4. CASE sends = 0
    <3>1. pc \notin {"recv", "parse"}
      BY <2>4 DEF Exchange, Stored, Rids
    <3>. QED
      BY <1>0, <2>1, <3>1, ExchangeOutside
  <2>5. CASE sends # 0
    BY <1>0, <2>1, <2>2, <2>3, <2>5, ExchangeOther
  <2>. QED
    BY <2>4, <2>5
<1>6. ASSUME NEW r \in Rids, NEW b \in BOOLEAN, KernelDone(r, b) PROVE Exchange'
  BY <1>0, <1>3, <1>6 DEF KernelDone, Serves
<1>7. ASSUME NEW r \in Rids, NEW c \in Codes, KernelError(r, c) PROVE Exchange'
  BY <1>0, <1>3, <1>7 DEF KernelError
<1>. QED
  BY <1>2, <1>4, <1>5, <1>6, <1>7 DEF Outside

\* What the exchange holds and what is on its way make up the kernel's answer,
\* in every step.
LEMMA NextExchange == IInv /\ Exchange /\ [Next]_vars => Exchange'
<1>. SUFFICES ASSUME IInv, Exchange, [Next]_vars PROVE Exchange'
  OBVIOUS
<1>1. ASSUME NEW d \in BOOLEAN, StartExchange(d) PROVE Exchange'
  BY <1>1, ExchangeLeft DEF StartExchange, kernel, IInv, TypeOK, Exchange
<1>2. CASE GiveUp
  BY <1>2, ExchangeLeft DEF GiveUp, kernel, IInv, TypeOK, Exchange
<1>3. CASE SendFails
  BY <1>3, ExchangeLeft DEF SendFails, TakeSeq, kernel, IInv, TypeOK, Exchange
<1>4. CASE CheckInterrupted
  BY <1>4, ExchangeLeft DEF CheckInterrupted, kernel, IInv, TypeOK, Exchange
<1>5. ASSUME NEW c \in Codes, Fail(c), pc \in {"recv", "parse"} PROVE Exchange'
  BY <1>5, ExchangeFails
<1>6. CASE Timeout \/ (\E c \in Codes : RecvFails(c)) \/ ErrorMessage \/ OutOfMemory
  <2>1. \E c \in Codes : Fail(c) /\ pc \in {"recv", "parse"}
    <3>1. Accepts => Head(buf) \in Message /\ Head(buf).code \in Codes
      BY OursIsLast DEF Message
    <3>. QED
      BY <1>6, <3>1 DEF Timeout, RecvFails, ErrorMessage, OutOfMemory, Accepts, Codes
  <2>. QED
    BY <1>5, <2>1
<1>7. ASSUME UNCHANGED <<sends, seq, isDump, dest, buf, rx, closed, parts, dumpReq>>
      PROVE  (Stored /\ Flow => Stored' /\ Flow') /\ (Complete => Complete')
             /\ (Interrupted' <=> Interrupted)
  <2>1. \A i, j \in Nat : (Own(i, j)' <=> Own(i, j)) /\ Msg(i, j)' = Msg(i, j)
    BY <1>7 DEF Own, Held, Msg
  <2>2. Flow => Flow'
    BY <1>7, <2>1, FlowOthers
  <2>. QED
    BY <1>7, <2>2 DEF Stored, Complete, Interrupted
<1>8. CASE NextDatagram
  BY <1>7, <1>8 DEF NextDatagram, kernel, Exchange
<1>9. CASE Return
  BY <1>7, <1>9 DEF Return, kernel, Exchange
<1>10. CASE UNCHANGED vars
  BY <1>7, <1>10 DEF vars, Exchange
<1>. QED
  BY <1>1, <1>2, <1>3, <1>4, <1>6, <1>8, <1>9, <1>10, ExchangeSends, ExchangeReceives,
     ExchangeSkips, ExchangeEnds, ExchangeStores, ExchangeDelivers DEF Next, ClientStep

\* An exchange that returns 0 hands over the kernel's whole answer to its last
\* request, each part once and in order, none of them marked as interrupted,
\* whatever else the socket held (netlink.c:371-383).
THEOREM AnswerCompleteCorrect == Spec => []AnswerComplete
<1>1. Init => Exchange
  BY DEF Init, Exchange
<1>2. IInv /\ Exchange => AnswerComplete
  <2>. SUFFICES ASSUME IInv, Exchange, result = "ok" PROVE AnswerComplete
    BY DEF AnswerComplete
  <2>1. Complete /\ ~ Interrupted /\ NoMixing
    BY DEF Exchange, IInv
  <2>. QED
    BY <2>1 DEF AnswerComplete, Complete, Interrupted, NoMixing
<1>. QED
  BY <1>1, <1>2, NextExchange, Invariance, PTL DEF Spec
=============================================================================
