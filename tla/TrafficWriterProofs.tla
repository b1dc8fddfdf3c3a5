------------------------- MODULE TrafficWriterProofs -------------------------
(***************************************************************************)
(* Proofs about the traffic writer, for any number of submitters and any   *)
(* queue size: what a caller is told is true, no accepted write is         *)
(* abandoned, and a stop drains.                                           *)
(***************************************************************************)
EXTENDS TrafficWriter, TLAPS

\* Where the request of a waiting caller is: in the queue, with the writer, or done.
InQueue(c) == Queued(c) /\ doing # c /\ ~reply[c] /\ applied[c] = 0 /\ of[c] = gen
InHand(c) == doing = c /\ ~Queued(c) /\ ~reply[c] /\ applied[c] = 0 /\ of[c] = gen
Told(c) == reply[c] /\ applied[c] = 1 /\ ~Queued(c) /\ doing # c

\* What a caller knows, by where it is in submitTrafficWrite.
CallerInv(c) ==
  /\ pc[c] = "waiting" => answer[c] = "none" /\ (InQueue(c) \/ InHand(c) \/ Told(c))
  /\ pc[c] # "waiting" => ~reply[c] /\ ~Queued(c) /\ doing # c
  /\ pc[c] \in {"locking", "sending", "inline"} => applied[c] = 0 /\ answer[c] = "none"
  /\ pc[c] = "idle" => /\ answer[c] # "stopped"
                       /\ answer[c] = "done" => applied[c] = 1
                       /\ answer[c] = "full" => applied[c] = 0

\* The mutex, the package variables and the writer goroutine.
WriterInv ==
  /\ \A c \in Callers : pc[c] = "sending" <=> mu = c
  /\ \A c \in Callers : pc[c] = "sending" => set /\ ~cancelled /\ of[c] = gen
  /\ set /\ ~cancelled => wpc # "ended" /\ ~draining
  /\ ~set => wpc = "ended"
  /\ wpc = "ended" => queue = <<>>
  /\ doing # Nobody <=> wpc = "apply"
  /\ main = "stopping" => set /\ cancelled
  /\ draining => cancelled

Distinct == \A i, j \in DOMAIN queue : queue[i] = queue[j] => i = j

Inv == TypeOK /\ WriterInv /\ Distinct /\ \A c \in Callers : CallerInv(c)
-----------------------------------------------------------------------------
(* The queue.                                                              *)

\* Nobody waits in an empty queue.
LEMMA Empty ==
  /\ <<>> \in Seq(Callers) /\ Len(<<>>) = 0
  /\ queue = <<>> => Distinct /\ \A c \in Callers : ~Queued(c)
  <1>1. <<>> \in Seq(Callers) /\ Len(<<>>) = 0
    OBVIOUS
  <1>2. queue = <<>> => DOMAIN queue = {}
    OBVIOUS
  <1> QED BY <1>1, <1>2 DEF Distinct, Queued

\* A request that is sent is queued behind the others.
LEMMA Sent ==
  ASSUME TypeOK, NEW c \in Callers
  PROVE  LET q == Append(queue, c) IN
         /\ q \in Seq(Callers) /\ Len(q) = Len(queue) + 1 /\ DOMAIN q = 1..(Len(queue) + 1)
         /\ \A i \in DOMAIN q : q[i] = IF i \in DOMAIN queue THEN queue[i] ELSE c
  BY DEF TypeOK, QueueOK

\* The request that is received leaves the others queued.
LEMMA Taken ==
  ASSUME TypeOK, queue # <<>>
  PROVE  /\ Head(queue) \in Callers /\ Tail(queue) \in Seq(Callers)
         /\ Len(Tail(queue)) = Len(queue) - 1 /\ Len(queue) \in Nat /\ Len(queue) >= 1
         /\ DOMAIN queue = 1..Len(queue) /\ DOMAIN Tail(queue) = 1..(Len(queue) - 1)
         /\ Head(queue) = queue[1]
         /\ \A i \in DOMAIN Tail(queue) : Tail(queue)[i] = queue[i + 1]
  BY DEF TypeOK, QueueOK

\* Sending adds c to the queue; nobody else's request moves.
LEMMA SentQueued ==
  ASSUME Inv, NEW c \in Callers, ~Queued(c), queue' = Append(queue, c)
  PROVE  /\ Distinct' /\ Queued(c)'
         /\ \A d \in Callers \ {c} : Queued(d)' <=> Queued(d)
  <1>1. /\ DOMAIN queue' = 1..(Len(queue) + 1) /\ DOMAIN queue = 1..Len(queue) /\ Len(queue) \in Nat
        /\ \A i \in DOMAIN queue' : queue'[i] = IF i \in DOMAIN queue THEN queue[i] ELSE c
    BY Sent DEF Inv, TypeOK, QueueOK
  <1>2. Distinct'
    BY <1>1 DEF Inv, Distinct, Queued
  <1>3. Queued(c)'
    <2>1. Len(queue) + 1 \in DOMAIN queue' /\ queue'[Len(queue) + 1] = c
      BY <1>1
    <2> QED BY <2>1 DEF Queued
  <1>4. \A d \in Callers \ {c} : Queued(d)' <=> Queued(d)
    BY <1>1 DEF Queued
  <1> QED BY <1>2, <1>3, <1>4

\* Receiving takes the head out of the queue, for good.
LEMMA TakenQueued ==
  ASSUME Inv, queue # <<>>, queue' = Tail(queue), NEW h, h = Head(queue)
  PROVE  /\ Distinct' /\ ~Queued(h)' /\ Queued(h)
         /\ \A d \in Callers \ {h} : Queued(d)' <=> Queued(d)
  <1>1. /\ Len(queue) \in Nat /\ Len(queue) >= 1 /\ h = queue[1]
        /\ DOMAIN queue = 1..Len(queue) /\ DOMAIN queue' = 1..(Len(queue) - 1)
        /\ \A i \in DOMAIN queue' : queue'[i] = queue[i + 1]
    BY Taken DEF Inv
  <1>2. Distinct'
    BY <1>1 DEF Inv, Distinct
  <1>3. ~Queued(h)'
    <2> SUFFICES ASSUME NEW i \in DOMAIN queue', queue'[i] = queue[1] PROVE FALSE
      BY <1>1 DEF Queued
    <2>1. i + 1 \in DOMAIN queue /\ 1 \in DOMAIN queue /\ queue[i + 1] = queue[1] /\ i + 1 # 1
      BY <1>1
    <2> QED BY <2>1 DEF Inv, Distinct
  <1>4. Queued(h)
    BY <1>1 DEF Queued
  <1>5. ASSUME NEW d \in Callers \ {h} PROVE Queued(d)' <=> Queued(d)
    <2>1. ASSUME NEW i \in DOMAIN queue, queue[i] = d PROVE Queued(d)'
      <3>1. i - 1 \in DOMAIN queue' /\ queue'[i - 1] = d
        BY <1>1, <2>1
      <3> QED BY <3>1 DEF Queued
    <2>2. ASSUME NEW i \in DOMAIN queue', queue'[i] = d PROVE Queued(d)
      <3>1. i + 1 \in DOMAIN queue /\ queue[i + 1] = d
        BY <1>1, <2>2
      <3> QED BY <3>1 DEF Queued
    <2> QED BY <2>1, <2>2 DEF Queued
  <1> QED BY <1>2, <1>3, <1>4, <1>5

-----------------------------------------------------------------------------
(* The invariant is inductive.                                             *)

\* Before the writer is first started nobody calls.
LEMMA InitInv == Init => Inv
  <1> SUFFICES ASSUME Init PROVE Inv
    OBVIOUS
  <1>1. Distinct /\ \A c \in Callers : ~Queued(c)
    BY Empty DEF Init
  <1>2. TypeOK
    <2>1. QueueOK
      BY Empty, WriterAssumption DEF Init, QueueOK
    <2>2. gen \in 0..MaxWriters /\ of \in [Callers -> 0..MaxWriters] /\ applied \in [Callers -> 0..1]
      BY WriterAssumption DEF Init
    <2>3. /\ pc \in [Callers -> {"idle", "locking", "sending", "waiting", "inline"}]
          /\ answer \in [Callers -> {"none", "done", "full", "stopped"}]
      BY DEF Init
    <2> QED BY <2>1, <2>2, <2>3 DEF Init, TypeOK
  <1>3. WriterInv
    BY NamesAssumption DEF Init, WriterInv
  <1>4. \A c \in Callers : CallerInv(c)
    BY <1>1, NamesAssumption DEF Init, CallerInv
  <1> QED BY <1>1, <1>2, <1>3, <1>4 DEF Inv

\* A step that leaves the queue and the writer alone changes nothing for the
\* callers it does not concern.
LEMMA Others ==
  ASSUME Inv, UNCHANGED <<queue, doing, gen>>, NEW d \in Callers,
         pc'[d] = pc[d], of'[d] = of[d], reply'[d] = reply[d], applied'[d] = applied[d],
         answer'[d] = answer[d]
  PROVE  CallerInv(d)'
  BY DEF Inv, CallerInv, InQueue, InHand, Told, Queued

\* Every step of the writer, of the main goroutine and of a submitter keeps Inv.
LEMMA NextInv == Inv /\ Next => Inv'
  <1> SUFFICES ASSUME Inv, Next PROVE Inv'
    OBVIOUS
  <1> USE WriterAssumption, NamesAssumption
  <1>1. CASE Start
    <2>1. TypeOK'
      <3>1. QueueOK'
        BY <1>1, Empty DEF Start, QueueOK
      <3>2. gen' \in 0..MaxWriters
        BY <1>1 DEF Inv, Start, TypeOK
      <3> QED BY <1>1, <3>1, <3>2 DEF Inv, Start, TypeOK, caller
    <2>3. WriterInv'
      BY <1>1 DEF Inv, Start, TypeOK, WriterInv, caller
    <2>4. Distinct' /\ \A c \in Callers : ~Queued(c)'
      <3>1. queue' = <<>> /\ DOMAIN queue' = {}
        BY <1>1 DEF Start
      <3> QED BY <3>1 DEF Distinct, Queued
    <2>2. ASSUME NEW c \in Callers PROVE CallerInv(c)'
      <3>1. queue = <<>> /\ doing = Nobody
        BY <1>1 DEF Inv, Start, WriterInv
      <3>2. CallerInv(c) /\ ~Queued(c) /\ doing # c
        BY <3>1, Empty DEF Inv
      <3>3. ~Queued(c)' /\ doing' # c
        BY <1>1, <2>4 DEF Start
      <3> QED BY <1>1, <3>2, <3>3 DEF Start, CallerInv, InQueue, InHand, Told, caller
    <2> QED BY <2>1, <2>2, <2>3, <2>4 DEF Inv
  <1>2. CASE StopBegin
    <2>1. TypeOK' /\ Distinct'
      BY <1>2 DEF Inv, StopBegin, TypeOK, QueueOK, Distinct, caller
    <2>2. WriterInv'
      BY <1>2 DEF Inv, StopBegin, TypeOK, QueueOK, WriterInv, caller
    <2>3. ASSUME NEW c \in Callers PROVE CallerInv(c)'
      BY <1>2, Others DEF StopBegin, caller
    <2> QED BY <2>1, <2>2, <2>3 DEF Inv
  <1>3. CASE StopReturn
    <2>1. TypeOK' /\ Distinct'
      BY <1>3 DEF Inv, StopReturn, TypeOK, QueueOK, Distinct, caller, writer
    <2>2. WriterInv'
      BY <1>3 DEF Inv, StopReturn, TypeOK, QueueOK, WriterInv, caller, writer
    <2>3. ASSUME NEW c \in Callers PROVE CallerInv(c)'
      BY <1>3, Others DEF StopReturn, caller, writer
    <2> QED BY <2>1, <2>2, <2>3 DEF Inv
  <1>4. CASE Take
    <2> PICK h \in Callers : h = Head(queue)
      BY <1>4, Taken DEF Take, Inv
    <2>0. queue # <<>> /\ queue' = Tail(queue) /\ doing' = h /\ doing = Nobody
      BY <1>4 DEF Take, Inv, WriterInv
    <2>1. TypeOK'
      BY <1>4, <2>0, Taken DEF Inv, Take, TypeOK, QueueOK, caller
    <2>2. WriterInv'
      BY <1>4, <2>0 DEF Inv, Take, TypeOK, QueueOK, WriterInv, caller
    <2>3. Distinct' /\ ~Queued(h)' /\ Queued(h)
      BY <2>0, TakenQueued
    <2>4. ASSUME NEW c \in Callers PROVE CallerInv(c)'
      <3>1. CallerInv(c) /\ UNCHANGED <<pc, of, reply, applied, answer, gen>>
        BY <1>4 DEF Inv, Take, caller
      <3>2. CASE c = h
        <4>1. pc[c] = "waiting" /\ InQueue(c)
          BY <2>0, <2>3, <3>1, <3>2 DEF CallerInv, InQueue, InHand, Told
        <4>2. InHand(c)'
          BY <2>0, <2>3, <3>1, <3>2, <4>1 DEF InQueue, InHand
        <4> QED BY <3>1, <4>1, <4>2 DEF CallerInv
      <3>3. CASE c # h
        <4>1. (Queued(c)' <=> Queued(c)) /\ doing' # c /\ doing # c
          BY <2>0, <3>3, TakenQueued
        <4> QED BY <3>1, <4>1 DEF CallerInv, InQueue, InHand, Told
      <3> QED BY <3>2, <3>3
    <2> QED BY <2>1, <2>2, <2>3, <2>4 DEF Inv
  <1>5. CASE Applied
    <2>0. doing \in Callers /\ InHand(doing) /\ pc[doing] = "waiting" /\ doing' = Nobody
      BY <1>5 DEF Applied, Inv, TypeOK, WriterInv, CallerInv, InQueue, Told
    <2>1. TypeOK'
      BY <1>5, <2>0 DEF Inv, Applied, TypeOK, QueueOK, InHand
    <2>2. WriterInv' /\ Distinct'
      BY <1>5 DEF Inv, Applied, TypeOK, QueueOK, WriterInv, Distinct
    <2>3. ASSUME NEW c \in Callers PROVE CallerInv(c)'
      <3>1. CallerInv(c) /\ UNCHANGED <<pc, of, answer, gen, queue>> /\ (Queued(c)' <=> Queued(c))
        BY <1>5 DEF Inv, Applied, Queued
      <3>2. CASE c = doing
        <4>1. reply'[c] /\ applied'[c] = 1
          BY <1>5, <2>0, <3>2 DEF Inv, TypeOK, Applied, InHand
        <4>2. Told(c)'
          BY <2>0, <3>1, <3>2, <4>1 DEF Told, InHand
        <4> QED BY <2>0, <3>1, <3>2, <4>2 DEF CallerInv
      <3>3. CASE c # doing
        <4>1. reply'[c] = reply[c] /\ applied'[c] = applied[c] /\ doing' # c
          BY <1>5, <2>0, <3>3 DEF Inv, TypeOK, Applied
        <4> QED BY <3>1, <3>3, <4>1 DEF CallerInv, InQueue, InHand, Told
      <3> QED BY <3>2, <3>3
    <2> QED BY <2>1, <2>2, <2>3 DEF Inv
  <1>6. CASE Drain
    <2>1. TypeOK' /\ Distinct'
      BY <1>6 DEF Inv, Drain, TypeOK, QueueOK, Distinct, caller
    <2>2. WriterInv'
      BY <1>6 DEF Inv, Drain, TypeOK, QueueOK, WriterInv, caller
    <2>3. ASSUME NEW c \in Callers PROVE CallerInv(c)'
      BY <1>6, Others DEF Drain, caller
    <2> QED BY <2>1, <2>2, <2>3 DEF Inv
  <1>7. ASSUME NEW c \in Callers, Call(c) PROVE Inv'
    <2>1. TypeOK'
      BY <1>7 DEF Inv, Call, TypeOK, QueueOK, writer
    <2>2. WriterInv' /\ Distinct'
      BY <1>7 DEF Inv, Call, TypeOK, QueueOK, WriterInv, Distinct, writer
    <2>3. ASSUME NEW d \in Callers PROVE CallerInv(d)'
      <3>1. CASE d = c
        BY <1>7, <3>1 DEF Inv, TypeOK, Call, writer, CallerInv, Queued
      <3>2. CASE d # c
        BY <1>7, <3>2, Others DEF Inv, TypeOK, Call, writer
      <3> QED BY <3>1, <3>2
    <2> QED BY <2>1, <2>2, <2>3 DEF Inv
  <1>8. ASSUME NEW c \in Callers, Submit(c) PROVE Inv'
    <2>1. TypeOK'
      <3>1. CASE set /\ ~cancelled
        <4>1. /\ mu' = c /\ pc' = [pc EXCEPT ![c] = "sending"] /\ of' = [of EXCEPT ![c] = gen]
              /\ UNCHANGED <<set, writer, queue, main, reply, applied, answer>>
          BY <1>8, <3>1 DEF Submit
        <4> QED BY <4>1 DEF Inv, TypeOK, QueueOK, writer
      <3>2. CASE ~(set /\ ~cancelled)
        <4>1. /\ pc' = [pc EXCEPT ![c] = "inline"] /\ UNCHANGED <<mu, of>>
              /\ UNCHANGED <<set, writer, queue, main, reply, applied, answer>>
          BY <1>8, <3>2 DEF Submit
        <4> QED BY <4>1 DEF Inv, TypeOK, QueueOK, writer
      <3> QED BY <3>1, <3>2
    <2>2. WriterInv' /\ Distinct'
      BY <1>8 DEF Inv, Submit, TypeOK, QueueOK, WriterInv, Distinct, writer
    <2>3. ASSUME NEW d \in Callers PROVE CallerInv(d)'
      <3>1. CASE d = c
        BY <1>8, <3>1 DEF Inv, TypeOK, Submit, writer, CallerInv, Queued
      <3>2. CASE d # c
        BY <1>8, <3>2, Others DEF Inv, TypeOK, Submit, writer
      <3> QED BY <3>1, <3>2
    <2> QED BY <2>1, <2>2, <2>3 DEF Inv
  <1>9. ASSUME NEW c \in Callers, Send(c) PROVE Inv'
    <2>0. CallerInv(c) /\ ~Queued(c) /\ doing # c /\ ~reply[c] /\ applied[c] = 0
          /\ answer[c] = "none" /\ of[c] = gen /\ set /\ ~cancelled
      BY <1>9 DEF Inv, Send, CallerInv, WriterInv
    <2>1. TypeOK'
      BY <1>9, Sent DEF Inv, Send, TypeOK, QueueOK, writer
    <2>2. WriterInv'
      BY <1>9, <2>0 DEF Inv, Send, TypeOK, QueueOK, WriterInv, writer
    <2>3. Distinct' /\ Queued(c)' /\ \A d \in Callers \ {c} : Queued(d)' <=> Queued(d)
      BY <1>9, <2>0, SentQueued DEF Send
    <2>4. ASSUME NEW d \in Callers PROVE CallerInv(d)'
      <3>1. CASE d = c
        BY <1>9, <2>0, <2>3, <3>1 DEF Inv, TypeOK, Send, writer, CallerInv, InQueue
      <3>2. CASE d # c
        <4>1. CallerInv(d) /\ pc'[d] = pc[d] /\ (Queued(d)' <=> Queued(d))
              /\ UNCHANGED <<of, reply, applied, answer, doing, gen>>
          BY <1>9, <2>3, <3>2 DEF Inv, TypeOK, Send, writer
        <4> QED BY <4>1 DEF CallerInv, InQueue, InHand, Told
      <3> QED BY <3>1, <3>2
    <2> QED BY <2>1, <2>2, <2>3, <2>4 DEF Inv
  <1>10. ASSUME NEW c \in Callers, QueueFull(c) PROVE Inv'
    <2>1. TypeOK'
      BY <1>10 DEF Inv, QueueFull, Returns, TypeOK, QueueOK, writer
    <2>2. WriterInv' /\ Distinct'
      BY <1>10 DEF Inv, QueueFull, Returns, TypeOK, QueueOK, WriterInv, Distinct, writer
    <2>3. ASSUME NEW d \in Callers PROVE CallerInv(d)'
      <3>1. CASE d = c
        BY <1>10, <3>1 DEF Inv, TypeOK, QueueFull, Returns, writer, CallerInv, Queued
      <3>2. CASE d # c
        BY <1>10, <3>2, Others DEF Inv, TypeOK, QueueFull, Returns, writer
      <3> QED BY <3>1, <3>2
    <2> QED BY <2>1, <2>2, <2>3 DEF Inv
  <1>11. ASSUME NEW c \in Callers, Receive(c) \/ WriterEnded(c) PROVE Inv'
    <2>0. Told(c)
      <3>1. CallerInv(c) /\ pc[c] = "waiting"
        BY <1>11 DEF Inv, Receive, WriterEnded
      <3>2. CASE reply[c]
        BY <3>1, <3>2 DEF CallerInv, InQueue, InHand
      <3>3. CASE ~reply[c]
        <4>1. wpc = "ended" \/ of[c] < gen
          BY <1>11, <3>3 DEF Receive, WriterEnded, Ended
        <4>2. of[c] = gen /\ gen \in Nat /\ (Queued(c) \/ doing = c)
          BY <3>1, <3>3 DEF CallerInv, InQueue, InHand, Told, Inv, TypeOK
        <4>3. queue = <<>> /\ doing = Nobody
          BY <4>1, <4>2 DEF Inv, WriterInv
        <4> QED BY <4>2, <4>3 DEF Queued
      <3> QED BY <3>2, <3>3
    <2>1. /\ pc' = [pc EXCEPT ![c] = "idle"] /\ reply' = [reply EXCEPT ![c] = FALSE]
          /\ answer' = [answer EXCEPT ![c] = "done"]
          /\ UNCHANGED <<mu, set, writer, queue, main, of, applied>> /\ pc[c] = "waiting"
      BY <1>11, <2>0 DEF Receive, WriterEnded, Returns, Told
    <2>2. TypeOK'
      BY <2>1 DEF Inv, TypeOK, QueueOK, writer
    <2>3. WriterInv' /\ Distinct'
      BY <2>1 DEF Inv, TypeOK, WriterInv, Distinct, writer
    <2>4. ASSUME NEW d \in Callers PROVE CallerInv(d)'
      <3>1. CASE d = c
        BY <2>0, <2>1, <3>1 DEF Inv, TypeOK, Told, writer, CallerInv, Queued
      <3>2. CASE d # c
        BY <2>1, <3>2, Others DEF Inv, TypeOK, QueueOK, writer
      <3> QED BY <3>1, <3>2
    <2> QED BY <2>2, <2>3, <2>4 DEF Inv
  <1>12. ASSUME NEW c \in Callers, Inline(c) PROVE Inv'
    <2>1. TypeOK'
      BY <1>12 DEF Inv, Inline, Returns, TypeOK, QueueOK, writer, CallerInv
    <2>2. WriterInv' /\ Distinct'
      BY <1>12 DEF Inv, Inline, Returns, TypeOK, QueueOK, WriterInv, Distinct, writer
    <2>3. ASSUME NEW d \in Callers PROVE CallerInv(d)'
      <3>1. CASE d = c
        BY <1>12, <3>1 DEF Inv, TypeOK, Inline, Returns, writer, CallerInv, Queued
      <3>2. CASE d # c
        BY <1>12, <3>2, Others DEF Inv, TypeOK, Inline, Returns, writer
      <3> QED BY <3>1, <3>2
    <2> QED BY <2>1, <2>2, <2>3 DEF Inv
  <1> QED BY <1>1, <1>2, <1>3, <1>4, <1>5, <1>6, <1>7, <1>8, <1>9, <1>10, <1>11, <1>12 DEF Next

\* The mutex, the queue, the writer and what each caller knows agree in every
\* state of the traffic writer (submitTrafficWrite, runTrafficWriter).
THEOREM Invariant == Spec => []Inv
  <1>1. Inv /\ UNCHANGED vars => Inv'
    BY DEF vars, writer, caller, Inv, TypeOK, QueueOK, WriterInv, Distinct, CallerInv, InQueue, InHand, Told, Queued
  <1> QED BY <1>1, InitInv, NextInv, PTL DEF Spec

\* The types of the writer's state, and the bound of its queue.
THEOREM WriterTypeCorrect == Spec => []TypeOK
  <1>1. Inv => TypeOK
    BY DEF Inv
  <1> QED BY <1>1, Invariant, PTL

\* submitTrafficWrite answers "done" after the write was applied once, "queue
\* full" only when it was not applied and never will be, and never that the writer
\* stopped with the request.
THEOREM AnswersAreTrue == Spec => []AnswerIsTruth
  <1>1. Inv => AnswerIsTruth
    BY DEF Inv, AnswerIsTruth, CallerInv, TypeOK
  <1> QED BY <1>1, Invariant, PTL

\* StopTrafficWriter returns only when everything accepted is written.
THEOREM StopHasDrained == Spec => StopDrains
  <1> DEFINE A == main = "stopping" /\ main' = "idle" =>
                    queue = <<>> /\ doing = Nobody
                    /\ \A c \in Callers : pc[c] = "waiting" => reply[c]
  <1>1. Inv /\ [Next]_vars => [A]_vars
    <2> SUFFICES ASSUME Inv, Next, main = "stopping", main' = "idle" PROVE A
      BY DEF vars
    <2>1. StopReturn
      BY DEF Next, Start, StopBegin, StopReturn, Take, Applied, Drain, Call, Submit, Send,
             QueueFull, Receive, WriterEnded, Inline
    <2>2. queue = <<>> /\ doing = Nobody
      BY <2>1 DEF StopReturn, Inv, WriterInv
    <2>3. \A c \in Callers : ~Queued(c) /\ doing # c
      BY <2>2, Empty, NamesAssumption
    <2> QED BY <2>2, <2>3 DEF Inv, CallerInv, InQueue, InHand, Told
  <1> QED BY <1>1, Invariant, PTL DEF Spec, StopDrains
=============================================================================
