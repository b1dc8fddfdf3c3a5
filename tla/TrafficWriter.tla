---------------------------- MODULE TrafficWriter ----------------------------
(***************************************************************************)
(* The panel's serial traffic writer, src/internal/web/service/            *)
(* traffic_writer.go: jobs and request handlers submit database writes,    *)
(* one goroutine applies them, and the main goroutine starts and stops it  *)
(* while both are running (a panel restart, SIGHUP, starts it again).      *)
(*                                                                         *)
(* The package variables are guarded by twMu.  A submitter keeps its own   *)
(* copies of the queue and of done, so of[c] is the writer it submitted    *)
(* to.  What a write does, and whether it succeeds, is left out.           *)
(***************************************************************************)
EXTENDS Naturals, Sequences

CONSTANTS
  Callers,      \* goroutines that submit writes
  QueueSize,    \* trafficWriterQueueSize
  MaxWriters    \* bound: writers started

ASSUME WriterAssumption == QueueSize \in Nat \ {0} /\ MaxWriters \in Nat

CONSTANTS Main, Nobody   \* the goroutine that starts and stops; a free mutex
ASSUME NamesAssumption == Main \notin Callers /\ Nobody \notin Callers \cup {Main}

VARIABLES
  mu,         \* who holds twMu
  set,        \* whether twQueue, twCtx, twCancel and twDone are set
  gen,        \* writers started; the current one, when set
  cancelled,  \* its context is cancelled
  wpc,        \* the writer goroutine: "ready", "apply" or "ended" (done closed)
  draining,   \* it is in its inner loop
  doing,      \* the submitter whose write it applies
  queue,      \* the requests in its channel
  main,       \* the main goroutine: "idle" or "stopping", waiting for done
  pc,         \* each submitter
  of,         \* the writer it has submitted to
  reply,      \* its req.done holds a result
  applied,    \* history: how often its write has been applied
  answer      \* history: what its last call returned

vars == <<mu, set, gen, cancelled, wpc, draining, doing, queue, main, pc, of,
          reply, applied, answer>>
writer == <<gen, cancelled, wpc, draining, doing>>
caller == <<pc, of, reply, applied, answer>>

Init ==
  /\ mu = Nobody /\ set = FALSE /\ gen = 0 /\ cancelled = FALSE
  /\ wpc = "ended" /\ draining = FALSE /\ doing = Nobody /\ queue = <<>>
  /\ main = "idle"
  /\ pc = [c \in Callers |-> "idle"] /\ of = [c \in Callers |-> 0]
  /\ reply = [c \in Callers |-> FALSE] /\ applied = [c \in Callers |-> 0]
  /\ answer = [c \in Callers |-> "none"]

\* done of writer g is closed.
Ended(g) == g < gen \/ wpc = "ended"

-----------------------------------------------------------------------------
(* StartTrafficWriter and StopTrafficWriter.                               *)

\* A writer that is still there is kept.
Start ==
  /\ mu = Nobody /\ main = "idle" /\ gen < MaxWriters
  /\ set => wpc = "ended"
  /\ set' = TRUE /\ gen' = gen + 1 /\ cancelled' = FALSE
  /\ wpc' = "ready" /\ draining' = FALSE /\ doing' = Nobody /\ queue' = <<>>
  /\ UNCHANGED <<mu, main, caller>>

\* Mutant of StopBegin: the context is not cancelled.
StopUncancelled ==
  /\ mu = Nobody /\ main = "idle" /\ set
  /\ main' = "stopping"
  /\ UNCHANGED <<mu, set, writer, queue, caller>>

StopBegin ==
  /\ mu = Nobody /\ main = "idle" /\ set
  /\ main' = "stopping" /\ cancelled' = TRUE
  /\ UNCHANGED <<mu, set, gen, wpc, draining, doing, queue, caller>>

StopReturn ==
  /\ main = "stopping" /\ wpc = "ended" /\ mu = Nobody
  /\ main' = "idle" /\ set' = FALSE
  /\ UNCHANGED <<mu, writer, queue, caller>>

-----------------------------------------------------------------------------
(* runTrafficWriter.                                                       *)

\* A request is received, by the outer select or by the drain.
Take ==
  /\ wpc = "ready" /\ queue # <<>>
  /\ wpc' = "apply" /\ doing' = Head(queue) /\ queue' = Tail(queue)
  /\ UNCHANGED <<mu, set, gen, cancelled, draining, main, caller>>

\* The write is done (or has panicked) and its submitter is told.
Applied ==
  /\ wpc = "apply" /\ wpc' = "ready" /\ doing' = Nobody
  /\ reply' = [reply EXCEPT ![doing] = TRUE]
  /\ applied' = [applied EXCEPT ![doing] = @ + 1]
  /\ UNCHANGED <<mu, set, gen, cancelled, draining, queue, main, pc, of, answer>>

\* Mutant of Drain: what is queued is left.
DrainNothing ==
  /\ wpc = "ready" /\ cancelled
  /\ wpc' = "ended"
  /\ UNCHANGED <<mu, set, gen, cancelled, draining, doing, queue, main, caller>>

\* The select picks ctx.Done, which it may do while requests are queued; the
\* inner loop ends when it finds the queue empty.
Drain ==
  /\ wpc = "ready" /\ cancelled
  /\ \/ ~draining /\ draining' = TRUE /\ wpc' = wpc
     \/ draining /\ queue = <<>> /\ wpc' = "ended" /\ UNCHANGED draining
  /\ UNCHANGED <<mu, set, gen, cancelled, doing, queue, main, caller>>

-----------------------------------------------------------------------------
(* submitTrafficWrite.                                                     *)

\* Jobs and handlers run only once the panel has started the writer (web.go:507).
Call(c) ==
  /\ gen > 0 /\ pc[c] = "idle" /\ pc' = [pc EXCEPT ![c] = "locking"]
  /\ applied' = [applied EXCEPT ![c] = 0] /\ answer' = [answer EXCEPT ![c] = "none"]
  /\ UNCHANGED <<mu, set, writer, queue, main, of, reply>>

\* Mutant of Submit: twMu is released before the request is sent.
SubmitUnlocked(c) ==
  /\ pc[c] = "locking" /\ mu = Nobody
  /\ IF set /\ ~cancelled
     THEN mu' = mu /\ pc' = [pc EXCEPT ![c] = "sending"] /\ of' = [of EXCEPT ![c] = gen]
     ELSE pc' = [pc EXCEPT ![c] = "inline"] /\ UNCHANGED <<mu, of>>
  /\ UNCHANGED <<set, writer, queue, main, reply, applied, answer>>

\* Without a writer, or with one that is stopping, the caller writes by itself;
\* otherwise it keeps the mutex until its request is queued.
Submit(c) ==
  /\ pc[c] = "locking" /\ mu = Nobody
  /\ IF set /\ ~cancelled
     THEN mu' = c /\ pc' = [pc EXCEPT ![c] = "sending"] /\ of' = [of EXCEPT ![c] = gen]
     ELSE pc' = [pc EXCEPT ![c] = "inline"] /\ UNCHANGED <<mu, of>>
  /\ UNCHANGED <<set, writer, queue, main, reply, applied, answer>>

Send(c) ==
  /\ pc[c] = "sending" /\ Len(queue) < QueueSize
  /\ queue' = Append(queue, c) /\ mu' = Nobody /\ pc' = [pc EXCEPT ![c] = "waiting"]
  /\ UNCHANGED <<set, writer, main, of, reply, applied, answer>>

Returns(c, a) == pc' = [pc EXCEPT ![c] = "idle"] /\ answer' = [answer EXCEPT ![c] = a]

\* The timer fires, which needs no full queue when the goroutine was not scheduled.
QueueFull(c) ==
  /\ pc[c] = "sending" /\ mu' = Nobody /\ Returns(c, "full")
  /\ UNCHANGED <<set, writer, queue, main, of, reply, applied>>

Receive(c) ==
  /\ pc[c] = "waiting" /\ reply[c]
  /\ reply' = [reply EXCEPT ![c] = FALSE] /\ Returns(c, "done")
  /\ UNCHANGED <<mu, set, writer, queue, main, of, applied>>

\* The select picks done, which it may do when both are ready.
WriterEnded(c) ==
  /\ pc[c] = "waiting" /\ Ended(of[c])
  /\ reply' = [reply EXCEPT ![c] = FALSE] /\ Returns(c, IF reply[c] THEN "done" ELSE "stopped")
  /\ UNCHANGED <<mu, set, writer, queue, main, of, applied>>

Inline(c) ==
  /\ pc[c] = "inline" /\ Returns(c, "done")
  /\ applied' = [applied EXCEPT ![c] = @ + 1]
  /\ UNCHANGED <<mu, set, writer, queue, main, of, reply>>

-----------------------------------------------------------------------------

Next ==
  \/ Start \/ StopBegin \/ StopReturn
  \/ Take \/ Applied \/ Drain
  \/ \E c \in Callers : \/ Call(c) \/ Submit(c) \/ Send(c) \/ QueueFull(c)
                        \/ Receive(c) \/ WriterEnded(c) \/ Inline(c)

Spec == Init /\ [][Next]_vars

\* Goroutines run, writes end, and a Go mutex is granted to who keeps waiting.
Fairness ==
  /\ WF_vars(Take \/ Drain) /\ WF_vars(Applied) /\ SF_vars(StopReturn)
  /\ \A c \in Callers : /\ SF_vars(Submit(c)) /\ WF_vars(Send(c) \/ QueueFull(c))
                        /\ WF_vars(Receive(c) \/ WriterEnded(c)) /\ WF_vars(Inline(c))

FairSpec == Spec /\ Fairness

-----------------------------------------------------------------------------
(* Properties.                                                             *)

QueueOK == queue \in Seq(Callers) /\ Len(queue) <= QueueSize

TypeOK ==
  /\ mu \in Callers \cup {Nobody} /\ set \in BOOLEAN /\ gen \in 0..MaxWriters
  /\ cancelled \in BOOLEAN /\ wpc \in {"ready", "apply", "ended"} /\ draining \in BOOLEAN
  /\ doing \in Callers \cup {Nobody} /\ QueueOK
  /\ main \in {"idle", "stopping"}
  /\ pc \in [Callers -> {"idle", "locking", "sending", "waiting", "inline"}]
  /\ of \in [Callers -> 0..MaxWriters] /\ reply \in [Callers -> BOOLEAN]
  /\ applied \in [Callers -> 0..1]
  /\ answer \in [Callers -> {"none", "done", "full", "stopped"}]

Queued(c) == \E i \in DOMAIN queue : queue[i] = c

(* What a caller is told is what happened to its write: "done" after it    *)
(* was applied exactly once, "queue full" only when it was not applied and *)
(* will not be, so that a caller that retries never counts traffic twice.  *)
(* "traffic writer stopped before write completed" is never returned: a    *)
(* request is queued under twMu before the context can be cancelled, so    *)
(* the drain finds it.                                                      *)
AnswerIsTruth ==
  \A c \in Callers :
    /\ answer[c] = "done" => applied[c] = 1
    /\ answer[c] = "full" => applied[c] = 0 /\ ~Queued(c) /\ doing # c
    /\ answer[c] # "stopped"

(* When StopTrafficWriter returns, nothing that was accepted is left       *)
(* unwritten: the database may be closed.                                  *)
StopDrains ==
  [][main = "stopping" /\ main' = "idle" =>
       queue = <<>> /\ doing = Nobody /\ \A c \in Callers : pc[c] = "waiting" => reply[c]]_vars

(* Every call comes back, across any number of stops and restarts of the   *)
(* writer, and so does StopTrafficWriter, whatever is being submitted:      *)
(* nobody waits for a consumer that is gone, or for a mutex that is kept.   *)
CallsReturn ==
  /\ \A c \in Callers : pc[c] = "locking" ~> pc[c] = "idle"
  /\ main = "stopping" ~> main = "idle"
=============================================================================
