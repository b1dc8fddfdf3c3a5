------------------------------ MODULE NodeAgent ------------------------------
(***************************************************************************)
(* The leaf node: Node in src/internal/node/node.go, the agent that serves *)
(* a master's commands, samples the traffic counters of the Xray process   *)
(* and keeps its state on disk.  Commands, the sampling loop, Restart and  *)
(* the shutdown exclude each other by one mutex; between the steps the     *)
(* holder of the mutex takes, accounts use the core, time passes, the core *)
(* dies, and the agent itself may be killed.                               *)
(*                                                                         *)
(* One inbound is modelled.  The engine behaves as CoreResults says (which *)
(* NodeCore implements) and a save is one step, done, refused or in doubt  *)
(* (DurableRegister, which NodeStore implements).  Up and Down are one     *)
(* number.  Cross-node totals are left to the model of State.              *)
(***************************************************************************)
EXTENDS CoreResults, Integers

CONSTANTS
  Inbound,       \* the key of the inbound's own counter, quota and expiry
  Quota,         \* Total of each key, 0 for none
  Terms,         \* expiry times a command may set: 0 never, < 0 from first use
  MaxTraffic,    \* bound: units of traffic in a behaviour
  MaxTime        \* bound: the clock

Keys == Accounts \cup {Inbound}
Zero == [k \in Keys |-> 0]

ASSUME AgentAssumption ==
  /\ Inbound \notin Accounts
  /\ Quota \in [Keys -> Nat]
  /\ Terms \subseteq Int /\ 0 \in Terms
  /\ MaxTraffic \in Nat /\ MaxTime \in Nat

VARIABLES
  now,      \* the clock
  state,    \* n.state
  base,     \* n.baseline
  halted,   \* n.halted
  eng,      \* n.engine
  cnt,      \* the counters of the running Xray process
  disk,     \* the state file
  pc,       \* what the holder of n.mu does next; "free" when nobody holds it
  job,      \* the operation a sample is part of
  next,     \* the holder's local copy of the state it is about to install
  vals,     \* the counters the holder has read
  prior,    \* transaction's oldLive
  loop,     \* Run: at its select, waiting to recover the core, or returned
  ctx,      \* Run has been asked to stop
  served,   \* history: what each key has really used
  lost      \* history: what was used and will never be credited

vars == <<now, state, base, halted, eng, cnt, disk, pc, job, next, vals, prior,
          loop, ctx, served, lost>>

Places == {"down", "bootSave", "bootApply", "free", "sampleApply", "sampleSave", "edit",
           "txnApply", "txnSave", "txnUndo", "restart", "stopping", "stopSave"}
Jobs == {"none", "tick", "edit", "restart", "stop"}

locals == <<job, next, vals, prior>>
run == <<loop, ctx>>
env == <<now, served>>

-----------------------------------------------------------------------------
(* State and what follows from it.                                         *)

States == [skel : Skeletons,             \* NoInbounds when there is no inbound
           clients : SUBSET Accounts,    \* accounts configured, which have a Traffic
           on    : [Keys -> BOOLEAN],    \* Enable
           used  : [Keys -> Nat],        \* Up + Down
           until : [Keys -> Int],        \* ExpiryTime
           running : BOOLEAN,            \* the unclean-stop marker
           paid  : [Keys -> Nat]]        \* history: cleared by resets and deletions

Fresh == [skel |-> NoInbounds, clients |-> {}, on |-> [k \in Keys |-> TRUE],
          used |-> Zero, until |-> Zero, running |-> FALSE, paid |-> Zero]

\* The keys whose counters the state keeps.
Known(s) == s.clients \cup (IF s.skel = NoInbounds THEN {} ELSE {Inbound})

Expired(s, k) == s.until[k] > 0 /\ s.until[k] <= now
Exhausted(s, k) == Expired(s, k) \/ (Quota[k] > 0 /\ s.used[k] >= Quota[k])

\* desired(): the configuration the core should serve.
Desired(s) ==
  IF s.skel = NoInbounds \/ ~s.on[Inbound] \/ Exhausted(s, Inbound) THEN Blank
  ELSE [skel |-> s.skel,
        users |-> {u \in s.clients : s.on[u] /\ ~Exhausted(s, u)}]

\* Counter progress from b to v; a counter that went back has been reset.
Delta(v, b) == [k \in Keys |-> IF v[k] < b[k] THEN v[k] ELSE v[k] - b[k]]

\* The state with counter progress d credited, first use started, and what is
\* exhausted switched off.
Credited(s, d) ==
  LET u == [s EXCEPT
              !.used  = [k \in Keys |-> IF k \in Known(s) THEN @[k] + d[k] ELSE @[k]],
              !.until = [k \in Keys |->
                           IF k \in s.clients /\ d[k] > 0 /\ @[k] < 0 THEN now - @[k] ELSE @[k]]]
  IN [u EXCEPT !.on = [k \in Keys |-> @[k] /\ ~(k \in Known(s) /\ Exhausted(u, k))]]

-----------------------------------------------------------------------------
(* History: where every unit of traffic is.                                *)

Sampling == pc \in {"sampleApply", "sampleSave"}

\* Used in the running process after the counters that count were read.
Tail == [k \in Keys |-> IF ~eng.up THEN 0
                        ELSE IF eng.fresh THEN cnt[k]
                        ELSE cnt[k] - (IF Sampling THEN vals[k] ELSE base[k])]

\* Read and not yet credited.
Read == [k \in Keys |-> IF Sampling THEN vals[k] - base[k] ELSE 0]

Plus(f, g) == [k \in Keys |-> f[k] + g[k]]
Account(s) == Plus(s.used, s.paid)

Init ==
  /\ now = 0 /\ state = Fresh /\ base = Zero /\ halted = FALSE
  /\ eng = [up |-> FALSE, cfg |-> Blank, memo |-> Blank, fresh |-> FALSE]
  /\ cnt = Zero /\ disk = Fresh /\ pc = "down" /\ job = "none" /\ next = Fresh
  /\ vals = Zero /\ prior = Blank /\ loop = "select" /\ ctx = FALSE
  /\ served = Zero /\ lost = Zero

-----------------------------------------------------------------------------
(* Pieces of steps.                                                        *)

\* What Apply(c) may come back with.
Applied(e, c) == UNION {MayBeDead(r) : r \in ApplyResults(e, c)}

\* The engine ends up as r says; a process that ended took its tail with it.
EngineIs(r) ==
  /\ eng' = r.eng
  /\ IF r.kept /\ r.eng.up THEN UNCHANGED <<cnt, lost>>
     ELSE cnt' = Zero /\ lost' = Plus(lost, Tail)

\* The same, followed by resetGeneration().
EngineIsSeen(r) ==
  /\ EngineIs([r EXCEPT !.eng.fresh = FALSE])
  /\ base' = IF r.eng.fresh THEN Zero ELSE base

\* engine.Stop().
EngineStops == EngineIs(Result(Stopped(eng), TRUE, FALSE))

\* What a save of s may leave on disk when it fails: a plain error leaves the
\* old state, an ErrDurability either.
SaveDoubt(s) == disk' \in {disk, s}

\* The holder's locals are gone; it goes on at l ("free": releases the mutex).
GoOn(l) == pc' = l /\ job' = "none" /\ next' = Fresh /\ vals' = Zero /\ prior' = Blank

\* Mutant of AfterSample: the caller goes on even after a tick.
AfterSampleOn(j, ok) ==
  GoOn(CASE j = "stop" -> "stopping" [] ok -> j [] OTHER -> "free")

\* Where the operation j goes on after its sample.
AfterSample(j, ok) ==
  GoOn(CASE j = "stop" -> "stopping"
         [] j \in {"edit", "restart"} /\ ok -> j
         [] OTHER -> "free")

-----------------------------------------------------------------------------
(* sampleLocked.                                                           *)

\* Mutant of CurrentBase: resetGeneration is not called.
StaleBase == base

\* The baseline once resetGeneration has looked at the engine.
CurrentBase == IF eng.fresh THEN Zero ELSE base

\* Counters of keys the state does not know are read and dropped.
Dropped(v, b) == [k \in Keys |-> IF k \in Known(state) THEN 0 ELSE v[k] - b[k]]

\* The counters are read; nothing to change means that the sample is over.
SampleBegin(j) ==
  /\ eng' = [eng EXCEPT !.fresh = FALSE]
  /\ LET n == Credited(state, Delta(cnt, CurrentBase)) IN
     IF n = state
     THEN /\ base' = cnt /\ lost' = Plus(lost, Dropped(cnt, CurrentBase))
          /\ AfterSample(j, TRUE)
     ELSE /\ pc' = "sampleApply" /\ job' = j /\ next' = n /\ vals' = cnt
          /\ base' = CurrentBase /\ UNCHANGED <<lost, prior>>
  /\ UNCHANGED <<state, halted, cnt, disk, loop, ctx, env>>

SampleUnread(j) ==
  /\ eng' = [eng EXCEPT !.fresh = FALSE] /\ base' = CurrentBase
  /\ AfterSample(j, FALSE)
  /\ UNCHANGED <<state, halted, cnt, disk, loop, ctx, lost, env>>

Sample(j) == SampleBegin(j) \/ SampleUnread(j)

\* Mutant of SampleApply: the configuration is derived before the credit.
SampleApplyOld ==
  /\ pc = "sampleApply"
  /\ \E r \in Applied(eng, Desired(state)) :
       IF r.ok THEN EngineIs(r) /\ pc' = "sampleSave" /\ UNCHANGED locals
       ELSE /\ eng' = r.eng /\ cnt' = Zero /\ lost' = Plus(lost, Plus(Tail, Read))
            /\ AfterSample(job, FALSE)
  /\ UNCHANGED <<state, base, halted, disk, run, env>>

\* On an error the traffic just read is forgotten; if the engine was restarted
\* on the way its counters are gone too.
SampleApply ==
  /\ pc = "sampleApply"
  /\ \E r \in Applied(eng, Desired(next)) :
       IF r.ok THEN EngineIs(r) /\ pc' = "sampleSave" /\ UNCHANGED locals
       ELSE /\ eng' = r.eng /\ cnt' = Zero /\ lost' = Plus(lost, Plus(Tail, Read))
            /\ AfterSample(job, FALSE)
  /\ UNCHANGED <<state, base, halted, disk, run, env>>

\* Mutant of SampleSaved: the baseline is not advanced.
SampleSavedStale ==
  /\ pc = "sampleSave"
  /\ disk' = next /\ state' = next
  /\ lost' = Plus(lost, Dropped(vals, base))
  /\ AfterSample(job, TRUE)
  /\ UNCHANGED <<base, eng, halted, cnt, run, env>>

SampleSaved ==
  /\ pc = "sampleSave"
  /\ disk' = next /\ state' = next
  /\ base' = IF eng.fresh THEN Zero ELSE vals
  /\ eng' = [eng EXCEPT !.fresh = FALSE]
  /\ lost' = Plus(lost, Dropped(vals, base))
  /\ AfterSample(job, TRUE)
  /\ UNCHANGED <<halted, cnt, run, env>>

\* Mutant of SampleUnsaved: the node carries on after a failed checkpoint.
SampleUnsavedOn ==
  /\ pc = "sampleSave"
  /\ SaveDoubt(next) /\ AfterSample(job, FALSE)
  /\ UNCHANGED <<state, base, eng, cnt, halted, run, env, lost>>

SampleUnsaved ==
  /\ pc = "sampleSave"
  /\ SaveDoubt(next) /\ halted' = TRUE
  /\ eng' = Stopped(eng) /\ cnt' = Zero /\ lost' = Plus(lost, Plus(Tail, Read))
  /\ AfterSample(job, FALSE)
  /\ UNCHANGED <<state, base, run, env>>

-----------------------------------------------------------------------------
(* What commands make of the state, SyncClients included.                  *)

\* Keys that start over: their usage is cleared and they are enabled.
Cleared(s, K) == [s EXCEPT !.used = [k \in Keys |-> IF k \in K THEN 0 ELSE @[k]],
                           !.paid = [k \in Keys |-> IF k \in K THEN @[k] + s.used[k] ELSE @[k]]]
Renewed(s, K) == [Cleared(s, K) EXCEPT !.on = [k \in Keys |-> @[k] \/ k \in K]]

\* Traffic of accounts that no inbound lists any more is deleted.
Without(s, K) ==
  [Renewed(s, K) EXCEPT !.clients = @ \ K,
                        !.until = [k \in Keys |-> IF k \in K THEN 0 ELSE @[k]]]

\* A new inbound, or one replaced, with accounts C, switches f and expiries t as
\* the payload lists them.
Replaced(s, C, x, f, t) ==
  [Without(s, s.clients \ C) EXCEPT
     !.skel = x, !.clients = C,
     !.on = [k \in Keys |-> IF k \in C \cup {Inbound} THEN f[k] ELSE @[k]],
     !.until = [k \in Keys |-> IF k \in C \cup {Inbound} THEN t[k] ELSE @[k]]]
Expiries(C) == {t \in [C \cup {Inbound} -> Terms] : t[Inbound] >= 0}
PutInbound(s) ==
  UNION {UNION {UNION {{Replaced(s, C, x, f, t) : f \in [C \cup {Inbound} -> BOOLEAN]}
                       : t \in Expiries(C)}
                : C \in SUBSET Accounts} : x \in Skeletons \ {NoInbounds}}

DeleteInbound(s) == {[Without(s, s.clients \cup {Inbound}) EXCEPT !.skel = NoInbounds]}

\* ChangeClient "add" and "update" both end with the account as requested.
Entered(s, u, b, t) == [s EXCEPT !.clients = @ \cup {u}, !.on[u] = b, !.until[u] = t]
PutClient(s) ==
  IF s.skel = NoInbounds THEN {}
  ELSE UNION {UNION {{Entered(s, u, b, t) : u \in Accounts} : b \in BOOLEAN} : t \in Terms}

DeleteClient(s) == {Without(s, {u}) : u \in s.clients}

\* Resets of accounts, one or in bulk, and of the inbound.
ResetTraffic(s) == {Renewed(s, K) : K \in SUBSET s.clients} \cup {Cleared(s, {Inbound})}

Commands(s) == PutInbound(s) \cup DeleteInbound(s) \cup PutClient(s)
                 \cup DeleteClient(s) \cup ResetTraffic(s)

-----------------------------------------------------------------------------
(* transaction.                                                            *)

BeginEdit ==
  /\ pc = "free" /\ loop # "returned" /\ ~halted
  /\ IF eng.up THEN Sample("edit")
     ELSE GoOn("edit") /\ UNCHANGED <<state, base, halted, eng, cnt, disk, run, env, lost>>

\* The command is refused, or changes nothing, or is about to be applied.
Edit ==
  /\ pc = "edit"
  /\ \/ GoOn("free")
     \/ \E n \in Commands(state) \ {state} :
          pc' = "txnApply" /\ next' = n /\ prior' = Desired(state) /\ UNCHANGED <<job, vals>>
  /\ UNCHANGED <<state, base, halted, eng, cnt, disk, run, env, lost>>

TxnApply ==
  /\ pc = "txnApply"
  /\ \E r \in Applied(eng, Desired(next)) :
       /\ EngineIsSeen(r)
       /\ IF r.ok THEN pc' = "txnSave" /\ UNCHANGED locals ELSE GoOn("free")
  /\ UNCHANGED <<state, halted, disk, run, env>>

TxnSaved ==
  /\ pc = "txnSave"
  /\ disk' = next /\ state' = next /\ GoOn("free")
  /\ UNCHANGED <<base, halted, eng, cnt, run, env, lost>>

TxnInDoubt ==
  /\ pc = "txnSave"
  /\ SaveDoubt(next) /\ halted' = TRUE /\ EngineStops /\ GoOn("free")
  /\ UNCHANGED <<state, base, run, env>>

TxnUnsaved ==
  /\ pc = "txnSave" /\ pc' = "txnUndo"
  /\ UNCHANGED <<state, base, halted, eng, cnt, disk, locals, run, env, lost>>

TxnUndo ==
  /\ pc = "txnUndo"
  /\ \E r \in Applied(eng, prior) :
       IF r.ok THEN EngineIsSeen(r)
       ELSE EngineIs([r EXCEPT !.eng = Stopped(r.eng)]) /\ UNCHANGED base
  /\ GoOn("free")
  /\ UNCHANGED <<state, halted, disk, run, env>>

-----------------------------------------------------------------------------
(* Restart.                                                                *)

BeginRestart ==
  /\ pc = "free" /\ loop # "returned" /\ ~halted
  /\ IF eng.up THEN Sample("restart")
     ELSE GoOn("restart") /\ UNCHANGED <<state, base, halted, eng, cnt, disk, run, env, lost>>

RestartCore ==
  /\ pc = "restart"
  /\ \E r \in Applied(Stopped(eng), Desired(state)) : EngineIsSeen(r)
  /\ GoOn("free")
  /\ UNCHANGED <<state, halted, disk, run, env>>

-----------------------------------------------------------------------------
(* Run.                                                                    *)

\* A tick or a core event; a halted node ignores them.
Tick ==
  /\ loop = "select" /\ pc = "free" /\ ~halted /\ eng.up
  /\ Sample("tick")

\* Mutant of FindDead: only running cores are looked after.
FindDeadLater ==
  /\ loop = "select" /\ pc = "free" /\ ~halted /\ eng.up
  /\ loop' = "waiting"
  /\ UNCHANGED <<state, base, halted, eng, cnt, disk, pc, locals, ctx, env, lost>>

\* The core is found dead: the mutex is released for the time of the backoff.
FindDead ==
  /\ loop = "select" /\ pc = "free" /\ ~halted /\ ~eng.up
  /\ loop' = "waiting"
  /\ UNCHANGED <<state, base, halted, eng, cnt, disk, pc, locals, ctx, env, lost>>

\* The backoff is over: the mutex is taken again and the core started.
Recover ==
  /\ loop = "waiting" /\ pc = "free"
  /\ loop' = "select"
  /\ \E r \in Applied(eng, Desired(state)) :
       IF r.ok THEN EngineIsSeen(r) ELSE EngineIs(r) /\ UNCHANGED base
  /\ UNCHANGED <<state, halted, disk, pc, locals, ctx, env>>

StopWaiting ==
  /\ loop = "waiting" /\ ctx /\ loop' = "select"
  /\ UNCHANGED <<state, base, halted, eng, cnt, disk, pc, locals, ctx, env, lost>>

BeginStop ==
  /\ loop = "select" /\ ctx /\ pc = "free"
  /\ IF eng.up THEN Sample("stop")
     ELSE GoOn("stopping") /\ UNCHANGED <<state, base, halted, eng, cnt, disk, run, env, lost>>

\* Mutant of StopCore: a halted node ignores the request to stop.
StopCoreHalted ==
  /\ pc = "stopping"
  /\ EngineStops
  /\ IF halted THEN pc' = "free" /\ UNCHANGED <<state, loop>>
     ELSE pc' = "stopSave" /\ state' = [state EXCEPT !.running = FALSE] /\ UNCHANGED loop
  /\ UNCHANGED <<base, halted, disk, locals, ctx, env>>

StopCore ==
  /\ pc = "stopping"
  /\ EngineStops
  /\ IF halted THEN pc' = "free" /\ loop' = "returned" /\ UNCHANGED state
     ELSE pc' = "stopSave" /\ state' = [state EXCEPT !.running = FALSE] /\ UNCHANGED loop
  /\ UNCHANGED <<base, halted, disk, locals, ctx, env>>

StopSave ==
  /\ pc = "stopSave"
  /\ SaveDoubt(state) /\ pc' = "free" /\ loop' = "returned"
  /\ UNCHANGED <<state, base, halted, eng, cnt, locals, ctx, env, lost>>

-----------------------------------------------------------------------------
(* New, and the end of the process.                                        *)

\* The process is gone and the core with it; only the disk is left.
Down ==
  /\ GoOn("down") /\ state' = Fresh /\ base' = Zero /\ halted' = FALSE
  /\ eng' = [up |-> FALSE, cfg |-> Blank, memo |-> Blank, fresh |-> FALSE]
  /\ cnt' = Zero /\ loop' = "select" /\ ctx' = FALSE /\ lost' = Zero
  /\ UNCHANGED env

\* Mutant of Boot: the marker is left as it was.
BootUnmarked ==
  /\ pc = "down" /\ pc' = "bootSave"
  /\ state' = disk
  /\ lost' = [k \in Keys |-> served[k] - Account(disk)[k]]
  /\ UNCHANGED <<base, halted, eng, cnt, disk, locals, run, env>>

\* The state is loaded and marked running; what it does not account for by now
\* never will be.
Boot ==
  /\ pc = "down" /\ pc' = "bootSave"
  /\ state' = [disk EXCEPT !.running = TRUE]
  /\ lost' = [k \in Keys |-> served[k] - Account(disk)[k]]
  /\ UNCHANGED <<base, halted, eng, cnt, disk, locals, run, env>>

BootSave ==
  /\ pc = "bootSave"
  /\ \/ disk' = state /\ pc' = "bootApply"
        /\ UNCHANGED <<state, base, halted, eng, cnt, locals, run, env, lost>>
     \/ SaveDoubt(state) /\ Down

BootApply ==
  /\ pc = "bootApply"
  /\ \E r \in Applied(eng, Desired(state)) :
       \/ /\ r.ok /\ EngineIsSeen(r) /\ pc' = "free"
          /\ UNCHANGED <<state, halted, disk, locals, run, env>>
       \/ ~r.ok /\ Down /\ UNCHANGED disk

Exit == loop = "returned" /\ pc = "free" /\ Down /\ UNCHANGED disk

-----------------------------------------------------------------------------
(* The environment.                                                        *)

\* An account uses the core: one that it admits, or, once removed by a hot
\* update, one whose connection is still open.
Use(u) ==
  /\ eng.up /\ served[Inbound] < MaxTraffic
  /\ u \in eng.cfg.users \/ cnt[u] > 0
  /\ LET more(f) == [k \in Keys |-> IF k \in {u, Inbound} THEN f[k] + 1 ELSE f[k]]
     IN cnt' = more(cnt) /\ served' = more(served)
  /\ UNCHANGED <<now, state, base, halted, eng, disk, pc, locals, run, lost>>

PassTime ==
  /\ now < MaxTime /\ now' = now + 1
  /\ UNCHANGED <<state, base, halted, eng, cnt, disk, pc, locals, run, served, lost>>

CoreDies ==
  /\ eng.up /\ EngineStops
  /\ UNCHANGED <<state, base, halted, disk, pc, locals, run, env>>

\* The agent is killed; the kernel kills the core with it.
Killed == pc # "down" /\ Down /\ UNCHANGED disk

Terminate ==
  /\ pc \notin {"down", "bootSave", "bootApply"} /\ ~ctx /\ ctx' = TRUE
  /\ UNCHANGED <<state, base, halted, eng, cnt, disk, pc, locals, loop, env, lost>>

-----------------------------------------------------------------------------

Holder == \/ SampleApply \/ SampleSaved \/ SampleUnsaved \/ Edit \/ TxnApply
          \/ TxnSaved \/ TxnInDoubt \/ TxnUnsaved \/ TxnUndo \/ RestartCore
          \/ StopCore \/ StopSave \/ BootSave \/ BootApply

Next == \/ Holder \/ BeginEdit \/ BeginRestart
        \/ Tick \/ FindDead \/ Recover \/ StopWaiting \/ BeginStop
        \/ Boot \/ Exit \/ Killed \/ Terminate
        \/ CoreDies \/ PassTime \/ \E u \in Accounts : Use(u)

Spec == Init /\ [][Next]_vars

Fairness ==
  /\ WF_vars(Holder) /\ SF_vars(FindDead)
  /\ SF_vars(BeginStop)
  /\ SF_vars(Recover /\ eng'.up)

FairSpec == Spec /\ Fairness

-----------------------------------------------------------------------------
(* Properties.                                                             *)

TypeOK ==
  /\ now \in 0..MaxTime /\ {state, disk, next} \subseteq States
  /\ base \in [Keys -> Nat] /\ vals \in [Keys -> Nat] /\ cnt \in [Keys -> Nat]
  /\ served \in [Keys -> Nat] /\ lost \in [Keys -> Int]
  /\ halted \in BOOLEAN /\ ctx \in BOOLEAN /\ eng \in Engines /\ prior \in Configs
  /\ pc \in Places /\ job \in Jobs
  /\ loop \in {"select", "waiting", "returned"}

(* No account and no inbound is ever charged more than it has used,        *)
(* neither in memory nor on disk nor in a state about to be installed,     *)
(* whatever is restarted, rolled back or lost: the baseline of one process *)
(* is never applied to another, and no reading is credited twice.          *)
NeverOvercharged ==
  \A k \in Keys : \A s \in {state, disk, next} : Account(s)[k] <= served[k]

(* Traffic is missing from the accounts only for a reason: the process     *)
(* that counted it ended before it was read, a sample was given up after   *)
(* its process was replaced, or the key was not configured.  Everything    *)
(* else is credited, or still in the counters beyond the baseline.         *)
Conserved ==
  pc # "down" =>
    Plus(Plus(Account(state), Read), Plus(Tail, lost)) = served

(* Whenever the core may be serving, the disk says that the last stop was  *)
(* not clean, so that a kill at any instant is noticed at the next start.  *)
UncleanIsMarked == eng.up => disk.running

(* Between operations memory and disk agree, unless the node has halted on *)
(* a storage failure or Run is over: no path commits one without the other. *)
DiskMatchesMemory ==
  (pc = "free" /\ ~halted /\ loop # "returned") => disk = state

(* A sample that is saved leaves nobody on the core whom it switched off:  *)
(* the counters are credited before the configuration is derived.          *)
SampleCutsOff ==
  [][(pc = "sampleSave" /\ state' = next /\ ~halted' /\ eng'.up /\ pc' # "down")
       => \A u \in eng'.cfg.users : u \in state'.clients /\ state'.on[u]]_vars

(* A core that died is started again, unless the node halts or stops.      *)
CoreRecovers ==
  (pc = "free" /\ ~eng.up) ~> (eng.up \/ halted \/ ctx \/ pc = "down")

(* Asked to stop, Run returns, whatever fails on the way.                  *)
StopReturns == ctx ~> (loop = "returned" \/ pc = "down")
=============================================================================
