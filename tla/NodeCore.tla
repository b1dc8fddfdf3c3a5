------------------------------- MODULE NodeCore -------------------------------
(***************************************************************************)
(* The leaf node's supervisor of the Xray process: Core in                 *)
(* src/internal/node/core.go, one process or RPC operation at a time.  The *)
(* caller holds the node's mutex, so calls do not overlap; what interleaves *)
(* with them is the Xray process, which may die at any instant, and every  *)
(* operation may fail.  A timed-out RPC may or may not have been applied.  *)
(***************************************************************************)
EXTENDS CoreResults, Naturals, FiniteSets

CONSTANTS MaxSpawns   \* bound: number of Xray processes started

ASSUME CoreAssumption == MaxSpawns \in Nat

VARIABLES
  procs,   \* the Xray processes that exist: instance number -> configuration
  alive,   \* the instances that have not exited
  cmd,     \* the instance c.cmd refers to, 0 when it is nil
  live,    \* c.live
  gen,     \* c.Generation
  seen,    \* the caller's copy of Generation (n.generation)
  pc,      \* where the call in progress stands
  target,  \* the argument of Apply
  goal,    \* the argument of restart: the target, or the copy that hot updates from
  keep,    \* Apply's copy of c.live, taken before a hot update
  undo,    \* restart's copy of c.live
  failed,  \* the call in progress has already failed once
  ok,      \* history: what the last Apply answered
  before   \* history: the engine when the call in progress began

vars == <<procs, alive, cmd, live, gen, seen, pc, target, goal, keep, undo,
          failed, ok, before>>
locals == <<target, goal, keep, undo>>

Instances == 1..MaxSpawns

CoreInit ==
  /\ procs = [i \in Instances |-> Blank] /\ alive = {} /\ cmd = 0
  /\ live = Blank /\ gen = 0 /\ seen = 0
  /\ pc = "idle" /\ target = Blank /\ goal = Blank /\ keep = Blank /\ undo = Blank
  /\ failed = FALSE /\ ok = TRUE
  /\ before = [up |-> FALSE, cfg |-> Blank, memo |-> Blank, fresh |-> FALSE]

\* The engine as its caller can see it between calls.
Serving == cmd # 0 /\ cmd \in alive
Seen == [up    |-> Serving,
         cfg   |-> IF Serving THEN procs[cmd] ELSE Blank,
         memo  |-> live,
         fresh |-> gen # seen]

\* Core.Running(): a process found dead is forgotten.
Running == Serving
Reaped == IF Running THEN cmd ELSE 0

-----------------------------------------------------------------------------
(* The operations a call is made of.                                       *)

\* Core.Stop(): the process is signalled and waited for.
Stop == /\ alive' = alive \ {cmd} /\ cmd' = 0
        /\ procs' = [i \in Instances |-> IF i = cmd THEN Blank ELSE procs[i]]

\* start(c) up to the point where the API answers.
StartOK(c) ==
  /\ gen < MaxSpawns
  /\ gen' = gen + 1 /\ cmd' = gen' /\ alive' = alive \cup {gen'}
  /\ procs' = [procs EXCEPT ![gen'] = c]
  /\ live' = c

\* start(c) failing: before the process exists (version, port, file, exec), or
\* after (it exits, or its API does not answer in time), when Stop follows.
StartFails ==
  /\ cmd' = 0
  /\ \/ gen' = gen
     \/ gen < MaxSpawns /\ gen' = gen + 1
  /\ UNCHANGED <<procs, alive, live>>

Finish(answer_) == /\ pc' = "idle" /\ ok' = answer_ /\ failed' = FALSE
                   /\ target' = Blank /\ goal' = Blank /\ keep' = Blank /\ undo' = Blank

\* The entry of restart(c).
Restart(c) == pc' = "stop" /\ goal' = c

-----------------------------------------------------------------------------
(* Apply.                                                                  *)

\* Mutant of Apply: skeletons are not compared.
ApplyHot(c) ==
  /\ pc = "idle" /\ gen + 2 <= MaxSpawns
  /\ before' = Seen /\ target' = c
  /\ cmd' = Reaped
  /\ IF Running THEN pc' = "hot" /\ keep' = live /\ UNCHANGED goal
                ELSE Restart(c) /\ UNCHANGED keep
  /\ UNCHANGED <<procs, alive, live, gen, seen, undo, failed, ok>>

\* Running() is looked at, and decides together with the skeletons.
Apply(c) ==
  /\ pc = "idle" /\ gen + 2 <= MaxSpawns
  /\ before' = Seen /\ target' = c
  /\ cmd' = Reaped
  /\ IF Running /\ live.skel = c.skel
     THEN pc' = "hot" /\ keep' = live /\ UNCHANGED goal
     ELSE Restart(c) /\ UNCHANGED keep
  /\ UNCHANGED <<procs, alive, live, gen, seen, undo, failed, ok>>

\* hot(): accounts no longer wanted are removed, wanted ones added, one RPC
\* and one update of c.live each.
Altered(c, u) == [c EXCEPT !.users = IF u \in c.users THEN @ \ {u} ELSE @ \cup {u}]
Differing == (live.users \ target.users) \cup (target.users \ live.users)

HotStep(u) ==
  /\ pc = "hot" /\ u \in Differing /\ cmd \in alive
  /\ procs' = [procs EXCEPT ![cmd] = Altered(@, u)]
  /\ live' = Altered(live, u)
  /\ UNCHANGED <<alive, cmd, gen, seen, pc, locals, failed, ok, before>>

\* Mutant of HotStepFails: the error is returned without a rebuild.
HotStepTrusted(u) ==
  /\ pc = "hot" /\ u \in Differing
  /\ \/ procs' = procs
     \/ cmd \in alive /\ procs' = [procs EXCEPT ![cmd] = Altered(@, u)]
  /\ Finish(FALSE)
  /\ UNCHANGED <<alive, cmd, live, gen, seen, before>>

HotStepFails(u) ==
  /\ pc = "hot" /\ u \in Differing
  /\ \/ procs' = procs
     \/ cmd \in alive /\ procs' = [procs EXCEPT ![cmd] = Altered(@, u)]
  /\ failed' = TRUE /\ Restart(keep)
  /\ UNCHANGED <<alive, cmd, live, gen, seen, target, keep, undo, ok, before>>

HotDone ==
  /\ pc = "hot" /\ Differing = {}
  /\ Finish(TRUE)
  /\ UNCHANGED <<procs, alive, cmd, live, gen, seen, before>>

\* Mutant of RestartStop: the old process is not stopped.
RestartNoStop ==
  /\ pc = "stop"
  /\ undo' = live /\ pc' = "start"
  /\ UNCHANGED <<procs, alive, cmd, live, gen, seen, target, goal, keep, failed, ok, before>>

\* restart(): stop, start the goal, else start what c.live says.
RestartStop ==
  /\ pc = "stop"
  /\ undo' = live /\ Stop /\ pc' = "start"
  /\ UNCHANGED <<live, gen, seen, target, goal, keep, failed, ok, before>>

StartGoal ==
  /\ pc = "start"
  /\ \/ StartOK(goal) /\ Finish(~failed)
     \/ StartFails /\ pc' = "rollback" /\ UNCHANGED <<locals, failed, ok>>
  /\ UNCHANGED <<seen, before>>

\* Mutant of StartUndo: when nothing starts, restart tries again.
StartUndoRetries ==
  /\ pc = "rollback"
  /\ \/ StartOK(undo) /\ IF failed THEN pc' = "giveup" /\ UNCHANGED <<locals, failed, ok>>
                                   ELSE Finish(FALSE)
     \/ StartFails /\ pc' = "start" /\ UNCHANGED <<locals, failed, ok>>
  /\ UNCHANGED <<seen, before>>

\* A rollback under a failed hot update is itself a failure of restart, on
\* which Apply stops the core.
StartUndo ==
  /\ pc = "rollback"
  /\ \/ StartOK(undo) /\ IF failed THEN pc' = "giveup" /\ UNCHANGED <<locals, failed, ok>>
                                   ELSE Finish(FALSE)
     \/ StartFails /\ Finish(FALSE)
  /\ UNCHANGED <<seen, before>>

\* Mutant of GiveUp: the core is not stopped after a failed rollback.
GiveUpRunning ==
  /\ pc = "giveup" /\ Finish(FALSE)
  /\ UNCHANGED <<procs, alive, cmd, live, gen, seen, before>>

GiveUp ==
  /\ pc = "giveup"
  /\ Stop /\ Finish(FALSE)
  /\ UNCHANGED <<live, gen, seen, before>>

-----------------------------------------------------------------------------
(* The caller between calls, and the process by itself.                    *)

HaltCore ==
  /\ pc = "idle" /\ Stop
  /\ UNCHANGED <<live, gen, seen, pc, locals, failed, ok, before>>

ResetGeneration ==
  /\ pc = "idle" /\ seen' = gen
  /\ UNCHANGED <<procs, alive, cmd, live, gen, pc, locals, failed, ok, before>>

Exit(i) ==
  /\ i \in alive /\ alive' = alive \ {i} /\ procs' = [procs EXCEPT ![i] = Blank]
  /\ UNCHANGED <<cmd, live, gen, seen, pc, locals, failed, ok, before>>

CoreNext ==
  \/ \E c \in Configs : Apply(c)
  \/ \E u \in Accounts : HotStep(u) \/ HotStepFails(u)
  \/ HotDone \/ RestartStop \/ StartGoal \/ StartUndo \/ GiveUp
  \/ HaltCore \/ ResetGeneration
  \/ \E i \in Instances : Exit(i)

Fairness == WF_vars(HotDone \/ RestartStop \/ StartGoal \/ StartUndo \/ GiveUp
                      \/ \E u \in Accounts : HotStep(u) \/ HotStepFails(u))

CoreSpec == CoreInit /\ [][CoreNext]_vars /\ Fairness
-----------------------------------------------------------------------------
(* Properties.                                                             *)

TypeOK ==
  /\ procs \in [Instances -> Configs] /\ alive \subseteq Instances
  /\ cmd \in 0..MaxSpawns /\ {live, target, goal, keep, undo} \subseteq Configs
  /\ gen \in 0..MaxSpawns /\ seen \in 0..MaxSpawns
  /\ pc \in {"idle", "hot", "stop", "start", "rollback", "giveup"}
  /\ failed \in BOOLEAN /\ ok \in BOOLEAN /\ before \in Engines

(* Never two Xray processes: every path that starts one has first reaped   *)
(* the one before it, so counters and ports have a single owner.           *)
OneProcess == Cardinality(alive) <= 1

(* Between calls, what Core believes the process serves is what it serves, *)
(* whichever RPC timed out on the way: hot() computes the next update from *)
(* that belief, and a wrong one would leave a removed account admitted.    *)
BeliefIsTruth == pc = "idle" /\ Serving => procs[cmd] = live

(* Apply always comes back: no combination of failures makes it loop.      *)
ApplyReturns == pc # "idle" ~> pc = "idle"

Contract == INSTANCE CoreContract WITH
  eng <- IF pc = "idle" THEN Seen ELSE before,
  call <- [busy |-> pc # "idle", next |-> target],
  answer <- ok

(* Whatever fails on the way, a call of Apply ends in one of the results   *)
(* CoreResults lists, and nothing changes between calls but by a death.    *)
ContractSpec == Contract!Spec
=============================================================================
