--------------------------- MODULE NodeCoreProofs ---------------------------
(***************************************************************************)
(* Proofs about NodeCore, for any structures, accounts and number of       *)
(* processes.                                                              *)
(*                                                                         *)
(* CoreInv is inductive.  Owner says that the process c.cmd refers to is   *)
(* the only one; Belief, that c.live is what it serves except while a      *)
(* restart is on.  The rest relates the call in progress to the engine as  *)
(* it was when the call began: a hot update (HotCall) is somewhere between *)
(* the old configuration and the new one; a restart after a failed hot     *)
(* update (Rebuilding) goes back to the old one and remembers the half-way *)
(* one; any other restart (Restarting) goes to the new one and remembers   *)
(* the old one.                                                            *)
(***************************************************************************)
EXTENDS NodeCore, FiniteSetTheorems, TLAPS

Owner ==
  /\ alive \subseteq {cmd} /\ seen <= gen
  /\ pc \in {"start", "rollback"} => alive = {} /\ cmd = 0

Belief == pc \in {"idle", "hot"} /\ cmd \in alive => procs[cmd] = live

\* Apply chose the hot update when it was called.
ChoseHot == before.up /\ before.memo.skel = target.skel

HotCall ==
  pc = "hot" => /\ ~failed /\ ChoseHot /\ keep = before.memo
                /\ live \in Between(before.memo, target)

Rebuilding ==
  failed => /\ pc \in {"stop", "start", "rollback", "giveup"}
            /\ ChoseHot /\ goal = before.memo
            /\ live \in Between(before.memo, target)
            /\ pc \in {"start", "rollback"} => undo = live

Restarting ==
  /\ pc = "giveup" => failed
  /\ pc \in {"stop", "start", "rollback"} /\ ~failed =>
       /\ ~ChoseHot /\ goal = target /\ live = before.memo
       /\ pc \in {"start", "rollback"} => undo = live

\* No start has been tried before the rollback.
Freshness ==
  /\ pc \in {"hot", "stop", "start"} => (before.fresh <=> gen # seen)
  /\ pc # "idle" /\ before.fresh => gen # seen

CoreInv == Owner /\ Belief /\ HotCall /\ Rebuilding /\ Restarting /\ Freshness
-----------------------------------------------------------------------------
(* Configurations.                                                         *)

LEMMA BlankIsConfig == Blank \in Configs
BY ResultsAssumption DEF Blank, Configs

LEMMA ConfigFields ==
  ASSUME NEW c \in Configs
  PROVE  /\ c = [skel |-> c.skel, users |-> c.users]
         /\ c.skel \in Skeletons /\ c.users \subseteq Accounts
         /\ c.skel = NoInbounds => c.users = {}
BY DEF Configs

\* A configuration in which somebody is to be changed has inbounds, and stays
\* between the old and the new one.
LEMMA AlteredStays ==
  ASSUME NEW old \in Configs, NEW next \in Configs, NEW c \in Between(old, next),
         old.skel = next.skel,
         NEW u \in (c.users \ next.users) \cup (next.users \ c.users)
  PROVE  Altered(c, u) \in Between(old, next)
<1>1. /\ c \in Configs /\ c.skel = old.skel
      /\ old.users \cap next.users \subseteq c.users /\ c.users \subseteq old.users \cup next.users
  BY DEF Between
<1>2. c.skel # NoInbounds /\ u \in Accounts
  BY <1>1, ConfigFields
<1> DEFINE new == IF u \in c.users THEN c.users \ {u} ELSE c.users \cup {u}
<1>3. Altered(c, u) = [skel |-> c.skel, users |-> new]
  <2>1. c = [skel |-> c.skel, users |-> c.users]
    BY <1>1, ConfigFields
  <2> QED  BY <2>1 DEF Altered
<1>4. new \subseteq Accounts /\ c.skel \in Skeletons
  BY <1>1, <1>2, ConfigFields
<1>5. Altered(c, u) \in Configs
  BY <1>2, <1>3, <1>4 DEF Configs
<1>6. /\ old.users \cap next.users \subseteq new
      /\ new \subseteq old.users \cup next.users
  BY <1>1
<1> QED  BY <1>1, <1>3, <1>5, <1>6 DEF Between

\* A hot update that is done has arrived.
LEMMA DoneArrives ==
  ASSUME NEW old \in Configs, NEW next \in Configs, NEW c \in Between(old, next),
         old.skel = next.skel, (c.users \ next.users) \cup (next.users \ c.users) = {}
  PROVE  c = next
<1>1. c \in Configs /\ c.skel = next.skel /\ c.users = next.users
  BY DEF Between
<1> QED  BY <1>1, ConfigFields

LEMMA SeenType ==
  ASSUME TypeOK
  PROVE  /\ Seen \in Engines
         /\ Seen = [up |-> Seen.up, cfg |-> Seen.cfg, memo |-> live, fresh |-> (gen # seen)]
BY BlankIsConfig DEF TypeOK, Seen, Serving, Engines
-----------------------------------------------------------------------------
(* The invariant, one lemma for each operation.                            *)

\* Between calls and after a process that could not start, nothing is kept.
LEMMA StepApply ==
  ASSUME TypeOK, CoreInv, NEW c \in Configs, Apply(c)
  PROVE  TypeOK' /\ CoreInv'
<1>1. before' = Seen /\ target' = c /\ pc = "idle" /\ ~failed
  BY DEF Apply, CoreInv, Rebuilding, TypeOK
<1>2. before' \in Engines /\ before'.memo = live /\ before'.fresh = (gen # seen)
      /\ before'.up = Serving
  BY <1>1, SeenType DEF Seen
<1>3. TypeOK'
  <2>1. procs' \in [Instances -> Configs] /\ alive' \subseteq Instances /\ cmd' \in 0..MaxSpawns
    BY CoreAssumption, <1>1, <1>2 DEF Apply, Reaped, Restart, TypeOK
  <2>2. {live', target', goal', keep', undo'} \subseteq Configs
    BY CoreAssumption, <1>1, <1>2 DEF Apply, Reaped, Restart, TypeOK
  <2>3. gen' \in 0..MaxSpawns /\ seen' \in 0..MaxSpawns
    BY CoreAssumption, <1>1, <1>2 DEF Apply, Reaped, Restart, TypeOK
  <2>4. pc' \in {"idle", "hot", "stop", "start", "rollback", "giveup"}
    BY CoreAssumption, <1>1, <1>2 DEF Apply, Reaped, Restart, TypeOK
  <2>5. failed' \in BOOLEAN /\ ok' \in BOOLEAN /\ before' \in Engines
    BY CoreAssumption, <1>1, <1>2 DEF Apply, Reaped, Restart, TypeOK
  <2> QED  BY <2>1, <2>2, <2>3, <2>4, <2>5 DEF TypeOK
<1>4. Owner'
  BY <1>1 DEF Apply, Reaped, Running, Serving, Restart, CoreInv, Owner, TypeOK, Instances
<1>5. CASE Running /\ live.skel = c.skel
  <2>1. pc' = "hot" /\ keep' = live /\ cmd' = cmd /\ failed' = failed /\ live' = live
    BY <1>5 DEF Apply, Reaped
  <2>2. live \in Between(live, c)
    BY <1>5 DEF Between, TypeOK
  <2>3. HotCall'
    BY <1>1, <1>2, <1>5, <2>1, <2>2 DEF HotCall, ChoseHot, Running
  <2>4. Belief'
    BY <1>1, <2>1 DEF Apply, CoreInv, Belief
  <2>5. Rebuilding' /\ Restarting'
    BY <1>1, <2>1 DEF Rebuilding, Restarting
  <2>6. Freshness'
    BY <1>2, <2>1 DEF Apply, Freshness
  <2> QED  BY <1>3, <1>4, <2>3, <2>4, <2>5, <2>6 DEF CoreInv
<1>6. CASE ~(Running /\ live.skel = c.skel)
  <2>1. pc' = "stop" /\ goal' = c /\ failed' = failed /\ live' = live
    BY <1>6 DEF Apply, Restart
  <2>2. ~ChoseHot'
    BY <1>1, <1>2, <1>6 DEF ChoseHot, Running
  <2>3. Restarting'
    BY <1>1, <1>2, <2>1, <2>2 DEF Restarting
  <2>4. Belief' /\ HotCall' /\ Rebuilding'
    BY <1>1, <2>1 DEF Belief, HotCall, Rebuilding
  <2>5. Freshness'
    BY <1>2, <2>1 DEF Apply, Freshness
  <2> QED  BY <1>3, <1>4, <2>3, <2>4, <2>5 DEF CoreInv
<1> QED  BY <1>5, <1>6

LEMMA StepHot ==
  ASSUME TypeOK, CoreInv, NEW u \in Accounts, HotStep(u)
  PROVE  TypeOK' /\ CoreInv'
<1>1. /\ pc = "hot" /\ ChoseHot /\ live \in Between(before.memo, target) /\ ~failed
      /\ before.memo \in Configs /\ target \in Configs
  BY DEF HotStep, CoreInv, HotCall, TypeOK, Engines
<1>2. Altered(live, u) \in Between(before.memo, target)
  BY <1>1, AlteredStays DEF HotStep, Differing, ChoseHot
<1>3. Altered(live, u) \in Configs
  BY <1>2 DEF Between
<1>4. cmd \in Instances /\ procs[cmd] = live
  BY <1>1 DEF HotStep, CoreInv, Belief, TypeOK
<1>5. procs' = [procs EXCEPT ![cmd] = Altered(live, u)] /\ live' = Altered(live, u)
  BY <1>4 DEF HotStep
<1>6. TypeOK'
  BY <1>3, <1>5 DEF HotStep, locals, TypeOK
<1>7. Belief'
  BY <1>4, <1>5 DEF HotStep, Belief, TypeOK
<1> QED  BY <1>1, <1>2, <1>5, <1>6, <1>7
         DEF HotStep, locals, CoreInv, Owner, HotCall, Rebuilding, Restarting, Freshness, ChoseHot

LEMMA StepHotFails ==
  ASSUME TypeOK, CoreInv, NEW u \in Accounts, HotStepFails(u)
  PROVE  TypeOK' /\ CoreInv'
<1>1. /\ pc = "hot" /\ ChoseHot /\ live \in Between(before.memo, target) /\ ~failed
      /\ keep = before.memo /\ before.memo \in Configs /\ target \in Configs
  BY DEF HotStepFails, CoreInv, HotCall, TypeOK, Engines
<1>2. Altered(live, u) \in Configs
  BY <1>1, AlteredStays DEF HotStepFails, Differing, ChoseHot, Between
<1>3. procs' \in [Instances -> Configs]
  <2>1. CASE procs' = procs
    BY <2>1 DEF TypeOK
  <2>2. CASE cmd \in alive /\ procs' = [procs EXCEPT ![cmd] = Altered(@, u)]
    <3>1. procs[cmd] = live
      BY <1>1, <2>2 DEF CoreInv, Belief
    <3> QED  BY <1>2, <2>2, <3>1 DEF TypeOK
  <2> QED  BY <2>1, <2>2 DEF HotStepFails
<1>4. pc' = "stop" /\ goal' = keep /\ failed' = TRUE
  BY DEF HotStepFails, Restart
<1>5. TypeOK'
  BY <1>3, <1>4 DEF HotStepFails, TypeOK
<1> QED  BY <1>1, <1>4, <1>5
         DEF HotStepFails, CoreInv, Owner, Belief, HotCall, Rebuilding, Restarting, Freshness, ChoseHot

LEMMA FinishType ==
  ASSUME NEW a \in BOOLEAN, Finish(a)
  PROVE  /\ pc' = "idle" /\ ok' = a /\ failed' = FALSE /\ target' = Blank
         /\ {target', goal', keep', undo'} \subseteq Configs
BY BlankIsConfig DEF Finish

LEMMA StepHotDone ==
  ASSUME TypeOK, CoreInv, HotDone
  PROVE  TypeOK' /\ CoreInv'
<1>1. /\ pc = "hot" /\ pc' = "idle" /\ ok' = TRUE /\ failed' = FALSE
      /\ {target', goal', keep', undo'} \subseteq Configs
  BY FinishType DEF HotDone
<1>2. TypeOK'
  BY <1>1 DEF HotDone, TypeOK
<1> QED  BY <1>1, <1>2
         DEF HotDone, CoreInv, Owner, Belief, HotCall, Rebuilding, Restarting, Freshness

\* Stop leaves no process.
LEMMA StopStops ==
  ASSUME TypeOK, Owner, Stop
  PROVE  alive' = {} /\ cmd' = 0 /\ procs' \in [Instances -> Configs]
BY BlankIsConfig DEF TypeOK, Owner, Stop

LEMMA StepRestartStop ==
  ASSUME TypeOK, CoreInv, RestartStop
  PROVE  TypeOK' /\ CoreInv'
<1>1. alive' = {} /\ cmd' = 0 /\ procs' \in [Instances -> Configs]
  BY StopStops DEF RestartStop, CoreInv
<1>2. TypeOK'
  BY CoreAssumption, <1>1 DEF RestartStop, TypeOK
<1> QED  BY <1>1, <1>2
         DEF RestartStop, CoreInv, Owner, Belief, HotCall, Rebuilding, Restarting, Freshness,
             ChoseHot, TypeOK

\* A start that succeeds: the new process is the only one and serves c.
LEMMA StartedOne ==
  ASSUME TypeOK, Owner, pc \in {"start", "rollback"}, NEW c \in Configs, StartOK(c)
  PROVE  /\ alive' = {cmd'} /\ cmd' \in Instances /\ procs' \in [Instances -> Configs]
         /\ procs'[cmd'] = c /\ live' = c /\ gen' = gen + 1 /\ gen' \in 0..MaxSpawns
         /\ cmd' \in 0..MaxSpawns /\ cmd' # 0 /\ seen <= gen' /\ gen' # seen
<1>1. gen \in Nat /\ seen \in Nat /\ gen + 1 \in Instances /\ alive = {} /\ seen <= gen
  BY CoreAssumption DEF TypeOK, Owner, StartOK, Instances
<1>2. gen' = gen + 1 /\ cmd' = gen + 1 /\ alive' = {gen + 1} /\ live' = c
  BY <1>1 DEF StartOK
<1>3. procs' = [procs EXCEPT ![gen + 1] = c]
  BY DEF StartOK
<1>4. procs' \in [Instances -> Configs] /\ procs'[gen + 1] = c
  BY <1>1, <1>3 DEF TypeOK
<1> QED  BY <1>1, <1>2, <1>4 DEF Instances

\* A start that fails leaves no process, and perhaps a new generation.
LEMMA StartedNone ==
  ASSUME TypeOK, Owner, pc \in {"start", "rollback"}, StartFails
  PROVE  /\ alive' = {} /\ cmd' = 0 /\ procs' = procs /\ live' = live
         /\ gen' \in {gen, gen + 1} /\ gen' \in 0..MaxSpawns /\ seen <= gen'
         /\ gen # seen => gen' # seen
BY CoreAssumption DEF TypeOK, Owner, StartFails

LEMMA StepStartGoal ==
  ASSUME TypeOK, CoreInv, StartGoal
  PROVE  TypeOK' /\ CoreInv'
<1>1. pc = "start" /\ Owner /\ goal \in Configs /\ UNCHANGED <<seen, before>>
  BY DEF StartGoal, CoreInv, TypeOK
<1>2. CASE StartOK(goal) /\ Finish(~failed)
  <2>1. /\ alive' = {cmd'} /\ cmd' \in Instances /\ procs' \in [Instances -> Configs]
        /\ procs'[cmd'] = goal /\ live' = goal /\ gen' \in 0..MaxSpawns
        /\ cmd' \in 0..MaxSpawns /\ seen <= gen'
    BY <1>1, <1>2, StartedOne
  <2>2. /\ pc' = "idle" /\ ok' \in BOOLEAN /\ failed' = FALSE
        /\ {target', goal', keep', undo'} \subseteq Configs
    BY <1>2, FinishType DEF TypeOK
  <2>3. TypeOK'
    BY <1>1, <2>1, <2>2 DEF TypeOK
  <2> QED  BY <1>1, <2>1, <2>2, <2>3
           DEF CoreInv, Owner, Belief, HotCall, Rebuilding, Restarting, Freshness
<1>3. CASE StartFails /\ pc' = "rollback" /\ UNCHANGED <<locals, failed, ok>>
  <2>1. /\ alive' = {} /\ cmd' = 0 /\ procs' = procs /\ live' = live
        /\ gen' \in 0..MaxSpawns /\ seen <= gen' /\ (gen # seen => gen' # seen)
    BY <1>1, <1>3, StartedNone
  <2>2. TypeOK'
    BY CoreAssumption, <1>1, <1>3, <2>1 DEF TypeOK, locals
  <2> QED  BY <1>1, <1>3, <2>1, <2>2
           DEF CoreInv, Owner, Belief, HotCall, Rebuilding, Restarting, Freshness, ChoseHot, locals
<1> QED  BY <1>2, <1>3 DEF StartGoal

LEMMA StepStartUndo ==
  ASSUME TypeOK, CoreInv, StartUndo
  PROVE  TypeOK' /\ CoreInv'
<1>1. pc = "rollback" /\ Owner /\ undo \in Configs /\ UNCHANGED <<seen, before>>
  BY DEF StartUndo, CoreInv, TypeOK
<1>2. CASE StartOK(undo)
  <2>1. /\ alive' = {cmd'} /\ cmd' \in Instances /\ procs' \in [Instances -> Configs]
        /\ procs'[cmd'] = undo /\ live' = undo /\ gen' \in 0..MaxSpawns
        /\ cmd' \in 0..MaxSpawns /\ cmd' # 0 /\ seen <= gen' /\ gen' # seen
    BY <1>1, <1>2, StartedOne
  <2>2. CASE failed /\ pc' = "giveup" /\ UNCHANGED <<locals, failed, ok>>
    <3>1. TypeOK'
      BY <1>1, <2>1, <2>2 DEF TypeOK, locals
    <3>2. undo = live
      BY <1>1, <2>2 DEF CoreInv, Rebuilding
    <3> QED  BY <1>1, <2>1, <2>2, <3>1, <3>2
             DEF CoreInv, Owner, Belief, HotCall, Rebuilding, Restarting, Freshness, ChoseHot, locals
  <2>3. CASE Finish(FALSE)
    <3>1. /\ pc' = "idle" /\ ok' \in BOOLEAN /\ failed' = FALSE
          /\ {target', goal', keep', undo'} \subseteq Configs
      BY <2>3, FinishType
    <3>2. TypeOK'
      BY <1>1, <2>1, <3>1 DEF TypeOK
    <3> QED  BY <1>1, <2>1, <3>1, <3>2
             DEF CoreInv, Owner, Belief, HotCall, Rebuilding, Restarting, Freshness
  <2> QED  BY <1>1, <1>2, <2>1, <2>2, <2>3 DEF StartUndo, StartFails
<1>3. CASE StartFails /\ Finish(FALSE)
  <2>1. /\ alive' = {} /\ cmd' = 0 /\ procs' = procs /\ live' = live
        /\ gen' \in 0..MaxSpawns /\ seen <= gen'
    BY <1>1, <1>3, StartedNone
  <2>2. /\ pc' = "idle" /\ ok' \in BOOLEAN /\ failed' = FALSE
        /\ {target', goal', keep', undo'} \subseteq Configs
    BY <1>3, FinishType
  <2>3. TypeOK'
    <3>1. procs' \in [Instances -> Configs] /\ alive' \subseteq Instances /\ cmd' \in 0..MaxSpawns
      BY CoreAssumption, <1>1, <2>1, <2>2 DEF TypeOK
    <3>2. {live', target', goal', keep', undo'} \subseteq Configs
      BY CoreAssumption, <1>1, <2>1, <2>2 DEF TypeOK
    <3>3. gen' \in 0..MaxSpawns /\ seen' \in 0..MaxSpawns
      BY CoreAssumption, <1>1, <2>1, <2>2 DEF TypeOK
    <3>4. pc' \in {"idle", "hot", "stop", "start", "rollback", "giveup"}
      BY CoreAssumption, <1>1, <2>1, <2>2 DEF TypeOK
    <3>5. failed' \in BOOLEAN /\ ok' \in BOOLEAN /\ before' \in Engines
      BY CoreAssumption, <1>1, <2>1, <2>2 DEF TypeOK
    <3> QED  BY <3>1, <3>2, <3>3, <3>4, <3>5 DEF TypeOK
  <2> QED  BY <1>1, <2>1, <2>2, <2>3
           DEF CoreInv, Owner, Belief, HotCall, Rebuilding, Restarting, Freshness
<1> QED  BY <1>2, <1>3 DEF StartUndo

LEMMA StepGiveUp ==
  ASSUME TypeOK, CoreInv, GiveUp
  PROVE  TypeOK' /\ CoreInv'
<1>1. alive' = {} /\ cmd' = 0 /\ procs' \in [Instances -> Configs]
  BY StopStops DEF GiveUp, CoreInv
<1>2. /\ pc' = "idle" /\ ok' \in BOOLEAN /\ failed' = FALSE
      /\ {target', goal', keep', undo'} \subseteq Configs
  BY FinishType DEF GiveUp
<1>3. TypeOK'
  <2>1. procs' \in [Instances -> Configs] /\ alive' \subseteq Instances /\ cmd' \in 0..MaxSpawns
    BY CoreAssumption, <1>1, <1>2 DEF GiveUp, TypeOK
  <2>2. {live', target', goal', keep', undo'} \subseteq Configs
    BY CoreAssumption, <1>1, <1>2 DEF GiveUp, TypeOK
  <2>3. gen' \in 0..MaxSpawns /\ seen' \in 0..MaxSpawns
    BY CoreAssumption, <1>1, <1>2 DEF GiveUp, TypeOK
  <2>4. pc' \in {"idle", "hot", "stop", "start", "rollback", "giveup"}
    BY CoreAssumption, <1>1, <1>2 DEF GiveUp, TypeOK
  <2>5. failed' \in BOOLEAN /\ ok' \in BOOLEAN /\ before' \in Engines
    BY CoreAssumption, <1>1, <1>2 DEF GiveUp, TypeOK
  <2> QED  BY <2>1, <2>2, <2>3, <2>4, <2>5 DEF TypeOK
<1> QED  BY <1>1, <1>2, <1>3
         DEF GiveUp, CoreInv, Owner, Belief, HotCall, Rebuilding, Restarting, Freshness

LEMMA StepBetweenCalls ==
  ASSUME TypeOK, CoreInv, HaltCore \/ ResetGeneration
  PROVE  TypeOK' /\ CoreInv'
<1>1. CASE HaltCore
  <2>1. alive' = {} /\ cmd' = 0 /\ procs' \in [Instances -> Configs]
    BY <1>1, StopStops DEF HaltCore, CoreInv
  <2>2. TypeOK'
    BY CoreAssumption, <1>1, <2>1 DEF HaltCore, locals, TypeOK
  <2> QED  BY <1>1, <2>1, <2>2
           DEF HaltCore, locals, CoreInv, Owner, Belief, HotCall, Rebuilding, Restarting, Freshness
<1>2. CASE ResetGeneration
  <2>1. TypeOK'
    BY <1>2 DEF ResetGeneration, locals, TypeOK
  <2> QED  BY <1>2, <2>1
           DEF ResetGeneration, locals, CoreInv, Owner, Belief, HotCall, Rebuilding, Restarting,
               Freshness, TypeOK
<1> QED  BY <1>1, <1>2

LEMMA StepExit ==
  ASSUME TypeOK, CoreInv, NEW i \in Instances, Exit(i)
  PROVE  TypeOK' /\ CoreInv'
<1>1. i = cmd /\ alive' = {}
  BY DEF Exit, CoreInv, Owner
<1>2. TypeOK'
  BY BlankIsConfig DEF Exit, locals, TypeOK
<1> QED  BY <1>1, <1>2
         DEF Exit, locals, CoreInv, Owner, Belief, HotCall, Rebuilding, Restarting, Freshness, ChoseHot

\* Every step keeps the types and the invariant.
LEMMA CoreStep ==
  ASSUME TypeOK, CoreInv, [CoreNext]_vars
  PROVE  TypeOK' /\ CoreInv'
<1>1. CASE UNCHANGED vars
  BY <1>1 DEF vars, locals, TypeOK, CoreInv, Owner, Belief, HotCall, Rebuilding, Restarting,
              Freshness, ChoseHot
<1> QED
  BY <1>1, StepApply, StepHot, StepHotFails, StepHotDone, StepRestartStop, StepStartGoal,
     StepStartUndo, StepGiveUp, StepBetweenCalls, StepExit DEF CoreNext

LEMMA CoreStart ==
  ASSUME CoreInit
  PROVE  TypeOK /\ CoreInv
<1>1. TypeOK
  <2>1. procs \in [Instances -> Configs] /\ alive \subseteq Instances /\ cmd \in 0..MaxSpawns
    BY BlankIsConfig, CoreAssumption DEF CoreInit, TypeOK, Engines
  <2>2. {live, target, goal, keep, undo} \subseteq Configs
    BY BlankIsConfig, CoreAssumption DEF CoreInit, TypeOK, Engines
  <2>3. gen \in 0..MaxSpawns /\ seen \in 0..MaxSpawns
    BY BlankIsConfig, CoreAssumption DEF CoreInit, TypeOK, Engines
  <2>4. pc \in {"idle", "hot", "stop", "start", "rollback", "giveup"}
    BY BlankIsConfig, CoreAssumption DEF CoreInit, TypeOK, Engines
  <2>5. failed \in BOOLEAN /\ ok \in BOOLEAN /\ before \in Engines
    BY BlankIsConfig, CoreAssumption DEF CoreInit, TypeOK, Engines
  <2> QED  BY <2>1, <2>2, <2>3, <2>4, <2>5 DEF TypeOK
<1>2. CoreInv
  BY DEF CoreInit, CoreInv, Owner, Belief, HotCall, Rebuilding, Restarting, Freshness
<1> QED  BY <1>1, <1>2

LEMMA CoreInvariant == CoreSpec => [](TypeOK /\ CoreInv)
<1>1. TypeOK /\ CoreInv /\ [CoreNext]_vars => TypeOK' /\ CoreInv'
  BY CoreStep
<1> QED  BY <1>1, CoreStart, PTL DEF CoreSpec

(* For any accounts, structures and number of processes, the supervisor's
   fields, the arguments of its calls and the engine its caller sees keep
   their types (Core, Apply). *)
THEOREM TypeCorrect == CoreSpec => []TypeOK
BY CoreInvariant, PTL

(* Whatever is started, rolled back, killed or dies on the way, there are
   never two Xray processes (Core.start, Core.Stop, Core.restart). *)
THEOREM OneProcessAlways == CoreSpec => []OneProcess
<1>1. TypeOK /\ CoreInv => OneProcess
  <2> SUFFICES ASSUME TypeOK, CoreInv PROVE Cardinality(alive) <= 1
    BY DEF OneProcess
  <2>1. alive = {} \/ alive = {cmd}
    BY DEF CoreInv, Owner
  <2>2. Cardinality({}) = 0 /\ Cardinality({cmd}) = 1
    BY FS_EmptySet, FS_Singleton
  <2> QED  BY <2>1, <2>2
<1> QED  BY <1>1, CoreInvariant, PTL

(* Between calls the process serves what Core believes it serves, whichever
   RPC of a hot update failed before or after it took effect (Core.hot). *)
THEOREM BeliefHolds == CoreSpec => []BeliefIsTruth
<1>1. TypeOK /\ CoreInv => BeliefIsTruth
  BY DEF CoreInv, Belief, BeliefIsTruth, Serving
<1> QED  BY <1>1, CoreInvariant, PTL
-----------------------------------------------------------------------------
(* The refinement.                                                         *)

\* The contract's operators are this module's.
LEMMA ContractOperators ==
  /\ Contract!Configs = Configs /\ Contract!Blank = Blank
  /\ \A e : Contract!Stopped(e) = Stopped(e)
  /\ \A e, c : Contract!ApplyResults(e, c) = ApplyResults(e, c)
  /\ \A x : Contract!MayBeDead(x) = MayBeDead(x)
<1>1. Contract!Configs = Configs /\ Contract!Blank = Blank
  BY DEF Contract!Configs, Configs, Contract!Blank, Blank
<1>2. \A e : Contract!Stopped(e) = Stopped(e)
  BY <1>1 DEF Contract!Stopped, Stopped
<1>3. ASSUME NEW c PROVE Contract!Started(c) = Started(c)
  BY DEF Contract!Started, Started
<1>4. ASSUME NEW c, NEW d PROVE Contract!Between(c, d) = Between(c, d)
  BY <1>1 DEF Contract!Between, Between
<1>5. ASSUME NEW e PROVE Contract!Failed(e) = Failed(e)
  BY <1>2 DEF Contract!Failed, Failed
<1>6. ASSUME NEW e, NEW a, NEW b PROVE Contract!Result(e, a, b) = Result(e, a, b)
  BY DEF Contract!Result, Result
<1>7. ASSUME NEW e, NEW c PROVE Contract!RestartResults(e, c) = RestartResults(e, c)
  BY <1>3, <1>5, <1>6, Zenon DEF Contract!RestartResults, RestartResults
<1>8. ASSUME NEW e, NEW c PROVE Contract!HotFailures(e, c) = HotFailures(e, c)
  BY Zenon DEF Contract!HotFailures, HotFailures, Contract!Started, Started, Contract!Result, Result,
               Contract!Failed, Failed, Contract!Stopped, Stopped, Contract!Between, Between,
               Contract!Configs, Configs, Contract!Blank, Blank
<1>9. ASSUME NEW e, NEW c PROVE Contract!ApplyResults(e, c) = ApplyResults(e, c)
  BY <1>6, <1>7, <1>8, Zenon DEF Contract!ApplyResults, ApplyResults
<1>10. ASSUME NEW x PROVE Contract!MayBeDead(x) = MayBeDead(x)
  BY <1>2, Zenon DEF Contract!MayBeDead, MayBeDead
<1> QED  BY <1>1, <1>2, <1>9, <1>10

\* The truth values by name: the provers instantiate a lemma with a name, and
\* not with a literal.
Yes == TRUE
No == FALSE

\* An engine field by field, and one without a process.
Engine(u, c, m, f) == [up |-> u, cfg |-> c, memo |-> m, fresh |-> f]
Dead(m, f) == Engine(No, Blank, m, f)

\* The updates in CoreResults.
SetMemo(e, n) == [e EXCEPT !.memo = n]
SetFresh(e, n) == [e EXCEPT !.fresh = n]
SetConfig(e, n) == [e EXCEPT !.cfg = n, !.memo = n]

\* What they do to an engine.
LEMMA EngineIs ==
  ASSUME NEW e \in Engines
  PROVE  e = Engine(e.up, e.cfg, e.memo, e.fresh)
BY DEF Engines, Engine

LEMMA NewMemo ==
  ASSUME NEW u, NEW c, NEW m, NEW f, NEW n
  PROVE  SetMemo(Engine(u, c, m, f), n) = Engine(u, c, n, f)
BY DEF Engine, SetMemo

LEMMA NewFresh ==
  ASSUME NEW u, NEW c, NEW m, NEW f, NEW n
  PROVE  SetFresh(Engine(u, c, m, f), n) = Engine(u, c, m, n)
BY DEF Engine, SetFresh

LEMMA NewConfig ==
  ASSUME NEW u, NEW c, NEW m, NEW f, NEW n
  PROVE  SetConfig(Engine(u, c, m, f), n) = Engine(u, n, n, f)
<1> DEFINE q == SetConfig(Engine(u, c, m, f), n)
           s == Engine(u, n, n, f)
<1>1. DOMAIN q = {"up", "cfg", "memo", "fresh"} /\ DOMAIN s = {"up", "cfg", "memo", "fresh"}
  BY DEF Engine, SetConfig
<1>2. q.up = s.up /\ q.cfg = s.cfg /\ q.memo = s.memo /\ q.fresh = s.fresh
  BY DEF Engine, SetConfig
<1>3. q = [x \in DOMAIN q |-> q[x]] /\ s = [x \in DOMAIN s |-> s[x]]
  BY DEF Engine, SetConfig
<1> QED  BY <1>1, <1>2, <1>3, Zenon

LEMMA StoppedIsDead ==
  ASSUME NEW u, NEW c, NEW m, NEW f
  PROVE  Stopped(Engine(u, c, m, f)) = Dead(m, f)
<1> DEFINE q == Stopped(Engine(u, c, m, f))
           s == Dead(m, f)
<1>1. DOMAIN q = {"up", "cfg", "memo", "fresh"} /\ DOMAIN s = {"up", "cfg", "memo", "fresh"}
  BY DEF Engine, Stopped, Dead
<1>2. q.up = s.up /\ q.cfg = s.cfg /\ q.memo = s.memo /\ q.fresh = s.fresh
  BY DEF Engine, Stopped, Dead, No
<1>3. q = [x \in DOMAIN q |-> q[x]] /\ s = [x \in DOMAIN s |-> s[x]]
  BY DEF Engine, Stopped, Dead
<1> QED  BY <1>1, <1>2, <1>3, Zenon

LEMMA FailedEngines ==
  ASSUME NEW e \in Engines
  PROVE  \A f \in {e.fresh, TRUE} : Dead(e.memo, f) \in Failed(e)
<1>1. Stopped(e) = Dead(e.memo, e.fresh)
  <2>1. Stopped(Engine(e.up, e.cfg, e.memo, e.fresh)) = Dead(e.memo, e.fresh)
    BY StoppedIsDead
  <2> QED  BY <2>1, EngineIs
<1>2. SetFresh(Stopped(e), Yes) = Dead(e.memo, Yes)
  BY <1>1, NewFresh DEF Dead
<1>3. Failed(e) = {Stopped(e), SetFresh(Stopped(e), Yes)}
  BY DEF Failed, SetFresh, Yes
<1>4. Dead(e.memo, e.fresh) \in Failed(e) /\ Dead(e.memo, Yes) \in Failed(e)
  BY <1>1, <1>2, <1>3
<1>5. Dead(e.memo, TRUE) \in Failed(e)
  BY <1>4 DEF Yes
<1> QED  BY <1>4, <1>5

\* Ends of a call that began with a hot update.
LEMMA HotEnds ==
  ASSUME NEW e \in Engines, NEW c \in Configs, e.up, e.memo.skel = c.skel
  PROVE  /\ Result([e EXCEPT !.cfg = c, !.memo = c], TRUE, TRUE) \in ApplyResults(e, c)
         /\ Result(Started(e.memo), FALSE, FALSE) \in ApplyResults(e, c)
         /\ \A h \in Between(e.memo, c) : \A f \in {e.fresh, TRUE} :
              Result(Dead(h, f), FALSE, FALSE) \in ApplyResults(e, c)
<1>1. ApplyResults(e, c) =
        {Result([e EXCEPT !.cfg = c, !.memo = c], TRUE, TRUE)} \cup HotFailures(e, c)
  BY DEF ApplyResults
<1>2. Result(Started(e.memo), FALSE, FALSE) \in HotFailures(e, c)
  BY DEF HotFailures
<1>3. ASSUME NEW h \in Between(e.memo, c), NEW f \in {e.fresh, TRUE}
      PROVE  Result(Dead(h, f), FALSE, FALSE) \in HotFailures(e, c)
  <2> DEFINE g == Dead(e.memo, f)
             R(k) == {Result(SetMemo(k, x), FALSE, FALSE) : x \in Between(e.memo, c)}
  <2>1. g \in Failed(e)
    BY FailedEngines
  <2>2. SetMemo(g, h) = Dead(h, f)
    BY NewMemo DEF Dead
  <2>3. Result(Dead(h, f), FALSE, FALSE) \in R(g)
    BY <2>2
  <2>4. R(g) \in {R(k) : k \in Failed(e)}
    BY <2>1
  <2>5. Result(Dead(h, f), FALSE, FALSE) \in UNION {R(k) : k \in Failed(e)}
    BY <2>3, <2>4
  <2> QED  BY <2>5, Zenon DEF HotFailures, SetMemo
<1> QED  BY <1>1, <1>2, <1>3

\* Ends of a call that began with a restart.
LEMMA RestartEnds ==
  ASSUME NEW e \in Engines, NEW c \in Configs, ~(e.up /\ e.memo.skel = c.skel)
  PROVE  /\ Result(Started(c), TRUE, FALSE) \in ApplyResults(e, c)
         /\ Result(Started(e.memo), FALSE, FALSE) \in ApplyResults(e, c)
         /\ \A f \in {e.fresh, TRUE} :
              Result(Dead(e.memo, f), FALSE, FALSE) \in ApplyResults(e, c)
<1>1. ApplyResults(e, c) = RestartResults(e, c)
  BY DEF ApplyResults
<1>2. \A f \in {e.fresh, TRUE} : Dead(e.memo, f) \in Failed(e)
  BY FailedEngines
<1> QED  BY <1>1, <1>2 DEF RestartResults

\* A step that ends the call, in a result whose process may have died.
LEMMA ReturnStep ==
  ASSUME TypeOK, pc # "idle", pc' = "idle", target' = Blank,
         NEW x \in BOOLEAN, NEW k \in BOOLEAN, NEW e,
         Result(e, x, k) \in ApplyResults(before, target),
         ok' = x, Seen' = e \/ Seen' = Stopped(e)
  PROVE  Contract!Return
<1> DEFINE r == Result(e, x, k)
<1>1. r.eng = e /\ r.ok = x
  BY DEF Result
<1>2. [r EXCEPT !.eng = Stopped(r.eng)].eng = Stopped(e) /\ [r EXCEPT !.eng = Stopped(r.eng)].ok = x
  BY <1>1 DEF Result
<1>3. \E q \in MayBeDead(r) : Seen' = q.eng /\ ok' = q.ok
  BY <1>1, <1>2 DEF MayBeDead
<1>4. \E y \in Contract!ApplyResults(before, target) :
        \E q \in Contract!MayBeDead(y) : Seen' = q.eng /\ ok' = q.ok
  BY <1>3, ContractOperators
<1>5. [busy |-> pc' # "idle", next |-> target'] = Contract!NoCall
  BY ContractOperators DEF Contract!NoCall
<1> QED  BY <1>4, <1>5 DEF Contract!Return

\* What the caller sees of a process that has just been started, or of none.
LEMMA SeenStarted ==
  ASSUME NEW c, alive' = {cmd'}, cmd' # 0, procs'[cmd'] = c, live' = c, gen' # seen'
  PROVE  Seen' = Started(c)
BY DEF Seen, Serving, Started

LEMMA SeenDead ==
  ASSUME cmd' = 0 \/ cmd' \notin alive'
  PROVE  Seen' = Dead(live', gen' # seen')
BY DEF Seen, Serving, Dead, Engine, No

\* The four ends of Apply.
LEMMA HotDoneReturns ==
  ASSUME TypeOK, CoreInv, HotDone
  PROVE  Contract!Return
<1>1. /\ pc = "hot" /\ pc' = "idle" /\ ok' = TRUE /\ target' = Blank
      /\ UNCHANGED <<procs, alive, cmd, live, gen, seen>>
  BY DEF HotDone, Finish
<1>2. /\ before \in Engines /\ target \in Configs /\ before.memo \in Configs
      /\ before.up /\ before.memo.skel = target.skel /\ live \in Between(before.memo, target)
      /\ (before.fresh <=> gen # seen) /\ (Serving => procs[cmd] = live)
  BY <1>1 DEF CoreInv, HotCall, ChoseHot, Freshness, Belief, Serving, TypeOK, Engines
<1>3. live = target
  BY <1>2, DoneArrives DEF HotDone, Differing
<1> DEFINE e == SetConfig(before, target)
<1>4. Result(e, TRUE, TRUE) \in ApplyResults(before, target)
  BY <1>2, HotEnds DEF SetConfig
<1>5. before.fresh = (gen # seen)
  BY <1>2 DEF Engines
<1>6. e = Engine(Yes, target, target, gen # seen)
  <2>1. SetConfig(Engine(before.up, before.cfg, before.memo, before.fresh), target) =
          Engine(before.up, target, target, before.fresh)
    BY NewConfig
  <2>2. e = Engine(before.up, target, target, before.fresh)
    BY <1>2, <2>1, EngineIs
  <2>3. before.up = Yes
    BY <1>2 DEF Engines, Yes
  <2> QED  BY <1>5, <2>2, <2>3
<1>7. Seen' = Seen
  BY <1>1 DEF Seen, Serving
<1>8. CASE Serving
  <2>1. Seen = e
    BY <1>2, <1>3, <1>6, <1>8 DEF Seen, Engine, Yes
  <2> QED  BY <1>1, <1>4, <1>7, <2>1, ReturnStep
<1>9. CASE ~Serving
  <2>1. Stopped(e) = Dead(target, gen # seen)
    BY <1>6, StoppedIsDead
  <2>2. Seen = Dead(live, gen # seen)
    <3>1. Seen' = Dead(live', gen' # seen')
      BY <1>1, <1>9, SeenDead DEF Serving
    <3> QED  BY <1>1, <1>7, <3>1
  <2>3. Seen = Dead(target, gen # seen)
    BY <1>3, <2>2
  <2> QED  BY <1>1, <1>4, <1>7, <2>1, <2>3, ReturnStep
<1> QED  BY <1>8, <1>9

LEMMA StartGoalReturns ==
  ASSUME TypeOK, CoreInv, pc = "start", StartOK(goal), Finish(~failed), UNCHANGED seen
  PROVE  Contract!Return
<1>1. pc' = "idle" /\ ok' = ~failed /\ target' = Blank
  BY DEF Finish
<1>2. /\ before \in Engines /\ target \in Configs /\ before.memo \in Configs
      /\ goal \in Configs /\ Owner
  BY DEF TypeOK, Engines, CoreInv
<1>3. Seen' = Started(goal)
  BY <1>2, StartedOne, SeenStarted
<1>4. CASE failed
  <2>1. Result(Started(goal), FALSE, FALSE) \in ApplyResults(before, target)
    BY <1>2, <1>4, HotEnds DEF CoreInv, Rebuilding, ChoseHot
  <2>2. ok' = FALSE
    BY <1>1, <1>4
  <2> QED  BY <1>1, <1>3, <2>1, <2>2, ReturnStep
<1>5. CASE ~failed
  <2>1. Result(Started(goal), TRUE, FALSE) \in ApplyResults(before, target)
    BY <1>2, <1>5, RestartEnds DEF CoreInv, Restarting, ChoseHot
  <2>2. ok' = TRUE
    BY <1>1, <1>5
  <2> QED  BY <1>1, <1>3, <2>1, <2>2, ReturnStep
<1> QED  BY <1>4, <1>5

LEMMA StartUndoReturns ==
  ASSUME TypeOK, CoreInv, StartUndo, pc' = "idle"
  PROVE  Contract!Return
<1>1. pc = "rollback" /\ seen' = seen /\ Finish(FALSE)
  BY DEF StartUndo
<1>2. ok' = FALSE /\ target' = Blank
  BY <1>1 DEF Finish
<1>3. /\ before \in Engines /\ target \in Configs /\ before.memo \in Configs
      /\ undo \in Configs /\ Owner /\ undo = live
  BY <1>1 DEF TypeOK, Engines, CoreInv, Rebuilding, Restarting
<1>4. CASE StartOK(undo) /\ ~failed
  <2>1. Seen' = Started(undo)
    BY <1>1, <1>3, <1>4, StartedOne, SeenStarted
  <2>2. Result(Started(undo), FALSE, FALSE) \in ApplyResults(before, target)
    BY <1>1, <1>3, <1>4, RestartEnds DEF CoreInv, Restarting, ChoseHot
  <2> QED  BY <1>1, <1>2, <2>1, <2>2, ReturnStep
<1>5. CASE StartFails
  <2>1. cmd' = 0 /\ live' = live /\ (gen # seen => gen' # seen)
    BY <1>1, <1>3, <1>5, StartedNone
  <2>2. Seen' = Dead(live, gen' # seen')
    BY <2>1, SeenDead
  <2>3. before.fresh => gen' # seen'
    BY <1>1, <2>1 DEF CoreInv, Freshness
  <2>4. (gen' # seen') \in {before.fresh, TRUE}
    BY <1>3, <2>3 DEF Engines
  <2>5. Result(Dead(live, gen' # seen'), FALSE, FALSE) \in ApplyResults(before, target)
    <3>1. CASE failed
      BY <1>3, <2>4, <3>1, HotEnds DEF CoreInv, Rebuilding, ChoseHot
    <3>2. CASE ~failed
      <4>1. live = before.memo /\ ~(before.up /\ before.memo.skel = target.skel)
        BY <1>1, <3>2 DEF CoreInv, Restarting, ChoseHot
      <4> QED  BY <1>3, <2>4, <4>1, RestartEnds
    <3> QED  BY <3>1, <3>2
  <2> QED  BY <1>1, <1>2, <2>2, <2>5, ReturnStep
<1>6. (StartOK(undo) /\ ~failed) \/ StartFails
  BY DEF StartUndo
<1> QED  BY <1>4, <1>5, <1>6

LEMMA GiveUpReturns ==
  ASSUME TypeOK, CoreInv, GiveUp
  PROVE  Contract!Return
<1>1. /\ pc = "giveup" /\ pc' = "idle" /\ ok' = FALSE /\ target' = Blank
      /\ cmd' = 0 /\ UNCHANGED <<live, gen, seen>>
  BY DEF GiveUp, Stop, Finish
<1>2. /\ before \in Engines /\ target \in Configs /\ before.memo \in Configs
      /\ before.up /\ before.memo.skel = target.skel /\ live \in Between(before.memo, target)
  BY <1>1 DEF CoreInv, Restarting, Rebuilding, ChoseHot, TypeOK, Engines
<1>3. Seen' = Dead(live, gen # seen)
  BY <1>1, SeenDead
<1>4. before.fresh => gen # seen
  BY <1>1 DEF CoreInv, Freshness
<1>5. (gen # seen) \in {before.fresh, TRUE}
  BY <1>2, <1>4 DEF Engines
<1>6. Result(Dead(live, gen # seen), FALSE, FALSE) \in ApplyResults(before, target)
  BY <1>2, <1>5, HotEnds
<1> QED  BY <1>1, <1>3, <1>6, ReturnStep

\* Between calls, the engine of the contract is what the caller sees.
LEMMA IdleSteps ==
  ASSUME TypeOK, CoreInv, pc = "idle", pc' = "idle", target' = target, ok' = ok,
         Seen' = Stopped(Seen) \/ Seen' = [Seen EXCEPT !.fresh = FALSE]
  PROVE  Contract!Next
<1>1. CASE Seen' = Stopped(Seen)
  <2>1. Contract!Die
    BY <1>1, ContractOperators DEF Contract!Die
  <2> QED  BY <2>1 DEF Contract!Next
<1>2. CASE Seen' = [Seen EXCEPT !.fresh = FALSE]
  <2>1. Contract!Acknowledge
    BY <1>2 DEF Contract!Acknowledge
  <2> QED  BY <2>1 DEF Contract!Next
<1> QED  BY <1>1, <1>2

\* The process that was seen is gone.
LEMMA SeenStops ==
  ASSUME TypeOK, alive' = {}, live' = live, gen' = gen, seen' = seen
  PROVE  Seen' = Stopped(Seen)
<1>1. Seen' = Dead(live, gen # seen)
  BY SeenDead
<1>2. Stopped(Seen) = Dead(live, gen # seen)
  BY StoppedIsDead DEF Seen, Engine
<1> QED  BY <1>1, <1>2

\* Every operation of the supervisor is a step of the contract, or none.
LEMMA ContractStep ==
  ASSUME TypeOK, CoreInv, [CoreNext]_vars
  PROVE  [Contract!Next]_(Contract!coreVars)
<1>a. ASSUME pc # "idle", pc' # "idle", before' = before, target' = target, ok' = ok
      PROVE  UNCHANGED Contract!coreVars
  BY <1>a DEF Contract!coreVars
<1>1. ASSUME NEW c \in Configs, Apply(c) PROVE Contract!Next
  <2>1. pc = "idle" /\ pc' # "idle" /\ before' = Seen /\ target' = c /\ ok' = ok
    BY <1>1 DEF Apply, Restart
  <2>2. Contract!Invoke(c)
    BY <2>1 DEF Contract!Invoke, Contract!Calling
  <2> QED  BY <2>2, ContractOperators DEF Contract!Next
<1>2. ASSUME NEW u \in Accounts, HotStep(u) \/ HotStepFails(u) PROVE UNCHANGED Contract!coreVars
  BY <1>a, <1>2 DEF HotStep, HotStepFails, Restart, locals
<1>3. CASE HotDone
  BY <1>3, HotDoneReturns DEF Contract!Next
<1>4. CASE RestartStop
  BY <1>a, <1>4 DEF RestartStop
<1>5. CASE StartGoal
  <2>1. CASE StartOK(goal) /\ Finish(~failed)
    BY <1>5, <2>1, StartGoalReturns DEF StartGoal, Contract!Next
  <2>2. CASE StartFails /\ pc' = "rollback" /\ UNCHANGED <<locals, failed, ok>>
    BY <1>a, <1>5, <2>2 DEF StartGoal, locals
  <2> QED  BY <1>5, <2>1, <2>2 DEF StartGoal
<1>6. CASE StartUndo
  <2>1. CASE pc' = "idle"
    BY <1>6, <2>1, StartUndoReturns DEF Contract!Next
  <2>2. CASE pc' # "idle"
    BY <1>a, <1>6, <2>2 DEF StartUndo, Finish, locals
  <2> QED  BY <2>1, <2>2
<1>7. CASE GiveUp
  BY <1>7, GiveUpReturns DEF Contract!Next
<1>8. CASE HaltCore
  <2>1. alive' = {}
    BY <1>8, StopStops DEF HaltCore, CoreInv
  <2>2. Seen' = Stopped(Seen)
    BY <1>8, <2>1, SeenStops DEF HaltCore
  <2> QED  BY <1>8, <2>2, IdleSteps DEF HaltCore, locals
<1>9. CASE ResetGeneration
  <2>1. Seen' = [Seen EXCEPT !.fresh = FALSE]
    <3>1. Serving' = Serving /\ UNCHANGED <<procs, cmd, live>> /\ (gen' # seen') = FALSE
      BY <1>9 DEF ResetGeneration, Serving, TypeOK
    <3> DEFINE c == IF Serving THEN procs[cmd] ELSE Blank
    <3>2. Seen' = Engine(Serving, c, live, No)
      BY <3>1 DEF Seen, Engine, No
    <3>3. Seen = Engine(Serving, c, live, gen # seen)
      BY DEF Seen, Engine
    <3>4. SetFresh(Engine(Serving, c, live, gen # seen), No) = Engine(Serving, c, live, No)
      BY NewFresh
    <3> QED  BY <3>2, <3>3, <3>4 DEF SetFresh, No
  <2> QED  BY <1>9, <2>1, IdleSteps DEF ResetGeneration, locals
<1>10. ASSUME NEW i \in Instances, Exit(i) PROVE [Contract!Next]_(Contract!coreVars)
  <2>1. alive' = {}
    BY <1>10 DEF Exit, CoreInv, Owner
  <2>2. CASE pc = "idle"
    <3>1. Seen' = Stopped(Seen)
      BY <1>10, <2>1, SeenStops DEF Exit
    <3> QED  BY <1>10, <2>2, <3>1, IdleSteps DEF Exit, locals
  <2>3. CASE pc # "idle"
    BY <1>a, <1>10, <2>3 DEF Exit, locals
  <2> QED  BY <2>2, <2>3
<1>11. CASE UNCHANGED vars
  BY <1>11 DEF vars, Contract!coreVars, Seen, Serving
<1> QED
  BY <1>1, <1>2, <1>3, <1>4, <1>5, <1>6, <1>7, <1>8, <1>9, <1>10, <1>11 DEF CoreNext

(* Whatever fails, dies or is rolled back on the way, a call of Core.Apply ends
   in one of the results that CoreResults lists, and between calls the engine
   changes only by dying. *)
THEOREM CoreKeepsContract == CoreSpec => ContractSpec
<1>1. CoreInit => Contract!Init
  BY ContractOperators DEF CoreInit, Contract!Init, Contract!NoCall, Seen, Serving
<1>2. TypeOK /\ CoreInv /\ [CoreNext]_vars => [Contract!Next]_(Contract!coreVars)
  BY ContractStep
<1> QED  BY <1>1, <1>2, CoreInvariant, PTL DEF CoreSpec, ContractSpec, Contract!Spec
=============================================================================
