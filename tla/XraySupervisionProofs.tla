----------------------- MODULE XraySupervisionProofs -----------------------
(***************************************************************************)
(* Proofs about XraySupervision, for any users and any numbers of edits,   *)
(* faults, crashes and orders.                                             *)
(*                                                                         *)
(* Stopped makes the operator's stop safe: it is taken under the mutex, so *)
(* no restart is on its way past Begin while it lasts.  Drifts follows one *)
(* user: while the process was started without the last edit of it, either *)
(* the core has been told or something is coming that will tell it.  Two   *)
(* facts carry it: what a restart has read is the database for every user  *)
(* that is not raced, and a call on its way to the core says what the      *)
(* database says wherever the process's configuration does not.            *)
(***************************************************************************)
EXTENDS XraySupervision, TLAPS

\* A restart has read its configuration and not yet used it.
Settling == op.phase \in {"decide", "start"}

Says(S, u) == u \in S <=> u \in db

Stopped == manual => ~Running /\ op.phase = "idle"

WantIsDb == Settling => \A u \in Users \ raced : Says(op.want, u)

CallsSayDb ==
  ~Settling => \A u \in Users \ raced : ~Says(proc.snap, u) =>
    \A e \in Editors : ed[e].pc = "api" /\ u \in ed[e].user => (ed[e].adding <=> u \in db)

\* Something under way will tell the core about u, or ask for a restart.
Asked == flag \/ op.who \in {"apply", "traffic", "node"}
              \/ \E c \in {"apply", "traffic", "node"} : c \in waiting
Asking(e) == e # "node" /\ ed[e].need /\ ed[e].pc \in {"restart", "flag"}
Calling(e, u) == ed[e].pc = "api" /\ u \in ed[e].user
Coming(u) == Asked \/ \E e \in Editors : Asking(e) \/ Calling(e, u)

Drifts ==
  Running /\ ~Settling =>
    \A u \in Users \ raced : Says(proc.snap, u) \/ Says(proc.core, u) \/ Coming(u)

DriftInv == WantIsDb /\ CallsSayDb /\ Drifts
-----------------------------------------------------------------------------
(* Types.                                                                  *)

\* The types of the three records that steps rebuild.
Procs == [st : {"up", "down"}, snap : SUBSET Users, core : SUBSET Users]
Ops == [who : Callers \cup {"nobody"}, phase : {"idle", "read", "decide", "start"},
        want : SUBSET Users]
Edits == [pc : {"idle", "api", "restart", "flag"}, user : SUBSET Users,
          adding : BOOLEAN, need : BOOLEAN]

\* What Return leaves is well typed.
LEMMA ReturnType ==
  ASSUME TypeOK, op.who # "nobody", NEW failed \in BOOLEAN, Return(failed)
  PROVE  op' = NoOp /\ NoOp \in Ops /\ ed' \in [Editors -> Edits] /\ flag' \in BOOLEAN
<1>1. op' = NoOp /\ NoOp \in Ops
  BY DEF Return, NoOp, Ops
<1>2. ed' \in [Editors -> Edits]
  BY DEF Return, TypeOK, Edits
<1>3. flag' \in BOOLEAN
  BY DEF Return, TypeOK
<1> QED  BY <1>1, <1>2, <1>3

\* What Told leaves is well typed.
LEMMA ToldType ==
  ASSUME TypeOK, NEW e \in Editors, NEW need \in BOOLEAN, Told(e, need)
  PROVE  ed' \in [Editors -> Edits] /\ waiting' \subseteq Callers
<1> DEFINE told == [ed[e] EXCEPT !.pc = IF e \in Jobs THEN "restart" ELSE "flag",
                                !.need = need]
<1>a. ed[e] \in Edits
  BY DEF TypeOK, Edits
<1>b. told \in Edits
  BY <1>a DEF Edits
<1>c. ed' = [ed EXCEPT ![e] = told]
  BY DEF Told
<1>1. ed' \in [Editors -> Edits]
  BY <1>b, <1>c DEF TypeOK, Edits
<1>2. waiting' \subseteq Callers
  BY DEF Told, TypeOK, Jobs, Callers
<1> QED  BY <1>1, <1>2

LEMMA AppliedType ==
  ASSUME TypeOK, NEW e \in Editors
  PROVE  Applied(e) \in Procs
BY DEF TypeOK, Applied, Procs

\* Every step keeps the types.
LEMMA TypeStep ==
  ASSUME TypeOK, [Next]_vars
  PROVE  TypeOK'
<1> USE DEF Procs, Ops, Edits
<1>1. ASSUME NEW c \in Callers, Begin(c) PROVE TypeOK'
  <2>1. CASE c \notin Forced /\ manual
    <3>1. ed' \in [Editors -> Edits]
      BY <1>1, <2>1 DEF Begin, TypeOK
    <3> QED  BY <1>1, <2>1, <3>1 DEF Begin, TypeOK
  <2>2. CASE ~(c \notin Forced /\ manual)
    <3>1. op' \in Ops /\ op'.phase = "read" /\ op'.who = c
      BY <1>1, <2>2 DEF Begin, NoOp
    <3>2. c # "nobody"
      BY DEF Callers
    <3> QED  BY <1>1, <2>2, <3>1, <3>2 DEF Begin, TypeOK
  <2> QED  BY <2>1, <2>2
<1>2. ASSUME ReadConfig PROVE TypeOK'
  BY <1>2 DEF ReadConfig, TypeOK
<1>3. ASSUME ReadFails PROVE TypeOK'
  <2>1. op.who # "nobody" /\ Return(TRUE)
    BY <1>3 DEF ReadFails, TypeOK
  <2>2. op' = NoOp /\ NoOp \in Ops /\ ed' \in [Editors -> Edits] /\ flag' \in BOOLEAN
    BY <2>1, ReturnType
  <2>3. op'.phase = "idle" /\ op'.who = "nobody"
    BY <2>2 DEF NoOp
  <2> QED  BY <1>3, <2>2, <2>3 DEF ReadFails, TypeOK
<1>4. ASSUME Skip PROVE TypeOK'
  <2>1. op.who # "nobody" /\ Return(FALSE)
    BY <1>4 DEF Skip, TypeOK
  <2>2. op' = NoOp /\ NoOp \in Ops /\ ed' \in [Editors -> Edits] /\ flag' \in BOOLEAN
    BY <2>1, ReturnType
  <2>3. op'.phase = "idle" /\ op'.who = "nobody"
    BY <2>2 DEF NoOp
  <2> QED  BY <1>4, <2>2, <2>3 DEF Skip, TypeOK
<1>5. ASSUME HotApply PROVE TypeOK'
  <2>1. op.who # "nobody" /\ Return(FALSE)
    BY <1>5 DEF HotApply, TypeOK
  <2>2. op' = NoOp /\ NoOp \in Ops /\ ed' \in [Editors -> Edits] /\ flag' \in BOOLEAN
    BY <2>1, ReturnType
  <2>3. op'.phase = "idle" /\ op'.who = "nobody"
    BY <2>2 DEF NoOp
  <2>4. proc' \in Procs
    BY <1>5, <2>1 DEF HotApply, TypeOK
  <2> QED  BY <1>5, <2>2, <2>3, <2>4 DEF HotApply, TypeOK
<1>6. ASSUME HotApplyFails PROVE TypeOK'
  BY <1>6 DEF HotApplyFails, TypeOK
<1>7. ASSUME Stop PROVE TypeOK'
  BY <1>7 DEF Stop, TypeOK
<1>8. ASSUME Start PROVE TypeOK'
  <2>1. op.who # "nobody" /\ Return(FALSE)
    BY <1>8 DEF Start, TypeOK
  <2>2. op' = NoOp /\ NoOp \in Ops /\ ed' \in [Editors -> Edits] /\ flag' \in BOOLEAN
    BY <2>1, ReturnType
  <2>3. op'.phase = "idle" /\ op'.who = "nobody"
    BY <2>2 DEF NoOp
  <2>4. proc' \in Procs
    BY <1>8, <2>1 DEF Start, TypeOK
  <2> QED  BY <1>8, <2>2, <2>3, <2>4 DEF Start, TypeOK
<1>9. ASSUME StartFails PROVE TypeOK'
  <2>1. op.who # "nobody" /\ Return(TRUE)
    BY <1>9 DEF StartFails, TypeOK
  <2>2. op' = NoOp /\ NoOp \in Ops /\ ed' \in [Editors -> Edits] /\ flag' \in BOOLEAN
    BY <2>1, ReturnType
  <2>3. op'.phase = "idle" /\ op'.who = "nobody"
    BY <2>2 DEF NoOp
  <2>4. proc' \in Procs
    BY <1>9, <2>1 DEF StartFails, TypeOK
  <2> QED  BY <1>9, <2>2, <2>3, <2>4 DEF StartFails, TypeOK
<1>10. ASSUME Crash PROVE TypeOK'
  BY <1>10 DEF Crash, TypeOK
<1>11. ASSUME StopXray PROVE TypeOK'
  BY <1>11 DEF StopXray, TypeOK
<1>12. ASSUME ApplyPendingRestart PROVE TypeOK'
  BY <1>12 DEF ApplyPendingRestart, Call, Callers, TypeOK
<1>13. ASSUME CheckTick PROVE TypeOK'
  BY <1>13 DEF CheckTick, Callers, TypeOK
<1>14. ASSUME OrderRestart PROVE TypeOK'
  BY <1>14 DEF OrderRestart, Call, Callers, TypeOK
<1>15. ASSUME NEW e \in Editors, Commit(e) PROVE TypeOK'
  <2>1. PICK u \in IF e = "admin" THEN Users ELSE db :
          /\ db' = IF u \in db THEN db \ {u} ELSE db \cup {u}
          /\ ed' = [ed EXCEPT ![e] = [pc |-> "api", user |-> {u}, adding |-> u \notin db,
                                     need |-> FALSE]]
          /\ raced' \in {raced, raced \cup {u}}
    BY <1>15 DEF Commit
  <2>2. u \in Users
    BY <2>1 DEF TypeOK
  <2>3. ed' \in [Editors -> Edits]
    BY <2>1, <2>2 DEF TypeOK
  <2>4. db' \subseteq Users /\ raced' \subseteq Users
    BY <2>1, <2>2 DEF TypeOK
  <2> QED  BY <1>15, <2>3, <2>4 DEF Commit, TypeOK
<1>16. ASSUME NEW e \in Editors, ApiAnswers(e) PROVE TypeOK'
  <2>1. /\ \E need \in BOOLEAN : Told(e, need)
        /\ proc' = proc \/ proc' = Applied(e)
        /\ UNCHANGED <<db, flag, manual, op, checkTime, raced, budget>>
    BY <1>16 DEF ApiAnswers
  <2>2. ed' \in [Editors -> Edits] /\ waiting' \subseteq Callers
    BY <2>1, ToldType
  <2>3. proc' \in Procs
    BY <2>1, AppliedType DEF TypeOK
  <2> QED  BY <2>1, <2>2, <2>3 DEF TypeOK
<1>17. ASSUME NEW e \in Editors, ApiFails(e) PROVE TypeOK'
  <2>1. /\ Told(e, TRUE) /\ proc' \in {proc, Applied(e)}
        /\ UNCHANGED <<db, flag, manual, op, checkTime, raced>>
    BY <1>17 DEF ApiFails
  <2>2. ed' \in [Editors -> Edits] /\ waiting' \subseteq Callers
    BY <2>1, ToldType
  <2>3. proc' \in Procs
    BY <2>1, AppliedType DEF TypeOK
  <2> QED  BY <2>1, <2>2, <2>3 DEF TypeOK
<1>18. ASSUME NEW e \in Editors, ApiUnreachable(e) PROVE TypeOK'
  BY <1>18, ToldType DEF ApiUnreachable, TypeOK
<1>19. ASSUME NEW e \in Editors, SetToNeedRestart(e) PROVE TypeOK'
  BY <1>19 DEF SetToNeedRestart, NoEdit, TypeOK
<1>20. ASSUME UNCHANGED vars PROVE TypeOK'
  BY <1>20 DEF vars, TypeOK
<1> QED
  BY <1>1, <1>2, <1>3, <1>4, <1>5, <1>6, <1>7, <1>8, <1>9, <1>10, <1>11, <1>12, <1>13,
     <1>14, <1>15, <1>16, <1>17, <1>18, <1>19, <1>20
     DEF Next, RestartXray, ApiCall

(* For any users and any numbers of edits, faults, crashes and orders, the
   variables keep their types, and a restart is under way exactly when
   somebody holds the mutex of RestartXray. *)
THEOREM TypeCorrect == Spec => []TypeOK
<1>1. ASSUME Init PROVE TypeOK
  <2>1. NoOp \in Ops /\ NoOp.phase = "idle" /\ NoOp.who = "nobody"
    BY DEF NoOp, Ops
  <2>2. NoEdit \in Edits
    BY DEF NoEdit, Edits
  <2>3. proc \in Procs
    BY <1>1 DEF Init, Procs
  <2> QED  BY <1>1, <2>1, <2>2, <2>3 DEF Init, TypeOK, Procs, Ops, Edits
<1>2. TypeOK /\ [Next]_vars => TypeOK'
  BY TypeStep
<1> QED  BY <1>1, <1>2, PTL DEF Spec
-----------------------------------------------------------------------------
(* The operator's stop.                                                    *)

\* Telling the core about a user does not start it.
LEMMA AppliedRuns ==
  ASSUME TypeOK, NEW e \in Editors
  PROVE  Applied(e).st = proc.st
BY DEF TypeOK, Applied

\* While the stop lasts the core is down and no restart is past Begin.
LEMMA StopStep ==
  ASSUME TypeOK, Stopped, [Next]_vars
  PROVE  Stopped' /\ (manual /\ ~manual' => \E c \in Forced : c \in waiting /\ c \notin waiting')
<1> DEFINE Taken == manual /\ ~manual' => \E c \in Forced : c \in waiting /\ c \notin waiting'
<1>1. ASSUME NEW c \in Callers, Begin(c) PROVE Stopped' /\ Taken
  BY <1>1 DEF Begin, Stopped, Running
<1>2. ASSUME ReadConfig PROVE Stopped' /\ Taken
  BY <1>2 DEF ReadConfig, Stopped, Running
<1>3. ASSUME ReadFails PROVE Stopped' /\ Taken
  BY <1>3 DEF ReadFails, Return, Stopped, Running
<1>4. ASSUME Skip PROVE Stopped' /\ Taken
  BY <1>4 DEF Skip, Return, Stopped, Running
<1>5. ASSUME HotApply PROVE Stopped' /\ Taken
  BY <1>5 DEF HotApply, Return, Stopped, Running, TypeOK
<1>6. ASSUME HotApplyFails PROVE Stopped' /\ Taken
  BY <1>6 DEF HotApplyFails, Stopped, Running, TypeOK
<1>7. ASSUME Stop PROVE Stopped' /\ Taken
  BY <1>7 DEF Stop, Stopped, Running, TypeOK
<1>8. ASSUME Start PROVE Stopped' /\ Taken
  BY <1>8 DEF Start, Return, Stopped, Running
<1>9. ASSUME StartFails PROVE Stopped' /\ Taken
  BY <1>9 DEF StartFails, Return, Stopped, Running
<1>10. ASSUME Crash PROVE Stopped' /\ Taken
  BY <1>10 DEF Crash, Stopped, Running, TypeOK
<1>11. ASSUME StopXray PROVE Stopped' /\ Taken
  BY <1>11 DEF StopXray, Stopped, Running, TypeOK
<1>12. ASSUME ApplyPendingRestart PROVE Stopped' /\ Taken
  BY <1>12 DEF ApplyPendingRestart, Stopped, Running
<1>13. ASSUME CheckTick PROVE Stopped' /\ Taken
  BY <1>13 DEF CheckTick, Stopped, Running
<1>14. ASSUME OrderRestart PROVE Stopped' /\ Taken
  BY <1>14 DEF OrderRestart, Stopped, Running
<1>15. ASSUME NEW e \in Editors, Commit(e) PROVE Stopped' /\ Taken
  BY <1>15 DEF Commit, Stopped, Running
<1>16. ASSUME NEW e \in Editors, ApiAnswers(e) PROVE Stopped' /\ Taken
  BY <1>16, AppliedRuns DEF ApiAnswers, Stopped, Running
<1>17. ASSUME NEW e \in Editors, ApiFails(e) PROVE Stopped' /\ Taken
  BY <1>17, AppliedRuns DEF ApiFails, Stopped, Running
<1>18. ASSUME NEW e \in Editors, ApiUnreachable(e) PROVE Stopped' /\ Taken
  BY <1>18 DEF ApiUnreachable, Stopped, Running
<1>19. ASSUME NEW e \in Editors, SetToNeedRestart(e) PROVE Stopped' /\ Taken
  BY <1>19 DEF SetToNeedRestart, Stopped, Running
<1>20. ASSUME UNCHANGED vars PROVE Stopped' /\ Taken
  BY <1>20 DEF vars, Stopped, Running
<1> QED
  BY <1>1, <1>2, <1>3, <1>4, <1>5, <1>6, <1>7, <1>8, <1>9, <1>10, <1>11, <1>12, <1>13,
     <1>14, <1>15, <1>16, <1>17, <1>18, <1>19, <1>20
     DEF Next, RestartXray, ApiCall

(* For any users, orders and faults, an Xray the operator has stopped is down
   with nobody on the way to starting it, and only a forced restart takes the
   stop back (StopXray and the guard of RestartXray). *)
THEOREM StopRespected == Spec => StopIsRespected
<1>1. Init => Stopped
  BY DEF Init, Stopped
<1>2. TypeOK /\ Stopped /\ [Next]_vars => Stopped'
  BY StopStep
<1>3. TypeOK /\ Stopped /\ [Next]_vars =>
        [/\ manual' => ~Running' /\ op'.phase = "idle"
         /\ manual /\ ~manual' => \E c \in Forced : c \in waiting /\ c \notin waiting']_vars
  BY StopStep DEF Stopped
<1> QED  BY <1>1, <1>2, <1>3, TypeCorrect, PTL DEF Spec, StopIsRespected
-----------------------------------------------------------------------------
(* The drift between core and database.                                    *)

\* What a restart has read is the database, but for the raced users.
LEMMA WantStep ==
  ASSUME TypeOK, WantIsDb, [Next]_vars
  PROVE  WantIsDb'
<1> USE DEF WantIsDb, Settling, Says
<1>1. ASSUME NEW c \in Callers, Begin(c) PROVE WantIsDb'
  BY <1>1 DEF Begin, NoOp
<1>2. ASSUME ReadConfig PROVE WantIsDb'
  BY <1>2 DEF ReadConfig, TypeOK
<1>3. ASSUME ReadFails \/ Skip \/ HotApply \/ Start \/ StartFails PROVE WantIsDb'
  <2>1. op' = NoOp
    BY <1>3 DEF ReadFails, Skip, HotApply, Start, StartFails, Return
  <2> QED  BY <2>1 DEF NoOp
<1>4. ASSUME HotApplyFails \/ Stop PROVE WantIsDb'
  BY <1>4 DEF HotApplyFails, Stop, TypeOK
<1>5. ASSUME Crash \/ StopXray \/ ApplyPendingRestart \/ CheckTick \/ OrderRestart
      PROVE  WantIsDb'
  BY <1>5 DEF Crash, StopXray, ApplyPendingRestart, CheckTick, OrderRestart
<1>6. ASSUME NEW e \in Editors, Commit(e) PROVE WantIsDb'
  BY <1>6 DEF Commit
<1>7. ASSUME NEW e \in Editors, ApiCall(e) \/ SetToNeedRestart(e) PROVE WantIsDb'
  BY <1>7 DEF ApiCall, ApiAnswers, ApiFails, ApiUnreachable, SetToNeedRestart
<1>8. ASSUME UNCHANGED vars PROVE WantIsDb'
  BY <1>8 DEF vars
<1> QED
  BY <1>1, <1>2, <1>3, <1>4, <1>5, <1>6, <1>7, <1>8 DEF Next, RestartXray

\* Whoever uses the configuration that was read leaves the process with it.
LEMMA SettledSays ==
  ASSUME TypeOK, WantIsDb, Skip \/ HotApply \/ Start \/ StartFails
  PROVE  \A u \in Users \ raced' : Says(proc.snap, u)'
<1>1. Settling /\ raced' = raced /\ db' = db
  BY DEF Skip, HotApply, Start, StartFails, Settling
<1>2. proc'.snap = op.want
  <2>1. ASSUME Skip PROVE proc'.snap = op.want
    BY <2>1 DEF Skip, Unchanged
  <2>2. ASSUME HotApply PROVE proc'.snap = op.want
    BY <2>2 DEF HotApply, TypeOK
  <2>3. ASSUME Start PROVE proc'.snap = op.want
    <3>1. proc' = [st |-> "up", snap |-> op.want, core |-> op.want]
      BY <2>3 DEF Start
    <3> QED  BY <3>1
  <2>4. ASSUME StartFails PROVE proc'.snap = op.want
    <3>1. proc' = [st |-> "down", snap |-> op.want, core |-> {}]
      BY <2>4 DEF StartFails
    <3> QED  BY <3>1
  <2> QED  BY <2>1, <2>2, <2>3, <2>4
<1> QED  BY <1>1, <1>2 DEF WantIsDb, Says

\* After the API's answer the edit is no longer on its way to the core.
LEMMA ToldEdit ==
  ASSUME TypeOK, NEW e \in Editors, NEW need \in BOOLEAN, Told(e, need)
  PROVE  /\ ed'[e].pc = (IF e \in Jobs THEN "restart" ELSE "flag") /\ ed'[e].need = need
         /\ \A o \in Editors \ {e} : ed'[o] = ed[o]
         /\ waiting \subseteq waiting' /\ (e \in Jobs => e \in waiting')
<1>1. ed[e] \in [pc : {"idle", "api", "restart", "flag"}, user : SUBSET Users,
                 adding : BOOLEAN, need : BOOLEAN]
  BY DEF TypeOK
<1>2. \A o \in Editors \ {e} : ed'[o] = ed[o]
  BY DEF Told, TypeOK
<1>3. ed'[e] = [ed[e] EXCEPT !.pc = IF e \in Jobs THEN "restart" ELSE "flag", !.need = need]
  BY DEF Told, TypeOK
<1>4. ed'[e].pc = (IF e \in Jobs THEN "restart" ELSE "flag") /\ ed'[e].need = need
  BY <1>1, <1>3
<1>5. waiting \subseteq waiting' /\ (e \in Jobs => e \in waiting')
  BY DEF Told
<1> QED  BY <1>2, <1>4, <1>5

\* The API changes what the core serves, not what it was started with.
LEMMA AppliedSnap ==
  ASSUME TypeOK, NEW e \in Editors
  PROVE  /\ Applied(e).snap = proc.snap
         /\ Applied(e).core = IF ed[e].adding THEN proc.core \cup ed[e].user
                                              ELSE proc.core \ ed[e].user
BY DEF TypeOK, Applied

\* What a commit does to the user it is about, and to the edits.
Toggles(e, u) ==
  /\ db' = IF u \in db THEN db \ {u} ELSE db \cup {u}
  /\ ed[e].pc = "idle"
  /\ ed'[e] = [pc |-> "api", user |-> {u}, adding |-> u \notin db, need |-> FALSE]
  /\ \A d \in Editors \ {e} : ed'[d] = ed[d]
  /\ raced \subseteq raced'
  /\ op.phase \in {"decide", "start"} => u \in raced'
  /\ \A d \in Editors \ {e} : ed[d].pc = "api" /\ u \in ed[d].user => u \in raced'

LEMMA CommitToggles ==
  ASSUME TypeOK, NEW e \in Editors, Commit(e)
  PROVE  \E u \in Users : Toggles(e, u)
<1>1. PICK u \in IF e = "admin" THEN Users ELSE db :
        /\ db' = IF u \in db THEN db \ {u} ELSE db \cup {u}
        /\ ed' = [ed EXCEPT ![e] = [pc |-> "api", user |-> {u}, adding |-> u \notin db, need |-> FALSE]]
        /\ raced' = IF \/ op.phase \in {"decide", "start"}
                       \/ \E o \in Editors \ {e} : ed[o].pc = "api" /\ u \in ed[o].user
                    THEN raced \cup {u} ELSE raced
  BY DEF Commit
<1>2. u \in Users
  BY DEF TypeOK
<1>3. /\ ed'[e] = [pc |-> "api", user |-> {u}, adding |-> u \notin db, need |-> FALSE]
      /\ \A d \in Editors \ {e} : ed'[d] = ed[d]
  BY <1>1 DEF TypeOK
<1>4. ed[e].pc = "idle"
  BY DEF Commit, MayCommit
<1>5. raced \subseteq raced' /\ (op.phase \in {"decide", "start"} => u \in raced')
  BY <1>1
<1>6. ASSUME NEW d \in Editors \ {e}, ed[d].pc = "api", u \in ed[d].user PROVE u \in raced'
  BY <1>1, <1>6
<1> QED  BY <1>1, <1>2, <1>3, <1>4, <1>5, <1>6 DEF Toggles

\* A call on its way to the core says what the database says, wherever the
\* process's configuration does not.
LEMMA CallsStep ==
  ASSUME TypeOK, WantIsDb, CallsSayDb, [Next]_vars
  PROVE  CallsSayDb'
<1>1. ASSUME NEW c \in Callers, Begin(c) PROVE CallsSayDb'
  <2>1. ~Settling /\ db' = db /\ raced' = raced /\ proc' = proc
    BY <1>1 DEF Begin, Settling
  <2>2. \A e \in Editors : ed'[e].pc = "api" => ed'[e] = ed[e]
    <3>1. CASE ed' = ed
      BY <3>1
    <3>2. CASE c \in Editors /\ ed' = [ed EXCEPT ![c].pc = "flag"]
      BY <3>2 DEF TypeOK
    <3> QED  BY <1>1, <3>1, <3>2 DEF Begin
  <2> QED  BY <2>1, <2>2 DEF CallsSayDb, Says
<1>2. ASSUME ReadConfig PROVE CallsSayDb'
  BY <1>2 DEF ReadConfig, CallsSayDb, Settling, TypeOK
<1>3. ASSUME ReadFails PROVE CallsSayDb'
  <2>1. ~Settling /\ db' = db /\ raced' = raced /\ proc' = proc
    BY <1>3 DEF ReadFails, Settling
  <2>2. \A e \in Editors : ed'[e].pc = "api" => ed'[e] = ed[e]
    <3>1. CASE ed' = ed
      BY <3>1
    <3>2. CASE op.who \in Editors /\ ed' = [ed EXCEPT ![op.who].pc = "flag"]
      BY <3>2 DEF TypeOK
    <3> QED  BY <1>3, <3>1, <3>2 DEF ReadFails, Return
  <2> QED  BY <2>1, <2>2 DEF CallsSayDb, Says
<1>4. ASSUME Skip \/ HotApply \/ Start \/ StartFails PROVE CallsSayDb'
  BY <1>4, SettledSays DEF CallsSayDb
<1>5. ASSUME HotApplyFails \/ Stop PROVE CallsSayDb'
  BY <1>5 DEF HotApplyFails, Stop, CallsSayDb, Settling, TypeOK
<1>6. ASSUME Crash \/ StopXray PROVE CallsSayDb'
  <2>1. proc'.snap = proc.snap
    BY <1>6 DEF Crash, StopXray, TypeOK
  <2> QED  BY <1>6, <2>1 DEF Crash, StopXray, CallsSayDb, Settling, Says
<1>7. ASSUME ApplyPendingRestart \/ CheckTick \/ OrderRestart PROVE CallsSayDb'
  BY <1>7 DEF ApplyPendingRestart, CheckTick, OrderRestart, CallsSayDb, Settling, Says
<1>8. ASSUME NEW e \in Editors, Commit(e) PROVE CallsSayDb'
  <2> SUFFICES ASSUME ~Settling', NEW v \in Users \ raced', ~Says(proc.snap, v)',
                      NEW o \in Editors, ed'[o].pc = "api", v \in ed'[o].user
               PROVE  ed'[o].adding <=> v \in db'
    BY DEF CallsSayDb
  <2>1. ~Settling /\ v \notin raced /\ proc' = proc /\ op' = op
    BY <1>8 DEF Commit, Settling
  <2>2. PICK u \in Users : Toggles(e, u)
    BY <1>8, CommitToggles
  <2>3. CASE v = u
    <3>1. o = e
      BY <2>1, <2>2, <2>3 DEF Toggles, Settling
    <3>2. ed'[e].adding = (u \notin db)
      BY <2>2 DEF Toggles
    <3> QED  BY <2>2, <2>3, <3>1, <3>2 DEF Toggles
  <2>4. CASE v # u
    <3>1. o # e /\ ed'[o] = ed[o]
      BY <2>2, <2>4 DEF Toggles
    <3>2. v \in db' <=> v \in db
      BY <2>2, <2>4 DEF Toggles
    <3>3. v \in Users \ raced
      BY <2>1
    <3> QED  BY <2>1, <3>1, <3>3, <3>2 DEF CallsSayDb, Says
  <2> QED  BY <2>3, <2>4
<1>9. ASSUME NEW e \in Editors, ApiCall(e) PROVE CallsSayDb'
  <2>1. db' = db /\ raced' = raced /\ op' = op
    BY <1>9 DEF ApiCall, ApiAnswers, ApiFails, ApiUnreachable
  <2>2. proc'.snap = proc.snap
    BY <1>9, AppliedSnap DEF ApiCall, ApiAnswers, ApiFails, ApiUnreachable
  <2>3. PICK need \in BOOLEAN : Told(e, need)
    BY <1>9 DEF ApiCall, ApiAnswers, ApiFails, ApiUnreachable
  <2>4. ed'[e].pc # "api" /\ \A o \in Editors \ {e} : ed'[o] = ed[o]
    BY <2>3, ToldEdit
  <2> QED  BY <2>1, <2>2, <2>4 DEF CallsSayDb, Settling, Says
<1>10. ASSUME NEW e \in Editors, SetToNeedRestart(e) PROVE CallsSayDb'
  <2>1. ed'[e].pc # "api" /\ \A o \in Editors \ {e} : ed'[o] = ed[o]
    BY <1>10 DEF SetToNeedRestart, NoEdit, TypeOK
  <2> QED  BY <1>10, <2>1 DEF SetToNeedRestart, CallsSayDb, Settling, Says
<1>11. ASSUME UNCHANGED vars PROVE CallsSayDb'
  BY <1>11 DEF vars, CallsSayDb, Settling, Says
<1> QED
  BY <1>1, <1>2, <1>3, <1>4, <1>5, <1>6, <1>7, <1>8, <1>9, <1>10, <1>11
     DEF Next, RestartXray

\* What was coming is still coming, when nothing that counts goes away.
LEMMA StillComing ==
  ASSUME TypeOK, NEW u, Coming(u),
         Asked => Asked',
         \A e \in Editors : ed'[e] = ed[e]
  PROVE  Coming(u)'
BY DEF Coming, Asking, Calling

\* An answered call of e has told the core, asked for a restart, or left
\* everything that was coming for the others.
LEMMA DriftCall ==
  ASSUME TypeOK, CallsSayDb, Drifts, NEW e \in Editors, ApiCall(e), Running', ~Settling',
         NEW u \in Users \ raced'
  PROVE  Says(proc.snap, u)' \/ Says(proc.core, u)' \/ Coming(u)'
<1>1. db' = db /\ raced' = raced /\ op' = op /\ flag' = flag /\ ed[e].pc = "api"
  BY DEF ApiCall, ApiAnswers, ApiFails, ApiUnreachable
<1>2. proc'.snap = proc.snap /\ Running
  BY AppliedSnap, AppliedRuns DEF ApiCall, ApiAnswers, ApiFails, ApiUnreachable, Running
<1>3. u \in Users \ raced /\ ~Settling
  BY <1>1 DEF Settling
<1>4. ASSUME Told(e, TRUE) PROVE Coming(u)'
  <2>1. CASE e \in Jobs
    BY <1>4, <2>1, ToldEdit DEF Coming, Asked, Jobs
  <2>2. CASE e \notin Jobs
    <3>1. ed'[e].pc = "flag" /\ ed'[e].need = TRUE /\ e # "node"
      BY <1>4, <2>2, ToldEdit DEF Jobs
    <3> QED  BY <3>1 DEF Coming, Asking
  <2> QED  BY <2>1, <2>2
<1>5. ASSUME Told(e, FALSE), proc' = Applied(e), ~Says(proc.snap, u)
      PROVE  Says(proc.core, u)' \/ Coming(u)'
  <2>1. CASE u \in ed[e].user
    <3>1. ed[e].adding <=> u \in db
      BY <1>1, <1>3, <1>5, <2>1 DEF CallsSayDb
    <3>2. u \in proc'.core <=> ed[e].adding
      BY <1>5, <2>1, AppliedSnap
    <3> QED  BY <1>1, <3>1, <3>2 DEF Says
  <2>2. CASE u \notin ed[e].user
    <3>1. u \in proc'.core <=> u \in proc.core
      BY <1>5, <2>2, AppliedSnap
    <3>2. CASE Says(proc.core, u)
      BY <1>1, <3>1, <3>2 DEF Says
    <3>3. CASE Coming(u)
      <4>1. ~Asking(e) /\ ~Calling(e, u)
        BY <1>1, <2>2 DEF Asking, Calling
      <4>2. CASE Asked
        BY <1>1, <1>5, <4>2, ToldEdit DEF Coming, Asked
      <4>3. ASSUME NEW o \in Editors \ {e}, Asking(o) \/ Calling(o, u) PROVE Coming(u)'
        <5>1. ed'[o] = ed[o]
          BY <1>5, ToldEdit
        <5> QED  BY <4>3, <5>1 DEF Coming, Asking, Calling
      <4> QED  BY <3>3, <4>1, <4>2, <4>3 DEF Coming
    <3> QED  BY <1>2, <1>3, <1>5, <3>2, <3>3 DEF Drifts
  <2> QED  BY <2>1, <2>2
<1>6. CASE Says(proc.snap, u)
  BY <1>1, <1>2, <1>6 DEF Says
<1>7. CASE ~Says(proc.snap, u)
  BY <1>2, <1>4, <1>5, <1>7 DEF ApiCall, ApiAnswers, ApiFails, ApiUnreachable
<1> QED  BY <1>6, <1>7

\* A drift of a user nobody has raced is told to the core or asked about.
LEMMA DriftStep ==
  ASSUME TypeOK, TypeOK', Stopped, WantIsDb, CallsSayDb, Drifts, [Next]_vars
  PROVE  Drifts'
<1> SUFFICES ASSUME Running', ~Settling', NEW u \in Users \ raced'
             PROVE  Says(proc.snap, u)' \/ Says(proc.core, u)' \/ Coming(u)'
  BY DEF Drifts
<1> DEFINE Goal == Says(proc.snap, u)' \/ Says(proc.core, u)' \/ Coming(u)'
<1>a. ASSUME Running, ~Settling, db' = db, raced' = raced, proc' = proc, Coming(u) => Coming(u)'
      PROVE  Goal
  BY <1>a DEF Drifts, Says
<1>1. ASSUME NEW c \in Callers, Begin(c) PROVE Goal
  <2>1. Running /\ ~Settling /\ db' = db /\ raced' = raced /\ proc' = proc
    BY <1>1 DEF Begin, Running, Settling
  <2>2. op'.who = c /\ waiting' = waiting \ {c} /\ ed' = ed /\ flag' = flag
    BY <1>1, <2>1 DEF Begin, Stopped, NoOp
  <2>3. op.who = "nobody"
    BY <1>1 DEF Begin, TypeOK
  <2>4. Asked => Asked'
    BY <2>2, <2>3 DEF Asked
  <2>5. Coming(u) => Coming(u)'
    BY <2>2, <2>4, StillComing
  <2> QED  BY <1>a, <2>1, <2>5
<1>2. ASSUME ReadConfig PROVE Goal
  BY <1>2 DEF ReadConfig, Settling, TypeOK
<1>3. ASSUME ReadFails PROVE Goal
  <2>1. Running /\ ~Settling /\ db' = db /\ raced' = raced /\ proc' = proc
    BY <1>3 DEF ReadFails, Running, Settling
  <2>2. CASE op.who \in {"apply", "traffic", "node"}
    BY <1>3, <2>2 DEF ReadFails, Return, Coming, Asked
  <2>3. CASE op.who \notin {"apply", "traffic", "node"}
    <3>1. op.who \notin Editors
      BY <1>3, <2>3 DEF ReadFails, TypeOK, Editors, Callers
    <3>2. ed' = ed /\ (flag' <=> flag) /\ waiting' = waiting
      BY <1>3, <2>3, <3>1 DEF ReadFails, Return
    <3>3. Asked => Asked'
      BY <2>3, <3>2 DEF Asked
    <3>4. Coming(u) => Coming(u)'
      BY <3>2, <3>3, StillComing
    <3> QED  BY <1>a, <2>1, <3>4
  <2> QED  BY <2>2, <2>3
<1>4. ASSUME Skip \/ HotApply \/ Start \/ StartFails PROVE Goal
  BY <1>4, SettledSays
<1>5. ASSUME HotApplyFails \/ Stop \/ Crash \/ StopXray PROVE Goal
  BY <1>5 DEF HotApplyFails, Stop, Crash, StopXray, Running, TypeOK
<1>6. ASSUME ApplyPendingRestart \/ CheckTick \/ OrderRestart PROVE Goal
  <2>1. Running /\ ~Settling /\ db' = db /\ raced' = raced /\ proc' = proc /\ ed' = ed /\ op' = op
    BY <1>6 DEF ApplyPendingRestart, CheckTick, OrderRestart, Running, Settling
  <2>2. waiting \subseteq waiting' /\ (flag' = flag \/ "apply" \in waiting')
    BY <1>6 DEF ApplyPendingRestart, CheckTick, OrderRestart, Call
  <2>3. Asked => Asked'
    BY <2>1, <2>2 DEF Asked
  <2>4. Coming(u) => Coming(u)'
    BY <2>1, <2>3, StillComing
  <2> QED  BY <1>a, <2>1, <2>4
<1>7. ASSUME NEW e \in Editors, Commit(e) PROVE Goal
  <2>1. Running /\ ~Settling /\ proc' = proc /\ op' = op /\ flag' = flag /\ waiting' = waiting
    BY <1>7 DEF Commit, Running, Settling
  <2>2. PICK v \in Users : Toggles(e, v)
    BY <1>7, CommitToggles
  <2>3. CASE u = v
    BY <2>2, <2>3 DEF Toggles, Coming, Calling
  <2>4. CASE u # v
    <3>1. (u \in db' <=> u \in db) /\ u \in Users \ raced
      BY <2>2, <2>4 DEF Toggles
    <3>2. CASE Coming(u)
      <4>1. ~Asking(e) /\ ~Calling(e, u)
        BY <2>2 DEF Toggles, Asking, Calling
      <4>2. CASE Asked
        BY <2>1, <4>2 DEF Asked, Coming
      <4>3. ASSUME NEW o \in Editors \ {e}, Asking(o) \/ Calling(o, u) PROVE Coming(u)'
        <5>1. ed'[o] = ed[o]
          BY <2>2 DEF Toggles
        <5> QED  BY <4>3, <5>1 DEF Coming, Asking, Calling
      <4> QED  BY <3>2, <4>1, <4>2, <4>3 DEF Coming
    <3>3. CASE Says(proc.snap, u) \/ Says(proc.core, u)
      BY <2>1, <3>1, <3>3 DEF Says
    <3> QED  BY <2>1, <3>1, <3>2, <3>3 DEF Drifts
  <2> QED  BY <2>3, <2>4
<1>8. ASSUME NEW e \in Editors, ApiCall(e) PROVE Goal
  BY <1>8, DriftCall
<1>9. ASSUME NEW e \in Editors, SetToNeedRestart(e) PROVE Goal
  <2>1. /\ Running /\ ~Settling /\ db' = db /\ raced' = raced /\ proc' = proc
        /\ op' = op /\ waiting' = waiting /\ ed[e].pc = "flag"
    BY <1>9 DEF SetToNeedRestart, Running, Settling
  <2>2. \A o \in Editors \ {e} : ed'[o] = ed[o]
    BY <1>9 DEF SetToNeedRestart, TypeOK
  <2>3. flag' <=> flag \/ (ed[e].need /\ e # "node")
    BY <1>9 DEF SetToNeedRestart
  <2>4. ASSUME Coming(u) PROVE Coming(u)'
    <3>1. CASE Asked \/ Asking(e)
      BY <2>1, <2>3, <3>1 DEF Asked, Asking, Coming
    <3>2. ~Calling(e, u)
      BY <2>1 DEF Calling
    <3>3. ASSUME NEW o \in Editors \ {e}, Asking(o) \/ Calling(o, u) PROVE Coming(u)'
      <4>1. ed'[o] = ed[o]
        BY <2>2
      <4> QED  BY <3>3, <4>1 DEF Coming, Asking, Calling
    <3> QED  BY <2>4, <3>1, <3>2, <3>3 DEF Coming
  <2> QED  BY <1>a, <2>1, <2>4
<1>10. ASSUME UNCHANGED vars PROVE Goal
  BY <1>10 DEF vars, Drifts, Running, Settling, Says, Coming, Asked, Asking, Calling
<1> QED
  BY <1>1, <1>2, <1>3, <1>4, <1>5, <1>6, <1>7, <1>8, <1>9, <1>10
     DEF Next, RestartXray

(* For any users and any numbers of edits, faults, crashes and orders: a drift
   between the core and the database that nobody is asked to mend is one the
   next comparison of configurations sees, but for users edited while a
   restart was at work (RestartXray, SetToNeedRestart). *)
THEOREM DriftKnown == Spec => []DriftIsKnown
<1>1. Init => Stopped /\ DriftInv
  BY DEF Init, Stopped, DriftInv, WantIsDb, CallsSayDb, Drifts, Settling, Says, NoOp, NoEdit
<1>2. TypeOK /\ TypeOK' /\ Stopped /\ DriftInv /\ [Next]_vars => Stopped' /\ DriftInv'
  BY StopStep, WantStep, CallsStep, DriftStep DEF DriftInv
<1>3. TypeOK /\ DriftInv => DriftIsKnown
  <2> SUFFICES ASSUME TypeOK, DriftInv, Quiet, Running, ~flag, NEW u \in Users \ raced
               PROVE  Says(proc.core, u) \/ Says(proc.snap, u)
    BY DEF DriftIsKnown, Says
  <2>1. ~Coming(u)
    BY DEF Quiet, Coming, Asked, Asking, Calling, TypeOK
  <2> QED  BY <2>1 DEF DriftInv, Drifts, Quiet, Settling
<1> QED  BY <1>1, <1>2, <1>3, TypeCorrect, PTL DEF Spec
=============================================================================
