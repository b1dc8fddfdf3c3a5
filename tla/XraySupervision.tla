-------------------------- MODULE XraySupervision ---------------------------
(***************************************************************************)
(* How the panel keeps its own Xray in step with the database              *)
(* (service/xray.go RestartXray and around it).  An edit commits the       *)
(* database, then tells the running core through its API, and asks for a   *)
(* restart by a flag when that fails; a job takes the flag every thirty    *)
(* seconds.  Restarts are serialised by a mutex, edits are not: they go on *)
(* while a restart has read its configuration and not yet used it.         *)
(***************************************************************************)
EXTENDS Naturals, FiniteSets

CONSTANTS
    Users,         \* clients of the local inbounds
    MaxEdits,      \* bound on edits
    MaxFaults,     \* bound on failing calls
    MaxCrashes,    \* bound on crashes of the core
    MaxOrders      \* bound on the operator's stops and restarts

VARIABLES
    db,        \* the enabled users of the database
    proc,      \* xrayState.process: st, the config it was given, what the core serves
    flag,      \* isNeedXrayRestart
    manual,    \* isManuallyStopped
    op,        \* the RestartXray that holds the mutex
    waiting,   \* callers of RestartXray that wait for it
    checkTime, \* CheckXrayRunningJob.checkTime
    ed,        \* the edits under way, by who makes them
    raced,     \* history: users edited since the last configuration was read
    budget     \* edits, faults, crashes and orders so far

vars == <<db, proc, flag, manual, op, waiting, checkTime, ed, raced, budget>>

\* Who edits users: the panel's operator, the traffic job and the node job,
\* which disable users that have run out.
Editors == {"admin", "traffic", "node"}

\* Who calls RestartXray, and who of them with isForce: the node job, and the
\* operator; the tunnel monitor's recovery is the operator's call.
Callers == {"apply", "check", "traffic", "node", "operator"}
Forced == {"node", "operator"}

NoOp == [who |-> "nobody", phase |-> "idle", want |-> {}]
NoEdit == [pc |-> "idle", user |-> {}, adding |-> FALSE, need |-> FALSE]

Running == proc.st = "up"
Spend(kind) == budget' = [budget EXCEPT ![kind] = @ + 1]
MaxOf == [edits |-> MaxEdits, faults |-> MaxFaults, crashes |-> MaxCrashes, orders |-> MaxOrders]
Left(kind) == budget[kind] < MaxOf[kind]

Init ==
    /\ db \in SUBSET Users
    /\ proc = [st |-> "up", snap |-> db, core |-> db]
    /\ flag = FALSE /\ manual = FALSE
    /\ op = NoOp /\ waiting = {} /\ checkTime = 0
    /\ ed = [e \in Editors |-> NoEdit]
    /\ raced = {}
    /\ budget = [k \in DOMAIN MaxOf |-> 0]

----------------------------------------------------------------------------
(* RestartXray, step by step under the mutex.                              *)

\* Mutant of Return: the jobs do not ask again for a restart that failed.
ReturnForgets(failed) ==
    /\ op' = NoOp
    /\ ed' = IF op.who \in Editors THEN [ed EXCEPT ![op.who].pc = "flag"] ELSE ed
    /\ flag' = flag

\* What a caller does with RestartXray's answer: the flag's job and the jobs
\* that disable users ask again when it failed.
Return(failed) ==
    /\ op' = NoOp
    /\ ed' = IF op.who \in Editors THEN [ed EXCEPT ![op.who].pc = "flag"] ELSE ed
    /\ flag' = (flag \/ (failed /\ op.who \in {"apply", "traffic", "node"}))

\* Mutant of Begin: the operator's stop is not looked at.
BeginUnasked(c) ==
    /\ op.phase = "idle" /\ c \in waiting
    /\ waiting' = waiting \ {c}
    /\ op' = [NoOp EXCEPT !.who = c, !.phase = "read"] /\ manual' = FALSE /\ UNCHANGED ed
    /\ UNCHANGED <<db, proc, flag, checkTime, raced, budget>>

\* A restart that is not forced leaves a stopped Xray alone.
Begin(c) ==
    /\ op.phase = "idle" /\ c \in waiting
    /\ waiting' = waiting \ {c}
    /\ IF c \notin Forced /\ manual
       THEN /\ ed' = IF c \in Editors THEN [ed EXCEPT ![c].pc = "flag"] ELSE ed
            /\ UNCHANGED <<op, manual>>
       ELSE op' = [NoOp EXCEPT !.who = c, !.phase = "read"] /\ manual' = FALSE /\ UNCHANGED ed
    /\ UNCHANGED <<db, proc, flag, checkTime, raced, budget>>

ReadConfig ==
    /\ op.phase = "read"
    /\ op' = [op EXCEPT !.phase = "decide", !.want = db]
    /\ raced' = {}
    /\ UNCHANGED <<db, proc, flag, manual, waiting, checkTime, ed, budget>>

ReadFails ==
    /\ op.phase = "read" /\ Left("faults")
    /\ Return(TRUE)
    /\ Spend("faults")
    /\ UNCHANGED <<db, proc, manual, waiting, checkTime, raced>>

Unchanged == proc.snap = op.want

\* The running core has this configuration already and nobody has asked.
Skip ==
    /\ op.phase = "decide" /\ Running /\ op.who \notin Forced /\ Unchanged /\ ~flag
    /\ Return(FALSE)
    /\ UNCHANGED <<db, proc, manual, waiting, checkTime, raced, budget>>

\* tryHotApply: the difference between the two configurations, removals first,
\* goes through the API.
HotApply ==
    /\ op.phase = "decide" /\ Running /\ op.who \notin Forced /\ ~Unchanged
    /\ proc' = [proc EXCEPT !.snap = op.want,
                            !.core = (@ \ (proc.snap \ op.want)) \cup (op.want \ proc.snap)]
    /\ Return(FALSE)
    /\ UNCHANGED <<db, manual, waiting, checkTime, raced, budget>>

\* The API fails on the way, or cannot make the change: back to a restart.
HotApplyFails ==
    /\ op.phase = "decide" /\ Running /\ op.who \notin Forced /\ ~Unchanged
    /\ Left("faults")
    /\ op' = [op EXCEPT !.phase = "start"]
    /\ proc' = [proc EXCEPT !.st = "down"]
    /\ Spend("faults")
    /\ UNCHANGED <<db, flag, manual, waiting, checkTime, ed, raced>>

\* A forced restart, and one that was asked for without a change to show for it.
Stop ==
    /\ op.phase = "decide" /\ Running
    /\ op.who \in Forced \/ (Unchanged /\ flag)
    /\ op' = [op EXCEPT !.phase = "start"]
    /\ proc' = [proc EXCEPT !.st = "down"]
    /\ UNCHANGED <<db, flag, manual, waiting, checkTime, ed, raced, budget>>

Start ==
    /\ op.phase = "start" \/ (op.phase = "decide" /\ ~Running)
    /\ proc' = [st |-> "up", snap |-> op.want, core |-> op.want]
    /\ Return(FALSE)
    /\ UNCHANGED <<db, manual, waiting, checkTime, raced, budget>>

StartFails ==
    /\ op.phase = "start" \/ (op.phase = "decide" /\ ~Running)
    /\ Left("faults")
    /\ proc' = [st |-> "down", snap |-> op.want, core |-> {}]
    /\ Return(TRUE)
    /\ Spend("faults")
    /\ UNCHANGED <<db, manual, waiting, checkTime, raced>>

Crash ==
    /\ Running /\ Left("crashes")
    /\ proc' = [proc EXCEPT !.st = "down"]
    /\ Spend("crashes")
    /\ UNCHANGED <<db, flag, manual, op, waiting, checkTime, ed, raced>>

----------------------------------------------------------------------------
(* The callers.                                                            *)

Call(c) == c \notin waiting /\ op.who # c /\ waiting' = waiting \cup {c}

\* ApplyPendingRestart: the flag is taken first.
ApplyPendingRestart ==
    /\ flag /\ Call("apply")
    /\ flag' = FALSE
    /\ UNCHANGED <<db, proc, manual, op, checkTime, ed, raced, budget>>

\* Mutant of CheckTick: the count is not taken back once Xray is restarted.
CheckTickCounts ==
    /\ "check" \notin waiting /\ op.who # "check"
    /\ LET crashed == ~Running /\ ~manual
       IN  /\ checkTime # 0 \/ crashed
           /\ checkTime' = IF crashed THEN checkTime + 1 ELSE 0
           /\ waiting' = IF crashed /\ checkTime = 1 THEN waiting \cup {"check"} ELSE waiting
    /\ UNCHANGED <<db, proc, flag, manual, op, ed, raced, budget>>

\* Mutant of CheckTick: a check that finds Xray down forgets the one before.
CheckTickForgets ==
    /\ "check" \notin waiting /\ op.who # "check"
    /\ checkTime' = 0
    /\ waiting' = IF ~Running /\ ~manual /\ checkTime = 1 THEN waiting \cup {"check"} ELSE waiting
    /\ UNCHANGED <<db, proc, flag, manual, op, ed, raced, budget>>

\* CheckXrayRunningJob, every second: the second check in a row that finds
\* Xray down restarts it.
CheckTick ==
    /\ "check" \notin waiting /\ op.who # "check"
    /\ LET crashed == ~Running /\ ~manual
       IN  /\ checkTime # 0 \/ crashed
           /\ checkTime' = IF crashed /\ checkTime = 0 THEN 1 ELSE 0
           /\ waiting' = IF crashed /\ checkTime = 1 THEN waiting \cup {"check"} ELSE waiting
    /\ UNCHANGED <<db, proc, flag, manual, op, ed, raced, budget>>

\* RestartXrayService: the operator's restart, and the tunnel monitor's.
OrderRestart ==
    /\ Left("orders") /\ Call("operator")
    /\ Spend("orders")
    /\ UNCHANGED <<db, proc, flag, manual, op, checkTime, ed, raced>>

StopXray ==
    /\ op.phase = "idle" /\ Left("orders")
    /\ manual' = TRUE
    /\ proc' = IF Running THEN [proc EXCEPT !.st = "down"] ELSE proc
    /\ Spend("orders")
    /\ UNCHANGED <<db, flag, op, waiting, checkTime, ed, raced>>

----------------------------------------------------------------------------
(* The edits: commit, API, and where one follows the restart, the flag.    *)

Jobs == {"traffic", "node"}

\* The jobs commit and call the API inside one serialised traffic write, and
\* the traffic job does nothing while Xray is down.
MayCommit(e) ==
    /\ ed[e].pc = "idle"
    /\ e \in Jobs => \A j \in Jobs : ed[j].pc # "api"
    /\ e = "traffic" => Running

\* The committed edit: a user is added or enabled, or removed or disabled.  A
\* restart that has read its configuration does not know of it, and an edit of
\* the same user that is still on its way to the core may arrive after it.
Commit(e) ==
    /\ Left("edits") /\ MayCommit(e)
    /\ \E u \in IF e = "admin" THEN Users ELSE db :
         /\ db' = IF u \in db THEN db \ {u} ELSE db \cup {u}
         /\ ed' = [ed EXCEPT ![e] = [pc |-> "api", user |-> {u}, adding |-> u \notin db, need |-> FALSE]]
         /\ raced' = IF \/ op.phase \in {"decide", "start"}
                        \/ \E o \in Editors \ {e} : ed[o].pc = "api" /\ u \in ed[o].user
                     THEN raced \cup {u} ELSE raced
    /\ Spend("edits")
    /\ UNCHANGED <<proc, flag, manual, op, waiting, checkTime>>

\* After the API: the operator's request goes on to the flag, the jobs, which
\* have disabled a user, to RestartXray.
Told(e, need) ==
    /\ ed' = [ed EXCEPT ![e].pc = IF e \in Jobs THEN "restart" ELSE "flag", ![e].need = need]
    /\ waiting' = waiting \cup ({e} \cap Jobs)

Applied(e) == [proc EXCEPT !.core = IF ed[e].adding THEN @ \cup ed[e].user ELSE @ \ ed[e].user]

\* Adding a user the core has is an error; removing one it has not is none.
ApiAnswers(e) ==
    /\ ed[e].pc = "api" /\ Running
    /\ IF ed[e].adding /\ ed[e].user \subseteq proc.core
       THEN Told(e, TRUE) /\ UNCHANGED proc
       ELSE Told(e, FALSE) /\ proc' = Applied(e)
    /\ UNCHANGED <<db, flag, manual, op, checkTime, raced, budget>>

\* The call fails, before or after the core has done it.
ApiFails(e) ==
    /\ ed[e].pc = "api" /\ Running /\ Left("faults")
    /\ Told(e, TRUE)
    /\ proc' \in {proc, Applied(e)}
    /\ Spend("faults")
    /\ UNCHANGED <<db, flag, manual, op, checkTime, raced>>

ApiUnreachable(e) ==
    /\ ed[e].pc = "api" /\ ~Running
    /\ Told(e, TRUE)
    /\ UNCHANGED <<db, proc, flag, manual, op, checkTime, raced, budget>>

\* The node job has thrown its own request away.
SetToNeedRestart(e) ==
    /\ ed[e].pc = "flag"
    /\ flag' = (flag \/ (ed[e].need /\ e # "node"))
    /\ ed' = [ed EXCEPT ![e] = NoEdit]
    /\ UNCHANGED <<db, proc, manual, op, waiting, checkTime, raced, budget>>

----------------------------------------------------------------------------
RestartXray == ReadConfig \/ ReadFails \/ Skip \/ HotApply \/ HotApplyFails \/ Stop \/ Start \/ StartFails

ApiCall(e) == ApiAnswers(e) \/ ApiFails(e) \/ ApiUnreachable(e)

Next ==
    \/ \E c \in Callers : Begin(c)
    \/ RestartXray
    \/ Crash \/ StopXray
    \/ ApplyPendingRestart \/ CheckTick \/ OrderRestart
    \/ \E e \in Editors : Commit(e) \/ ApiCall(e) \/ SetToNeedRestart(e)

Spec == Init /\ [][Next]_vars

\* The cron runs its jobs again and again, what was begun goes on, and a Go
\* mutex is handed to whoever has waited for more than a millisecond.
FairSpec ==
    /\ Spec
    /\ WF_vars(RestartXray)
    /\ SF_vars(Begin("check")) /\ SF_vars(Begin("apply"))
    /\ WF_vars(ApplyPendingRestart) /\ WF_vars(CheckTick)
    /\ \A e \in Editors : WF_vars(ApiCall(e)) /\ WF_vars(SetToNeedRestart(e))

----------------------------------------------------------------------------
TypeOK ==
    /\ db \subseteq Users
    /\ proc \in [st : {"up", "down"}, snap : SUBSET Users, core : SUBSET Users]
    /\ flag \in BOOLEAN /\ manual \in BOOLEAN
    /\ op \in [who : Callers \cup {"nobody"}, phase : {"idle", "read", "decide", "start"}, want : SUBSET Users]
    /\ op.phase = "idle" <=> op.who = "nobody"
    /\ waiting \subseteq Callers
    /\ checkTime \in {0, 1}
    /\ ed \in [Editors -> [pc : {"idle", "api", "restart", "flag"}, user : SUBSET Users,
                           adding : BOOLEAN, need : BOOLEAN]]
    /\ raced \subseteq Users

Quiet == op.phase = "idle" /\ waiting = {} /\ \A e \in Editors : ed[e].pc = "idle"

\* Whatever is stopped, restarted, disabled and lost on the way: when nothing
\* is under way and no restart is asked for, the running core serves a user as
\* the database says, or the restart that comes next will not look for a
\* difference in that user (xray.go:1360 compares configurations, not cores).
\* The exception is a user edited while a restart had read its configuration.
DriftIsKnown ==
    Quiet /\ Running /\ ~flag =>
        \A u \in Users \ raced : (u \in proc.core <=> u \in db) \/ (u \in proc.snap <=> u \in db)

\* An Xray the operator has stopped is down and nobody is on the way to
\* starting it, though the crash check, the pending restart and the traffic job
\* may all have been waiting for the mutex when he stopped it; only a restart
\* that is forced takes the stop back (xray.go:1353-1356).
StopIsRespected ==
    [][/\ manual' => ~Running' /\ op'.phase = "idle"
       /\ manual /\ ~manual' => \E c \in Forced : c \in waiting /\ c \notin waiting']_vars

\* Xray does not stay down: a crash, a failed start or a failed configuration
\* is got over, by the check, unless the operator has stopped it.
ComesBack == (~Running /\ ~manual) ~> (Running \/ manual)
=============================================================================
