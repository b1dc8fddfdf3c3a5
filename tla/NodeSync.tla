------------------------------ MODULE NodeSync ------------------------------
(***************************************************************************)
(* How the panel keeps one node's copy of one inbound equal to its own     *)
(* (src/internal/web/service, job/node_traffic_sync_job.go and             *)
(* runtime/remote.go).  Administrators edit the panel's row: each edit     *)
(* commits it together with the node's dirty flag and a timestamp, and     *)
(* then tries to push its change to the node.  Every five seconds the sync *)
(* job pushes the whole row if the flag is set and clears the flag if the  *)
(* timestamp is still the one it started from; then it fetches the node's  *)
(* row and, if the flag is clear, adopts it, because an administrator of   *)
(* the node may have edited it there.                                      *)
(*                                                                         *)
(* A row is its set of clients and its enable switch; the wire payload and *)
(* its fingerprint stand for the row itself.  Assumed: two edits never     *)
(* mark the node in the same millisecond (MarkNodeDirtyTx), and a request  *)
(* the panel has given up on is not applied later than that.  Left out are *)
(* the clients' own deadlines and counters, other nodes, and other         *)
(* inbounds: a node that reports others but no longer this one has its row *)
(* removed by the merge.                                                   *)
(***************************************************************************)
EXTENDS Integers, FiniteSets

CONSTANTS
  Emails,        \* clients the panel's administrators add and remove
  NodeEmails,    \* clients the node's administrator adds and removes
  Editors,       \* the panel's request handlers
  Ops,           \* what they do: a subset of Operations
  LivePush,      \* whether an edit may be pushed at once (nodePushPlan)
  LostAnswers,   \* whether a request may be applied and its answer lost
  MaxEdits,      \* bound: edits begun
  MaxNodeEdits,  \* bound: changes made on the node itself
  MaxFaults,     \* bound: failed requests
  MaxRestarts,   \* bound: restarts of the panel
  NoRow,         \* no row, no fingerprint
  Free           \* a free lock

Operations == {"add", "detach", "delete", "enable"}
ASSUME SyncAssumption ==
  /\ Ops \subseteq Operations /\ {LivePush, LostAnswers} \subseteq BOOLEAN
  /\ {MaxEdits, MaxNodeEdits, MaxFaults, MaxRestarts} \subseteq Nat
  /\ Emails \cap NodeEmails = {} /\ Free \notin Editors

Clients == Emails \cup NodeEmails
Rows == [clients : SUBSET Clients, enable : BOOLEAN]
ASSUME NoRowAssumption == NoRow \notin Rows

VARIABLES
  cfg,        \* the panel's row of the inbound
  dirty,      \* config_dirty
  dirtyAt,    \* config_dirty_at
  lock,       \* who holds the inbound's mutation lock
  tomb,       \* emails with a live deletion tombstone
  fp,         \* pushedFP: the row the node is believed to hold
  node,       \* the node's row, or NoRow
  ed,         \* each editor's call
  tick,       \* the sync job
  begun, commits, nodeEdits, faults, restarts,   \* counters for the bounds
  want        \* history: the clients the panel was last asked for

vars == <<cfg, dirty, dirtyAt, lock, tomb, fp, node, ed, tick, begun, commits,
          nodeEdits, faults, restarts, want>>
database == <<cfg, dirty, dirtyAt, commits, want>>
bounds == <<begun, nodeEdits, restarts>>

IdleEdit == [pc |-> "idle", op |-> "add", email |-> NoRow, prev |-> NoRow,
             next |-> NoRow, push |-> FALSE]
IdleTick == [pc |-> "idle", at |-> 0, ver |-> 0, row |-> NoRow,
             exists |-> FALSE, snap |-> NoRow, flag |-> FALSE]

Init ==
  /\ cfg = [clients |-> {}, enable |-> TRUE] /\ node = cfg /\ fp = cfg
  /\ dirty = FALSE /\ dirtyAt = 0 /\ lock = Free /\ tomb = {}
  /\ ed = [t \in Editors |-> IdleEdit] /\ tick = IdleTick
  /\ begun = 0 /\ commits = 0 /\ nodeEdits = 0 /\ faults = 0 /\ restarts = 0
  /\ want = {}

-----------------------------------------------------------------------------
(* Requests to the node.                                                   *)

\* What can become of a request: whether the node applied it, and whether
\* the panel was told so.
Outcomes ==
  {[applied |-> TRUE, answered |-> TRUE]} \cup
  IF faults = MaxFaults THEN {}
  ELSE {[applied |-> FALSE, answered |-> FALSE]} \cup
       IF LostAnswers THEN {[applied |-> TRUE, answered |-> FALSE]} ELSE {}

\* The request ended with outcome o.
Counted(o) == faults' = IF o.answered THEN faults ELSE faults + 1

\* Whether UpdateInbound reaches a row: a node that has none is sent a new one
\* if the panel has to look the row's id up, and an update that fails if it
\* remembers the id.
Lands == IF node # NoRow THEN {TRUE} ELSE BOOLEAN

Without(row, emails) == [row EXCEPT !.clients = @ \ emails]

\* The row after the per-client request of an edit.
Applied(row, op, email) ==
  IF op = "add" THEN [row EXCEPT !.clients = @ \cup {email}]
  ELSE Without(row, {email})

-----------------------------------------------------------------------------
(* Edits on the panel.                                                     *)

Goto(t, pc) == ed' = [ed EXCEPT ![t].pc = pc]
Done(t) == ed' = [ed EXCEPT ![t] = IdleEdit]

\* The writer goroutine is inside setRemoteTrafficLocked.
Merging == tick.pc \in {"commit", "record"}

\* MarkNodeDirtyTx.
Mark == dirty' = TRUE /\ dirtyAt' = commits + 1 /\ commits' = commits + 1

\* GetInbound, under the lock of the inbound.
Loaded(t, op, e, push) ==
  ed' = [ed EXCEPT ![t] =
           [pc |-> "commit", op |-> op, email |-> e, prev |-> cfg,
            next |-> Applied(cfg, op, e), push |-> push]]

PushPlans == IF LivePush THEN BOOLEAN ELSE {FALSE}

\* AddInboundClient up to its transaction, and Detach with
\* DelInboundClientByEmail up to its own: a client that is there already, or
\* not there, ends the call with nothing changed.
LoadRow(t, op, e) ==
  /\ ed[t].pc = "idle" /\ lock = Free /\ begun < MaxEdits
  /\ op \in Ops \cap {"add", "detach"}
  /\ (e \in cfg.clients) = (op = "detach")
  /\ lock' = t /\ begun' = begun + 1
  /\ \E push \in PushPlans : Loaded(t, op, e, push)
  /\ UNCHANGED <<database, tomb, fp, node, tick, nodeEdits, faults, restarts>>

\* Delete: the tombstone comes first, then the list of inbounds.
DeleteBegin(t, e) ==
  /\ ed[t].pc = "idle" /\ begun < MaxEdits
  /\ "delete" \in Ops /\ e \in cfg.clients
  /\ tomb' = tomb \cup {e} /\ begun' = begun + 1
  /\ ed' = [ed EXCEPT ![t] = [IdleEdit EXCEPT !.pc = "delete",
                                !.op = "delete", !.email = e]]
  /\ UNCHANGED <<database, lock, fp, node, tick, nodeEdits, faults, restarts>>

\* DelInboundClientByEmail finds the client in the row.
DeleteLoad(t) ==
  /\ ed[t].pc = "delete" /\ lock = Free /\ ed[t].email \in cfg.clients
  /\ lock' = t
  /\ \E push \in PushPlans : Loaded(t, "delete", ed[t].email, push)
  /\ UNCHANGED <<database, tomb, fp, node, tick, bounds, faults>>

\* It does not: ErrClientNotInInbound, which Delete takes for success.
DeleteMissing(t) ==
  /\ ed[t].pc = "delete" /\ lock = Free /\ ed[t].email \notin cfg.clients
  /\ Done(t) /\ want' = want \ {ed[t].email}
  /\ UNCHANGED <<cfg, dirty, dirtyAt, commits, lock, tomb, fp, node, tick,
                 bounds, faults>>

\* The transaction of the three, run by the traffic writer: the row as it was
\* loaded is saved whole, with the client added or removed.
Commit(t) ==
  /\ ed[t].pc = "commit" /\ ed[t].op # "enable" /\ ~Merging
  /\ cfg' = ed[t].next /\ Mark
  /\ want' = Applied([clients |-> want], ed[t].op, ed[t].email).clients
  /\ IF ed[t].push THEN Goto(t, "push") /\ UNCHANGED lock
     ELSE Done(t) /\ lock' = Free
  /\ UNCHANGED <<tomb, fp, node, tick, bounds, faults>>

\* It fails: nothing is written, and a deletion withdraws its tombstone.
CommitFails(t) ==
  /\ ed[t].pc = "commit" /\ ed[t].op # "enable" /\ ~Merging
  /\ faults < MaxFaults /\ faults' = faults + 1
  /\ tomb' = IF ed[t].op = "delete" THEN tomb \ {ed[t].email} ELSE tomb
  /\ Done(t) /\ lock' = Free
  /\ UNCHANGED <<database, fp, node, tick, bounds>>

\* AddClient, DeleteUser or DeleteClient on the node.  One that has no row of
\* the inbound has nothing to add to, and calls a client it does not know
\* deleted, which DeleteUser hears if it remembers the row's id.
PushClient(t) ==
  /\ ed[t].pc = "push" /\ ed[t].op # "enable"
  /\ \E o \in Outcomes, remembered \in BOOLEAN :
       LET known == node # NoRow
           told == /\ o.answered
                   /\ \/ known \/ ed[t].op = "delete"
                      \/ ed[t].op = "detach" /\ remembered
       IN /\ node' = IF known /\ o.applied
                       THEN Applied(node, ed[t].op, ed[t].email) ELSE node
          /\ Counted(o)
          /\ IF told THEN Goto(t, "advance") /\ UNCHANGED lock
             ELSE Done(t) /\ lock' = Free
  /\ UNCHANGED <<database, tomb, fp, tick, bounds>>

\* Mutant of AdvancePushedInbound: the lock is kept.
AdvanceLocked(t) ==
  /\ ed[t].pc = "advance"
  /\ fp' = IF fp = ed[t].prev THEN ed[t].next ELSE fp
  /\ Done(t)
  /\ UNCHANGED <<database, lock, tomb, node, tick, bounds, faults>>

\* AdvancePushedInbound: from the row before the edit to the one after it.
AdvancePushedInbound(t) ==
  /\ ed[t].pc = "advance"
  /\ fp' = IF fp = ed[t].prev THEN ed[t].next ELSE fp
  /\ Done(t) /\ lock' = Free
  /\ UNCHANGED <<database, tomb, node, tick, bounds, faults>>

\* SetInboundEnable takes no lock.
LoadEnable(t, v) ==
  /\ ed[t].pc = "idle" /\ begun < MaxEdits
  /\ "enable" \in Ops /\ cfg.enable # v
  /\ begun' = begun + 1
  /\ ed' = [ed EXCEPT ![t] = [IdleEdit EXCEPT !.pc = "commit",
                                !.op = "enable",
                                !.next = [cfg EXCEPT !.enable = v]]]
  /\ UNCHANGED <<database, lock, tomb, fp, node, tick, nodeEdits, faults,
                 restarts>>

\* Its transaction updates one column, and does not go through the writer.
CommitEnable(t) ==
  /\ ed[t].pc = "commit" /\ ed[t].op = "enable"
  /\ cfg' = [cfg EXCEPT !.enable = ed[t].next.enable] /\ Mark
  /\ \E push \in PushPlans : IF push THEN Goto(t, "push") ELSE Done(t)
  /\ UNCHANGED <<lock, tomb, fp, node, tick, bounds, faults, want>>

\* UpdateInbound on the node with the row as it was loaded.
PushEnable(t) ==
  /\ ed[t].pc = "push" /\ ed[t].op = "enable"
  /\ \E o \in Outcomes, lands \in Lands :
       /\ node' = IF lands /\ o.applied THEN ed[t].next ELSE node
       /\ Counted(o)
       /\ IF lands /\ o.answered THEN Goto(t, "record") ELSE Done(t)
  /\ UNCHANGED <<database, lock, tomb, fp, tick, bounds>>

\* recordPushedInbound.
RecordEnable(t) ==
  /\ ed[t].pc = "record"
  /\ fp' = ed[t].next /\ Done(t)
  /\ UNCHANGED <<database, lock, tomb, node, tick, bounds, faults>>

EditGoesOn(t) ==
  \/ DeleteLoad(t) \/ DeleteMissing(t) \/ Commit(t) \/ CommitFails(t)
  \/ PushClient(t) \/ AdvancePushedInbound(t)
  \/ CommitEnable(t) \/ PushEnable(t) \/ RecordEnable(t)

Edit(t) ==
  \/ \E e \in Emails :
       DeleteBegin(t, e) \/ \E op \in {"add", "detach"} : LoadRow(t, op, e)
  \/ \E v \in BOOLEAN : LoadEnable(t, v)
  \/ EditGoesOn(t)

-----------------------------------------------------------------------------
(* The sync job.                                                           *)

At(pc) == tick.pc = pc
Step(pc) == tick' = [tick EXCEPT !.pc = pc]

\* Run loads the nodes, their dirty flag and its timestamp; syncOne then
\* reconciles first if the flag was set.
SyncOne ==
  /\ At("idle")
  /\ tick' = [IdleTick EXCEPT !.pc = IF dirty THEN "desired" ELSE "fetch",
                              !.at = dirtyAt]
  /\ UNCHANGED <<database, lock, tomb, fp, node, ed, bounds, faults>>

\* ReconcileNode reads the rows of the node's inbounds.
LoadDesired ==
  /\ At("desired")
  /\ tick' = [tick EXCEPT !.pc = "list", !.row = cfg, !.ver = commits]
  /\ UNCHANGED <<database, lock, tomb, fp, node, ed, bounds, faults>>

\* Then it asks the node for what it has; without an answer it gives up.
ListInboundOptions ==
  /\ At("list")
  /\ \E o \in Outcomes :
       /\ Counted(o)
       /\ tick' = [tick EXCEPT !.pc = IF o.answered THEN "push" ELSE "fetch",
                               !.exists = node # NoRow]
  /\ UNCHANGED <<database, lock, tomb, fp, node, ed, bounds>>

\* ReconcileInbound: a row whose fingerprint was the last one pushed is not
\* sent to a node that still reports it.
ReconcileSkip ==
  /\ At("push") /\ tick.exists /\ fp = tick.row
  /\ Step("clear")
  /\ UNCHANGED <<database, lock, tomb, fp, node, ed, bounds, faults>>

\* Mutant of ReconcilePush: a failed push counts as done.
ReconcilePushBlind ==
  /\ At("push") /\ ~(tick.exists /\ fp = tick.row)
  /\ \E o \in Outcomes, lands \in IF tick.exists THEN Lands ELSE {TRUE} :
       /\ node' = IF lands /\ o.applied THEN tick.row ELSE node
       /\ Counted(o)
       /\ Step(IF o.answered THEN "stamp" ELSE "clear")
  /\ fp' = IF tick.exists THEN fp ELSE NoRow
  /\ UNCHANGED <<database, lock, tomb, ed, bounds>>

\* Any other is sent whole: AddInbound to a node without it, which forgets
\* the fingerprint first, and UpdateInbound otherwise.
ReconcilePush ==
  /\ At("push") /\ ~(tick.exists /\ fp = tick.row)
  /\ \E o \in Outcomes, lands \in IF tick.exists THEN Lands ELSE {TRUE} :
       /\ node' = IF lands /\ o.applied THEN tick.row ELSE node
       /\ Counted(o)
       /\ Step(IF lands /\ o.answered THEN "stamp" ELSE "fetch")
  /\ fp' = IF tick.exists THEN fp ELSE NoRow
  /\ UNCHANGED <<database, lock, tomb, ed, bounds>>

\* recordPushedInbound.
RecordPushed ==
  /\ At("stamp")
  /\ fp' = tick.row /\ Step("clear")
  /\ UNCHANGED <<database, lock, tomb, node, ed, bounds, faults>>

\* Mutant of ClearNodeDirty: the flag is never cleared.
ClearNothing ==
  /\ At("clear") /\ Step("fetch")
  /\ UNCHANGED <<database, lock, tomb, fp, node, ed, bounds, faults>>

\* The flag is cleared if nothing has marked the node again.
ClearNodeDirty ==
  /\ At("clear")
  /\ dirty' = (dirty /\ dirtyAt # tick.at) /\ Step("fetch")
  /\ UNCHANGED <<cfg, dirtyAt, commits, want, lock, tomb, fp, node, ed, bounds,
                 faults>>

\* FetchTrafficSnapshot; without an answer the tick is over.
FetchTrafficSnapshot ==
  /\ At("fetch")
  /\ \E o \in Outcomes :
       /\ Counted(o)
       /\ tick' = IF o.answered
                  THEN [IdleTick EXCEPT !.pc = "sample", !.snap = node]
                  ELSE IdleTick
  /\ UNCHANGED <<database, lock, tomb, fp, node, ed, bounds>>

\* NodeSyncState, and SetRemoteTraffic queues the merge.
Sample ==
  /\ At("sample")
  /\ tick' = [tick EXCEPT !.pc = "merge", !.flag = dirty]
  /\ UNCHANGED <<database, lock, tomb, fp, node, ed, bounds, faults>>

\* Mutant of MergeRead: the flag sampled before the queue is believed.
MergeReadOnce ==
  /\ At("merge")
  /\ tick' = IF tick.flag \/ tick.snap = NoRow THEN IdleTick
             ELSE [tick EXCEPT !.pc = "commit", !.row = cfg]
  /\ UNCHANGED <<database, lock, tomb, fp, node, ed, bounds, faults>>

\* setRemoteTrafficLocked reads the flag again, and the panel's row.  A dirty
\* node's snapshot only moves counters, and one without inbounds is taken to
\* say nothing.
MergeRead ==
  /\ At("merge")
  /\ tick' = IF tick.flag \/ dirty \/ tick.snap = NoRow THEN IdleTick
             ELSE [tick EXCEPT !.pc = "commit", !.row = cfg]
  /\ UNCHANGED <<database, lock, tomb, fp, node, ed, bounds, faults>>

\* What is adopted: the node's row without the clients just deleted.
Adopted == Without(tick.snap, tomb)

\* Its transaction writes every column but the settings, and the settings if
\* they differ from those it has read.
MergeCommit ==
  /\ At("commit")
  /\ cfg' = [clients |-> IF tick.row.clients # Adopted.clients
                         THEN Adopted.clients ELSE cfg.clients,
             enable |-> tick.snap.enable]
  /\ tick' = IF tick.row # Adopted
             THEN [tick EXCEPT !.pc = "record", !.snap = Adopted]
             ELSE IdleTick
  /\ UNCHANGED <<dirty, dirtyAt, commits, want, lock, tomb, fp, node, ed,
                 bounds, faults>>

\* RecordAdoptedInbound, for a row that has changed.
RecordAdoptedInbound ==
  /\ At("record")
  /\ fp' = tick.snap /\ tick' = IdleTick
  /\ UNCHANGED <<database, lock, tomb, node, ed, bounds, faults>>

Sync ==
  \/ SyncOne \/ LoadDesired \/ ListInboundOptions
  \/ ReconcileSkip \/ ReconcilePush \/ RecordPushed \/ ClearNodeDirty
  \/ FetchTrafficSnapshot \/ Sample
  \/ MergeRead \/ MergeCommit \/ RecordAdoptedInbound

-----------------------------------------------------------------------------
(* Everything else that happens.                                           *)

\* deleteTombstoneTTL has passed.
Expire(e) ==
  /\ e \in tomb
  /\ tomb' = tomb \ {e}
  /\ UNCHANGED <<database, lock, fp, node, ed, tick, bounds, faults>>

\* The node's administrator adds or removes a client, or the node loses its
\* rows.
NodeEdit ==
  /\ node # NoRow /\ nodeEdits < MaxNodeEdits /\ nodeEdits' = nodeEdits + 1
  /\ \/ node' = NoRow
     \/ \E e \in NodeEmails :
          \/ e \in node.clients /\ node' = Without(node, {e})
          \/ e \notin node.clients /\ node' = Applied(node, "add", e)
  /\ UNCHANGED <<database, lock, tomb, fp, ed, tick, begun, faults, restarts>>

\* The panel restarts: only the database survives.
Restart ==
  /\ restarts < MaxRestarts /\ restarts' = restarts + 1
  /\ lock' = Free /\ tomb' = {} /\ fp' = NoRow
  /\ ed' = [t \in Editors |-> IdleEdit] /\ tick' = IdleTick
  /\ UNCHANGED <<database, node, begun, nodeEdits, faults>>

Next ==
  \/ Sync \/ NodeEdit \/ Restart
  \/ \E t \in Editors : Edit(t)
  \/ \E e \in Emails : Expire(e)

Spec == Init /\ [][Next]_vars

\* The job runs every five seconds, requests end, and tombstones expire.
FairSpec ==
  /\ Spec /\ WF_vars(Sync)
  /\ \A t \in Editors : WF_vars(EditGoesOn(t))
  /\ \A e \in Emails : WF_vars(Expire(e))

-----------------------------------------------------------------------------
(* Properties.                                                             *)

Edits ==
  [pc : {"idle", "delete", "commit", "push", "advance", "record"},
   op : Operations, email : Emails \cup {NoRow}, prev : Rows \cup {NoRow},
   next : Rows \cup {NoRow}, push : BOOLEAN]
Ticks ==
  [pc : {"idle", "desired", "list", "push", "stamp", "clear", "fetch",
         "sample", "merge", "commit", "record"},
   at : Nat, ver : Nat, row : Rows \cup {NoRow}, exists : BOOLEAN,
   snap : Rows \cup {NoRow}, flag : BOOLEAN]

\* An edit that has loaded the row and has not returned.
Loading(t) == ed[t].pc \in {"commit", "push", "advance", "record"}

\* The lock of the inbound is held by the client edit that has loaded the row
\* and has not returned (lockInbound and its deferred Unlock).
Holds(t) ==
  \/ ed[t].pc = "advance"
  \/ ed[t].op # "enable" /\ ed[t].pc \in {"commit", "push"}

\* The state has the types of the code's, an edit and a merge that are under
\* way have their rows, and the lock has the holder that will release it.
TypeOK ==
  /\ cfg \in Rows /\ dirty \in BOOLEAN /\ commits \in Nat
  /\ dirtyAt \in Nat /\ dirtyAt <= commits
  /\ tomb \subseteq Emails /\ {fp, node} \subseteq Rows \cup {NoRow}
  /\ want \subseteq Emails
  /\ begun \in 0..MaxEdits /\ nodeEdits \in 0..MaxNodeEdits
  /\ faults \in 0..MaxFaults /\ restarts \in 0..MaxRestarts
  /\ tick \in Ticks
  /\ Merging => tick.snap \in Rows
  /\ lock \in Editors \cup {Free}
  /\ ed \in [Editors -> Edits]
  /\ \A t \in Editors :
       /\ Loading(t) => ed[t].next \in Rows
       /\ ed[t].pc = "delete" => ed[t].op = "delete"
       /\ ed[t].pc # "idle" /\ ed[t].op # "enable" => ed[t].email \in Emails
       /\ (lock = t) <=> Holds(t)

\* No client an administrator of the panel added is ever missing from the
\* panel's row, and none that was removed is back, whatever the node reported
\* in between, unless its deletion is still going on (setRemoteTrafficLocked
\* against AddInboundClient and DelInboundClientByEmail).
EditSurvives ==
  \A e \in Emails :
    \/ \E t \in Editors : ed[t].op = "delete" /\ ed[t].email = e
    \/ (e \in cfg.clients) = (e \in want)

\* A node whose dirty flag is clear serves the clients the panel was asked
\* for, unless it has lost the inbound altogether (ClearNodeDirty against
\* ReconcileInbound).
CleanMeansDelivered ==
  ~dirty /\ node # NoRow => node.clients \cap Emails = want

\* The flag is only cleared by a reconcile that has read every edit
\* committed so far (ClearNodeDirty and its timestamp).
FlagCoversEdits == [][dirty /\ ~dirty' => tick.ver = commits]_vars

\* Once edits and faults stop the flag is cleared, and the panel and the node
\* agree, unless the node has lost the inbound (syncOne).
Converges == <>[](~dirty /\ (node = NoRow \/ cfg = node))
=============================================================================
