--------------------------- MODULE NodeSyncProofs ---------------------------
(***************************************************************************)
(* Proofs about NodeSync, for any clients, editors, edits and faults.      *)
(*                                                                         *)
(* TypeOK is inductive.  FlagInv says that the flag's timestamp counts the *)
(* committed edits and that a reconcile reads the row after it has taken   *)
(* the timestamp it will compare: with it, ClearNodeDirty cannot cover an  *)
(* edit the reconcile has not read.                                        *)
(*                                                                         *)
(* BulkInv is about edits that are left to the reconcile (the node is      *)
(* offline or the edit is a large one), whose requests fail without        *)
(* effect, and which are no deletions: these are the cases in which no     *)
(* edit is lost.  It follows the panel's clients from the row to the       *)
(* payload, the node, the fingerprint and back in the snapshot.            *)
(***************************************************************************)
EXTENDS NodeSync, TLAPS

Bulk == LivePush = FALSE /\ LostAnswers = FALSE /\ "delete" \notin Ops

Reconciling == tick.pc \in {"list", "push", "stamp", "clear"}

\* The flag is up while a reconcile runs, and its timestamp is that of the
\* last edit, taken before the row is read.
FlagSet == At("desired") \/ Reconciling => dirty
Stamped ==
  /\ dirtyAt = commits /\ tick.at <= commits
  /\ Reconciling => tick.at <= tick.ver /\ tick.ver <= commits
FlagInv == FlagSet /\ Stamped

-----------------------------------------------------------------------------

\* The panel's own clients among those of a row.
Mine(row) == row.clients \cap Emails

\* Edits are not pushed, and delete nobody.
Deferred ==
  /\ tomb = {}
  /\ \A t \in Editors : /\ ed[t].pc \in {"idle", "commit"}
                        /\ ed[t].op # "delete" /\ ~ed[t].push

\* A client edit under way is an edit of what the panel was last asked for.
Pending ==
  \A t \in Editors :
    ed[t].pc = "commit" /\ ed[t].op # "enable" =>
      Mine(ed[t].next) = Applied([clients |-> want], ed[t].op,
                                 ed[t].email).clients

Kept == Mine(cfg) = want

\* The node serves them, where it serves anything.
Serves(emails) == node # NoRow => Mine(node) = emails

Delivered == dirty \/ Serves(want)

\* The fingerprint is that of the node's row, but for the node's own clients.
Believed == fp # NoRow /\ ~At("stamp") => Serves(Mine(fp))

\* A reconcile pushes what it has read, and has read what was committed when
\* it did.
Desired ==
  Reconciling => /\ tick.row \in Rows
                 /\ tick.ver = commits => Mine(tick.row) = want
Pushed == At("stamp") \/ At("clear") => Serves(Mine(tick.row))

\* A snapshot of a node that is clean is good, and a merge that has begun is
\* one of a node that was clean.
Snapshot ==
  At("sample") \/ At("merge") =>
    dirty \/ tick.snap = NoRow \/ Mine(tick.snap) = want
Merge == Merging => Mine(tick.snap) = want /\ Serves(want)

BulkInv ==
  /\ Deferred /\ Pending /\ Kept /\ Delivered /\ Believed /\ Desired /\ Pushed
  /\ Snapshot /\ Merge
-----------------------------------------------------------------------------
(* Types.                                                                  *)

\* TypeOK in three parts: the database, the node and the counters; the sync
\* job; the edits and their lock.
StateOK ==
  /\ cfg \in Rows /\ dirty \in BOOLEAN /\ commits \in Nat
  /\ dirtyAt \in Nat /\ dirtyAt <= commits
  /\ tomb \subseteq Emails /\ fp \in Rows \cup {NoRow}
  /\ node \in Rows \cup {NoRow} /\ want \subseteq Emails
  /\ begun \in 0..MaxEdits /\ nodeEdits \in 0..MaxNodeEdits
  /\ faults \in 0..MaxFaults /\ restarts \in 0..MaxRestarts
TickOK == tick \in Ticks /\ (Merging => tick.snap \in Rows)

Fit(r) ==
  /\ r \in Edits
  /\ r.pc \in {"commit", "push", "advance", "record"} => r.next \in Rows
  /\ r.pc = "delete" => r.op = "delete"
  /\ r.pc # "idle" /\ r.op # "enable" => r.email \in Emails
Locks(r) ==
  \/ r.pc = "advance"
  \/ r.op # "enable" /\ r.pc \in {"commit", "push"}
EditsOK ==
  /\ lock \in Editors \cup {Free}
  /\ ed \in [Editors -> Edits]
  /\ \A t \in Editors : Fit(ed[t]) /\ ((lock = t) <=> Locks(ed[t]))
Typed == StateOK /\ TickOK /\ EditsOK

\* The parts make the whole.
LEMMA TypeParts == Typed <=> TypeOK
BY DEF Typed, TypeOK, StateOK, TickOK, EditsOK, Fit, Locks, Loading, Holds

\* Adding or removing a client of the panel makes a row of a row.
LEMMA AppliedRow ==
  ASSUME NEW row \in Rows, NEW op \in Operations, NEW e \in Emails
  PROVE  Applied(row, op, e) \in Rows
BY DEF Applied, Without, Rows, Clients

\* Taking clients away makes a row of a row.
LEMMA WithoutRow ==
  ASSUME NEW row \in Rows, NEW emails
  PROVE  Without(row, emails) \in Rows
BY DEF Without, Rows, Clients

\* What an administrator of the node adds makes a row of a row.
LEMMA NodeRow ==
  ASSUME NEW row \in Rows, NEW e \in NodeEmails
  PROVE  Applied(row, "add", e) \in Rows
BY DEF Applied, Rows, Clients

\* No fault is counted past its bound.
LEMMA CountedType ==
  ASSUME faults \in 0..MaxFaults, NEW o \in Outcomes, Counted(o)
  PROVE  faults' \in 0..MaxFaults
BY SyncAssumption DEF Counted, Outcomes

\* A call that has not begun, or has returned, fits and holds no lock.
LEMMA IdleFits == Fit(IdleEdit) /\ ~Locks(IdleEdit)
BY DEF Fit, Locks, IdleEdit, Edits, Operations

\* When one editor moves to a state that fits, and the lock changes hands
\* with it and with nobody else, the edits keep their types.
LEMMA EditMoves ==
  ASSUME EditsOK, NEW t \in Editors, NEW r, Fit(r),
         ed' = [ed EXCEPT ![t] = r],
         lock' \in Editors \cup {Free},
         (lock' = t) <=> Locks(r),
         \A u \in Editors \ {t} : (lock' = u) <=> (lock = u)
  PROVE  EditsOK'
<1>1. r \in Edits
  BY DEF Fit
<1>2. ed' \in [Editors -> Edits]
  BY <1>1 DEF EditsOK
<1>3. ASSUME NEW u \in Editors
      PROVE  Fit(ed'[u]) /\ ((lock' = u) <=> Locks(ed'[u]))
  <2>1. CASE u = t
    BY <2>1 DEF EditsOK
  <2>2. CASE u # t
    <3>1. ed'[u] = ed[u]
      BY <2>2 DEF EditsOK
    <3> QED
      BY <2>2, <3>1 DEF EditsOK
  <2> QED
    BY <2>1, <2>2
<1> QED
  BY <1>2, <1>3 DEF EditsOK

\* The types hold at the start: no edit, no tick and no lock.
LEMMA TypeInit == Init => Typed
<1> SUFFICES ASSUME Init PROVE Typed
  OBVIOUS
<1>1. StateOK
  <2>1. cfg \in Rows /\ node = cfg /\ fp = cfg
    BY DEF Init, Rows, Clients
  <2>2. /\ MaxEdits \in Nat /\ MaxNodeEdits \in Nat
        /\ MaxFaults \in Nat /\ MaxRestarts \in Nat
    BY SyncAssumption
  <2>3. dirty \in BOOLEAN /\ tomb \subseteq Emails /\ want \subseteq Emails
    BY DEF Init
  <2>4. /\ begun \in 0..MaxEdits /\ nodeEdits \in 0..MaxNodeEdits
        /\ faults \in 0..MaxFaults /\ restarts \in 0..MaxRestarts
        /\ commits \in Nat /\ dirtyAt \in Nat /\ dirtyAt <= commits
    BY <2>2 DEF Init
  <2> QED
    BY <2>1, <2>3, <2>4 DEF StateOK
<1>2. TickOK
  BY DEF Init, TickOK, Ticks, IdleTick, Merging
<1>3. EditsOK
  <2>1. IdleEdit \in Edits
    BY IdleFits DEF Fit
  <2> QED
    BY <2>1, IdleFits, SyncAssumption DEF Init, EditsOK
<1> QED
  BY <1>1, <1>2, <1>3 DEF Typed

\* The steps of the sync job keep the types.
LEMMA TypeSync ==
  ASSUME Typed, Sync
  PROVE  Typed'
<1>1. StateOK /\ TickOK /\ EditsOK
  BY DEF Typed
<1>2. EditsOK'
  <2>1. UNCHANGED <<lock, ed>>
    BY DEF Sync, SyncOne, LoadDesired, ListInboundOptions, ReconcileSkip,
           ReconcilePush, RecordPushed, ClearNodeDirty, FetchTrafficSnapshot,
           Sample, MergeRead, MergeCommit, RecordAdoptedInbound
  <2> QED
    BY <1>1, <2>1 DEF EditsOK
<1>3. StateOK' /\ TickOK'
  <2> USE <1>1 DEF database, bounds
  <2>1. CASE SyncOne
    BY <2>1 DEF SyncOne, StateOK, TickOK, Ticks, IdleTick, Merging
  <2>2. CASE LoadDesired
    BY <2>2 DEF LoadDesired, StateOK, TickOK, Ticks, Merging
  <2>3. CASE ListInboundOptions
    BY <2>3, CountedType
    DEF ListInboundOptions, StateOK, TickOK, Ticks, Merging
  <2>4. CASE ReconcileSkip
    BY <2>4 DEF ReconcileSkip, Step, StateOK, TickOK, Ticks, Merging
  <2>5. CASE ReconcilePush
    <3>1. PICK o \in Outcomes,
               lands \in IF tick.exists THEN Lands ELSE {TRUE} :
            /\ node' = IF lands /\ o.applied THEN tick.row ELSE node
            /\ Counted(o)
            /\ Step(IF lands /\ o.answered THEN "stamp" ELSE "fetch")
      BY <2>5 DEF ReconcilePush
    <3>2. StateOK'
      BY <2>5, <3>1, CountedType DEF ReconcilePush, StateOK, TickOK, Ticks
    <3>3. TickOK'
      BY <3>1 DEF Step, TickOK, Ticks, Merging
    <3> QED
      BY <3>2, <3>3
  <2>6. CASE RecordPushed
    BY <2>6 DEF RecordPushed, Step, StateOK, TickOK, Ticks, Merging
  <2>7. CASE ClearNodeDirty
    BY <2>7 DEF ClearNodeDirty, Step, StateOK, TickOK, Ticks, Merging
  <2>8. CASE FetchTrafficSnapshot
    <3>1. PICK o \in Outcomes :
            /\ Counted(o)
            /\ tick' = IF o.answered
                       THEN [IdleTick EXCEPT !.pc = "sample", !.snap = node]
                       ELSE IdleTick
      BY <2>8 DEF FetchTrafficSnapshot
    <3>2. StateOK'
      BY <2>8, <3>1, CountedType DEF FetchTrafficSnapshot, StateOK
    <3>3. TickOK'
      BY <3>1 DEF TickOK, StateOK, Ticks, IdleTick, Merging
    <3> QED
      BY <3>2, <3>3
  <2>9. CASE Sample
    BY <2>9 DEF Sample, StateOK, TickOK, Ticks, Merging
  <2>10. CASE MergeRead
    BY <2>10 DEF MergeRead, StateOK, TickOK, Ticks, IdleTick, Merging
  <2>11. CASE MergeCommit
    <3>1. tick.snap \in Rows
      BY <2>11 DEF MergeCommit, At, TickOK, Merging
    <3>2. Adopted \in Rows
      BY <3>1, WithoutRow DEF Adopted
    <3>3. cfg' \in Rows
      BY <2>11, <3>1, <3>2 DEF MergeCommit, StateOK, Rows
    <3>4. TickOK'
      BY <2>11, <3>2 DEF MergeCommit, TickOK, Ticks, IdleTick, Merging
    <3> QED
      BY <2>11, <3>3, <3>4 DEF MergeCommit, StateOK
  <2>12. CASE RecordAdoptedInbound
    BY <2>12
    DEF RecordAdoptedInbound, At, StateOK, TickOK, Ticks, IdleTick, Merging
  <2> QED
    BY <2>1, <2>2, <2>3, <2>4, <2>5, <2>6, <2>7, <2>8, <2>9, <2>10, <2>11,
       <2>12 DEF Sync
<1> QED
  BY <1>2, <1>3 DEF Typed

\* An edit's steps keep the types.
LEMMA TypeEdit ==
  ASSUME Typed, NEW t \in Editors, Edit(t)
  PROVE  Typed'
<1> USE SyncAssumption DEF database, bounds
<1>1. StateOK /\ TickOK /\ EditsOK
  BY DEF Typed
<1>2. Fit(ed[t]) /\ ((lock = t) <=> Locks(ed[t]))
  BY <1>1 DEF EditsOK
<1>3. UNCHANGED tick
  BY DEF Edit, EditGoesOn, DeleteBegin, LoadRow, LoadEnable, DeleteLoad,
         DeleteMissing, Commit, CommitFails, PushClient,
         AdvancePushedInbound, CommitEnable, PushEnable, RecordEnable
<1>4. TickOK'
  BY <1>1, <1>3 DEF TickOK, Merging
<1>5. ASSUME NEW e \in Emails, DeleteBegin(t, e) PROVE StateOK' /\ EditsOK'
  <2>1. StateOK'
    BY <1>1, <1>5 DEF DeleteBegin, StateOK
  <2> DEFINE r == [IdleEdit EXCEPT !.pc = "delete", !.op = "delete",
                                   !.email = e]
  <2>2. Fit(r) /\ ~Locks(r)
    BY DEF Fit, Locks, IdleEdit, Edits, Operations
  <2>3. lock' \in Editors \cup {Free} /\ ~Locks(ed[t]) /\ lock' = lock
    BY <1>1, <1>5 DEF DeleteBegin, EditsOK, Locks
  <2>4. ed' = [ed EXCEPT ![t] = r]
    BY <1>5 DEF DeleteBegin
  <2> HIDE DEF r
  <2> QED
    BY <1>1, <1>2, <2>1, <2>2, <2>3, <2>4, EditMoves
<1>6. ASSUME NEW e \in Emails, NEW op \in {"add", "detach", "delete"},
             NEW push \in BOOLEAN, Loaded(t, op, e, push),
             lock = Free, lock' = t
      PROVE  EditsOK'
  <2> DEFINE r == [pc |-> "commit", op |-> op, email |-> e, prev |-> cfg,
                   next |-> Applied(cfg, op, e), push |-> push]
  <2>1. Applied(cfg, op, e) \in Rows /\ cfg \in Rows
    BY <1>1, AppliedRow DEF StateOK, Operations
  <2>2. Fit(r) /\ Locks(r)
    BY <2>1 DEF Fit, Locks, Edits, Operations
  <2>3. ed' = [ed EXCEPT ![t] = r]
    BY <1>6 DEF Loaded
  <2> HIDE DEF r
  <2> QED
    BY <1>1, <1>6, <2>2, <2>3, EditMoves
<1>7. ASSUME NEW e \in Emails, NEW op \in {"add", "detach"},
             LoadRow(t, op, e)
      PROVE  StateOK' /\ EditsOK'
  <2>1. StateOK'
    BY <1>1, <1>7 DEF LoadRow, StateOK
  <2>2. EditsOK'
    BY <1>6, <1>7 DEF LoadRow, PushPlans
  <2> QED
    BY <2>1, <2>2
<1>8. CASE DeleteLoad(t)
  <2>1. StateOK'
    BY <1>1, <1>8 DEF DeleteLoad, StateOK
  <2>2. ed[t].email \in Emails
    BY <1>2, <1>8 DEF DeleteLoad, Fit
  <2>3. EditsOK'
    BY <1>6, <1>8, <2>2 DEF DeleteLoad, PushPlans
  <2> QED
    BY <1>4, <2>1, <2>3 DEF Typed
<1>9. ASSUME Done(t),
             \/ lock' = Free /\ Locks(ed[t])
             \/ lock' = lock /\ ~Locks(ed[t])
      PROVE  EditsOK'
  BY <1>1, <1>2, <1>9, IdleFits, EditMoves DEF Done, EditsOK
<1>10. ASSUME NEW pc \in {"push", "advance", "record"}, Goto(t, pc),
              ed[t].pc \in {"commit", "push", "advance", "record"},
              (pc = "advance" \/ (pc = "push" /\ ed[t].op # "enable"))
                <=> Locks(ed[t]),
              UNCHANGED lock
       PROVE  EditsOK'
  <2> DEFINE r == [ed[t] EXCEPT !.pc = pc]
  <2>1. Fit(r) /\ ed' = [ed EXCEPT ![t] = r] /\ r.pc = pc /\ r.op = ed[t].op
    BY <1>1, <1>2, <1>10 DEF Goto, Fit, Edits, EditsOK
  <2>2. Locks(r) <=> Locks(ed[t])
    BY <1>10, <2>1 DEF Locks
  <2>3. lock' \in Editors \cup {Free}
    BY <1>1, <1>10 DEF EditsOK
  <2> HIDE DEF r
  <2> QED
    BY <1>1, <1>2, <1>10, <2>1, <2>2, <2>3, EditMoves
<1>11. CASE DeleteMissing(t)
  <2>1. StateOK'
    BY <1>1, <1>11 DEF DeleteMissing, StateOK
  <2>2. EditsOK'
    BY <1>9, <1>11 DEF DeleteMissing, Locks
  <2> QED
    BY <1>4, <2>1, <2>2 DEF Typed
<1>12. CASE Commit(t)
  <2>1. ed[t].next \in Rows /\ ed[t].email \in Emails /\ Locks(ed[t])
    BY <1>2, <1>12 DEF Commit, Fit, Locks
  <2>2. StateOK'
    BY <1>1, <1>12, <2>1 DEF Commit, Mark, Applied, Without, StateOK
  <2>3. EditsOK'
    <3>1. CASE ed[t].push
      BY <1>10, <1>12, <2>1, <3>1 DEF Commit
    <3>2. CASE ~ed[t].push
      BY <1>9, <1>12, <2>1, <3>2 DEF Commit
    <3> QED
      BY <3>1, <3>2
  <2> QED
    BY <1>4, <2>2, <2>3 DEF Typed
<1>13. CASE CommitFails(t)
  <2>1. StateOK'
    BY <1>1, <1>13 DEF CommitFails, StateOK
  <2>2. EditsOK'
    BY <1>9, <1>13 DEF CommitFails, Locks
  <2> QED
    BY <1>4, <2>1, <2>2 DEF Typed
<1>14. CASE PushClient(t)
  <2>1. ed[t].pc = "push" /\ ed[t].op # "enable" /\ Locks(ed[t])
    BY <1>14 DEF PushClient, Locks
  <2>2. PICK o \in Outcomes, remembered \in BOOLEAN :
          LET known == node # NoRow
              told == /\ o.answered
                      /\ \/ known \/ ed[t].op = "delete"
                         \/ ed[t].op = "detach" /\ remembered
          IN /\ node' = IF known /\ o.applied
                          THEN Applied(node, ed[t].op, ed[t].email) ELSE node
             /\ Counted(o)
             /\ IF told THEN Goto(t, "advance") /\ UNCHANGED lock
                ELSE Done(t) /\ lock' = Free
    BY <1>14 DEF PushClient
  <2>3. ed[t].op \in Operations /\ ed[t].email \in Emails
    BY <1>2, <2>1 DEF Fit, Edits
  <2>4. node' \in Rows \cup {NoRow}
    BY <1>1, <2>2, <2>3, AppliedRow DEF StateOK
  <2>5. StateOK'
    BY <1>1, <1>14, <2>2, <2>4, CountedType DEF PushClient, StateOK
  <2>6. EditsOK'
    BY <1>9, <1>10, <2>1, <2>2
  <2> QED
    BY <1>4, <2>5, <2>6 DEF Typed
<1>15. CASE AdvancePushedInbound(t)
  <2>1. ed[t].next \in Rows /\ Locks(ed[t])
    BY <1>2, <1>15 DEF AdvancePushedInbound, Fit, Locks
  <2>2. StateOK'
    BY <1>1, <1>15, <2>1 DEF AdvancePushedInbound, StateOK
  <2>3. EditsOK'
    BY <1>9, <1>15, <2>1 DEF AdvancePushedInbound
  <2> QED
    BY <1>4, <2>2, <2>3 DEF Typed
<1>16. ASSUME NEW v \in BOOLEAN, LoadEnable(t, v) PROVE StateOK' /\ EditsOK'
  <2> DEFINE next == [cfg EXCEPT !.enable = v]
             r == [IdleEdit EXCEPT !.pc = "commit", !.op = "enable",
                                   !.next = next]
  <2>1. StateOK'
    BY <1>1, <1>16 DEF LoadEnable, StateOK
  <2>2. next \in Rows
    BY <1>1 DEF StateOK, Rows
  <2>3. ed' = [ed EXCEPT ![t] = r]
    BY <1>16 DEF LoadEnable
  <2> HIDE DEF next
  <2>4. Fit(r) /\ ~Locks(r)
    BY <2>2 DEF Fit, Locks, IdleEdit, Edits, Operations
  <2>5. lock' = lock /\ ~Locks(ed[t]) /\ lock' \in Editors \cup {Free}
    BY <1>1, <1>16 DEF LoadEnable, Locks, EditsOK
  <2> HIDE DEF r
  <2> QED
    BY <1>1, <1>2, <2>1, <2>3, <2>4, <2>5, EditMoves
<1>17. CASE CommitEnable(t)
  <2>1. ed[t].next \in Rows /\ ~Locks(ed[t])
    BY <1>2, <1>17 DEF CommitEnable, Fit, Locks
  <2>2. cfg' \in Rows
    BY <1>1, <1>17, <2>1 DEF CommitEnable, StateOK, Rows
  <2>3. StateOK'
    BY <1>1, <1>17, <2>2 DEF CommitEnable, Mark, StateOK
  <2>4. EditsOK'
    BY <1>9, <1>10, <1>17, <2>1 DEF CommitEnable
  <2> QED
    BY <1>4, <2>3, <2>4 DEF Typed
<1>18. CASE PushEnable(t)
  <2>1. ed[t].next \in Rows /\ ed[t].pc = "push" /\ ~Locks(ed[t])
    BY <1>2, <1>18 DEF PushEnable, Fit, Locks
  <2>2. PICK o \in Outcomes, lands \in Lands :
          /\ node' = IF lands /\ o.applied THEN ed[t].next ELSE node
          /\ Counted(o)
          /\ IF lands /\ o.answered THEN Goto(t, "record") ELSE Done(t)
    BY <1>18 DEF PushEnable
  <2>3. StateOK'
    BY <1>1, <1>18, <2>1, <2>2, CountedType DEF PushEnable, StateOK
  <2>4. EditsOK'
    BY <1>9, <1>10, <1>18, <2>1, <2>2 DEF PushEnable
  <2> QED
    BY <1>4, <2>3, <2>4 DEF Typed
<1>19. CASE RecordEnable(t)
  <2>1. ed[t].next \in Rows /\ ~Locks(ed[t])
    BY <1>2, <1>19 DEF RecordEnable, Fit, Locks
  <2>2. StateOK'
    BY <1>1, <1>19, <2>1 DEF RecordEnable, StateOK
  <2>3. EditsOK'
    BY <1>9, <1>19, <2>1 DEF RecordEnable
  <2> QED
    BY <1>4, <2>2, <2>3 DEF Typed
<1> QED
  BY <1>4, <1>5, <1>7, <1>8, <1>11, <1>12, <1>13, <1>14, <1>15, <1>16, <1>17,
     <1>18, <1>19 DEF Edit, EditGoesOn, Typed

\* And the rest.
LEMMA TypeRest ==
  ASSUME Typed, NodeEdit \/ Restart \/ \E e \in Emails : Expire(e)
  PROVE  Typed'
<1> USE SyncAssumption DEF database, bounds
<1>1. StateOK /\ TickOK /\ EditsOK
  BY DEF Typed
<1>2. CASE NodeEdit
  <2>1. node' \in Rows \cup {NoRow}
    BY <1>1, <1>2, WithoutRow, NodeRow DEF NodeEdit, StateOK
  <2> QED
    BY <1>1, <1>2, <2>1
    DEF NodeEdit, Typed, StateOK, TickOK, EditsOK, Merging
<1>3. CASE Restart
  <2>1. StateOK'
    BY <1>1, <1>3 DEF Restart, StateOK
  <2>2. TickOK'
    BY <1>3 DEF Restart, TickOK, Ticks, IdleTick, Merging
  <2>3. IdleEdit \in Edits
    BY IdleFits DEF Fit
  <2>4. EditsOK'
    BY <1>3, <2>3, IdleFits DEF Restart, EditsOK
  <2> QED
    BY <2>1, <2>2, <2>4 DEF Typed
<1>4. ASSUME NEW e \in Emails, Expire(e) PROVE Typed'
  BY <1>1, <1>4 DEF Expire, Typed, StateOK, TickOK, EditsOK, Merging
<1> QED
  BY <1>2, <1>3, <1>4

\* The types are inductive.
LEMMA TypeStep == Typed /\ [Next]_vars => Typed'
<1> SUFFICES ASSUME Typed, [Next]_vars PROVE Typed'
  OBVIOUS
<1>1. CASE UNCHANGED vars
  BY <1>1 DEF vars, Typed, StateOK, TickOK, EditsOK, Merging
<1>2. CASE Next
  BY <1>2, TypeSync, TypeEdit, TypeRest DEF Next
<1> QED
  BY <1>1, <1>2

\* The panel's row, the node's, the edits and the sync job have their types
\* in every state, and the lock of the inbound the holder that will release
\* it (lockInbound, and the early returns of the handlers that hold it).
THEOREM TypeCorrect == Spec => []TypeOK
<1>1. Spec => []Typed
  BY TypeInit, TypeStep, PTL DEF Spec
<1> QED
  BY <1>1, TypeParts, PTL

-----------------------------------------------------------------------------
(* The flag and its timestamp.                                             *)

\* What FlagInv reads of the types.
LEMMA FlagTypes ==
  Typed => /\ dirty \in BOOLEAN /\ commits \in Nat /\ dirtyAt \in Nat
           /\ tick \in Ticks /\ tick.at \in Nat /\ tick.ver \in Nat
BY DEF Typed, StateOK, TickOK, Ticks

\* An edit leaves the sync job alone, and the flag too unless it marks it.
LEMMA EditMarks ==
  ASSUME NEW t \in Editors, Edit(t)
  PROVE  UNCHANGED tick /\ (Mark \/ UNCHANGED <<dirty, dirtyAt, commits>>)
BY DEF Edit, EditGoesOn, DeleteBegin, LoadRow, LoadEnable, DeleteLoad,
       DeleteMissing, Commit, CommitFails, PushClient, AdvancePushedInbound,
       CommitEnable, PushEnable, RecordEnable, database

\* The sync job marks nothing.
LEMMA SyncMarksNothing == Sync => UNCHANGED <<dirtyAt, commits, want>>
BY DEF Sync, SyncOne, LoadDesired, ListInboundOptions, ReconcileSkip,
       ReconcilePush, RecordPushed, ClearNodeDirty, FetchTrafficSnapshot,
       Sample, MergeRead, MergeCommit, RecordAdoptedInbound, database

\* From the fetch on the reconcile is over, and its timestamp is forgotten or
\* left alone.
LEMMA FetchOn ==
  ASSUME tick \in Ticks,
         \/ FetchTrafficSnapshot \/ Sample
         \/ MergeRead \/ MergeCommit \/ RecordAdoptedInbound
  PROVE  /\ tick'.pc \in {"idle", "sample", "merge", "commit", "record"}
         /\ tick'.at \in {0, tick.at}
<1>1. CASE FetchTrafficSnapshot
  <2>1. PICK o \in Outcomes :
          tick' = IF o.answered
                  THEN [IdleTick EXCEPT !.pc = "sample", !.snap = node]
                  ELSE IdleTick
    BY <1>1 DEF FetchTrafficSnapshot
  <2> QED
    BY <2>1 DEF IdleTick
<1>2. CASE Sample
  BY <1>2 DEF Sample, Ticks
<1>3. CASE MergeRead
  BY <1>3 DEF MergeRead, Ticks, IdleTick
<1>4. CASE MergeCommit
  BY <1>4 DEF MergeCommit, Ticks, IdleTick
<1>5. CASE RecordAdoptedInbound
  BY <1>5 DEF RecordAdoptedInbound, IdleTick
<1> QED
  BY <1>1, <1>2, <1>3, <1>4, <1>5

\* The sync job keeps the flag up while it reconciles, and reads the row after
\* the timestamp.
LEMMA FlagSync ==
  ASSUME Typed, FlagSet, Stamped, Sync
  PROVE  FlagSet' /\ Stamped'
<1>1. /\ dirty \in BOOLEAN /\ commits \in Nat /\ dirtyAt \in Nat
      /\ tick \in Ticks /\ tick.at \in Nat /\ tick.ver \in Nat
  BY FlagTypes
<1>2. UNCHANGED <<dirtyAt, commits>>
  BY SyncMarksNothing
<1>3. Stamped'
  <2> USE <1>1, <1>2 DEF Stamped, Reconciling, At
  <2>1. CASE SyncOne
    BY <2>1 DEF SyncOne, IdleTick
  <2>2. CASE LoadDesired
    BY <2>2 DEF LoadDesired, Ticks
  <2>3. CASE ListInboundOptions
    BY <2>3 DEF ListInboundOptions, Ticks
  <2>4. CASE ReconcileSkip \/ ReconcilePush
    BY <2>4 DEF ReconcileSkip, ReconcilePush, Step, Ticks
  <2>5. CASE RecordPushed
    BY <2>5 DEF RecordPushed, Step, Ticks
  <2>6. CASE ClearNodeDirty
    BY <2>6 DEF ClearNodeDirty, Step, Ticks
  <2>7. CASE \/ FetchTrafficSnapshot \/ Sample
             \/ MergeRead \/ MergeCommit \/ RecordAdoptedInbound
    BY <2>7, FetchOn
  <2> QED
    BY <2>1, <2>2, <2>3, <2>4, <2>5, <2>6, <2>7 DEF Sync
<1>4. FlagSet'
  <2> USE <1>1 DEF FlagSet, Reconciling, At, database
  <2>1. CASE SyncOne
    BY <2>1 DEF SyncOne, IdleTick
  <2>2. CASE LoadDesired \/ ListInboundOptions
    BY <2>2 DEF LoadDesired, ListInboundOptions, Ticks
  <2>3. CASE ReconcileSkip \/ ReconcilePush \/ RecordPushed
    BY <2>3 DEF ReconcileSkip, ReconcilePush, RecordPushed, Step, Ticks
  <2>4. CASE ClearNodeDirty
    BY <2>4 DEF ClearNodeDirty, Step, Ticks
  <2>5. CASE \/ FetchTrafficSnapshot \/ Sample
             \/ MergeRead \/ MergeCommit \/ RecordAdoptedInbound
    BY <2>5, FetchOn
  <2> QED
    BY <2>1, <2>2, <2>3, <2>4, <2>5 DEF Sync
<1> QED
  BY <1>3, <1>4

\* The timestamps at the start: nothing is marked.
LEMMA FlagInit == Init => FlagSet /\ Stamped
<1> SUFFICES ASSUME Init PROVE FlagSet /\ Stamped
  OBVIOUS
<1>1. tick.pc = "idle" /\ tick.at = 0
  BY DEF Init, IdleTick
<1>2. Stamped
  BY <1>1 DEF Init, Stamped, Reconciling
<1> QED
  BY <1>1, <1>2 DEF FlagSet, Reconciling, At

\* FlagInv is inductive, given the types.
LEMMA FlagStep ==
  Typed /\ FlagSet /\ Stamped /\ [Next]_vars => FlagSet' /\ Stamped'
<1> SUFFICES ASSUME Typed, FlagSet, Stamped, [Next]_vars
             PROVE  FlagSet' /\ Stamped'
  OBVIOUS
<1>1. /\ dirty \in BOOLEAN /\ commits \in Nat /\ dirtyAt \in Nat
      /\ tick \in Ticks /\ tick.at \in Nat /\ tick.ver \in Nat
  BY FlagTypes
<1>2. CASE UNCHANGED <<tick, dirty, dirtyAt, commits>>
  BY <1>2 DEF FlagSet, Stamped, Reconciling, At
<1>3. ASSUME NEW t \in Editors, Edit(t) PROVE FlagSet' /\ Stamped'
  <2>1. UNCHANGED tick /\ (Mark \/ UNCHANGED <<dirty, dirtyAt, commits>>)
    BY <1>3, EditMarks
  <2>2. CASE Mark
    <3>1. Stamped'
      BY <1>1, <2>1, <2>2 DEF Mark, Stamped, Reconciling
    <3>2. FlagSet'
      BY <2>2 DEF Mark, FlagSet
    <3> QED
      BY <3>1, <3>2
  <2> QED
    BY <1>2, <2>1, <2>2
<1>4. CASE Restart
  <2>1. tick'.pc = "idle" /\ tick'.at = 0 /\ UNCHANGED <<dirtyAt, commits>>
    BY <1>4 DEF Restart, IdleTick, database
  <2>2. Stamped'
    BY <1>1, <2>1 DEF Stamped, Reconciling
  <2> QED
    BY <2>1, <2>2 DEF FlagSet, Reconciling, At
<1>5. CASE NodeEdit \/ (\E e \in Emails : Expire(e)) \/ UNCHANGED vars
  BY <1>2, <1>5 DEF NodeEdit, Expire, database, vars
<1> QED
  BY <1>3, <1>4, <1>5, FlagSync DEF Next

\* A step that clears the flag is the reconcile's, and its timestamp says
\* that it has read everything.
LEMMA FlagCleared ==
  ASSUME Typed, FlagSet, Stamped, [Next]_vars, dirty, ~dirty'
  PROVE  ClearNodeDirty /\ tick.ver = commits
<1>1. ClearNodeDirty
  <2>1. ASSUME NEW t \in Editors, Edit(t) PROVE FALSE
    BY <2>1, EditMarks DEF Mark
  <2>2. CASE Sync
    BY <2>2 DEF Sync, SyncOne, LoadDesired, ListInboundOptions, ReconcileSkip,
       ReconcilePush, RecordPushed, FetchTrafficSnapshot,
       Sample, MergeRead, MergeCommit, RecordAdoptedInbound, database
  <2>3. CASE \/ NodeEdit \/ Restart \/ UNCHANGED vars
             \/ \E e \in Emails : Expire(e)
    BY <2>3 DEF NodeEdit, Expire, Restart, database, vars
  <2> QED
    BY <2>1, <2>2, <2>3 DEF Next
<1>2. dirtyAt = tick.at
  BY <1>1 DEF ClearNodeDirty
<1>3. Reconciling
  BY <1>1 DEF ClearNodeDirty, At, Reconciling
<1>4. tick.ver = commits
  BY <1>2, <1>3, FlagTypes DEF Stamped
<1> QED
  BY <1>1, <1>4

\* FlagInv holds in every state.
LEMMA FlagHolds == Spec => [](Typed /\ FlagInv)
BY TypeInit, TypeStep, FlagInit, FlagStep, PTL DEF Spec, FlagInv

\* Only a reconcile that has read every edit committed so far clears the flag
\* of a node (ClearNodeDirty, whose update is conditional on the timestamp).
THEOREM FlagCovers == Spec => FlagCoversEdits
<1>1. Typed /\ FlagInv /\ [Next]_vars
        => [dirty /\ ~dirty' => tick.ver = commits]_vars
  BY FlagCleared DEF FlagInv
<1> QED
  BY <1>1, FlagHolds, PTL DEF Spec, FlagCoversEdits

-----------------------------------------------------------------------------
(* Edits left to the reconcile.                                            *)

\* A request is answered exactly when it has been applied.
LEMMA Honest ==
  ASSUME Bulk, NEW o \in Outcomes
  PROVE  o.answered = o.applied
<1>1. ~LostAnswers
  BY DEF Bulk
<1>2. \/ o = [applied |-> TRUE, answered |-> TRUE]
      \/ o = [applied |-> FALSE, answered |-> FALSE]
  <2>1. CASE faults = MaxFaults
    BY <2>1 DEF Outcomes
  <2>2. CASE faults # MaxFaults
    BY <1>1, <2>2 DEF Outcomes
  <2> QED
    BY <2>1, <2>2
<1>3. CASE o = [applied |-> TRUE, answered |-> TRUE]
  BY <1>3
<1>4. CASE o = [applied |-> FALSE, answered |-> FALSE]
  BY <1>4
<1> QED
  BY <1>2, <1>3, <1>4

\* An edit changes the panel's own clients of a row as it changes those the
\* panel is asked for.
LEMMA MineApplied ==
  ASSUME NEW row \in Rows, NEW op \in {"add", "detach"}, NEW e \in Emails
  PROVE  Mine(Applied(row, op, e)) = Applied([clients |-> Mine(row)], op, e).clients
<1>1. CASE op = "add"
  BY <1>1 DEF Mine, Applied, Rows
<1>2. CASE op = "detach"
  BY <1>2 DEF Mine, Applied, Without, Rows
<1> QED
  BY <1>1, <1>2

\* The node's administrator does not touch the panel's clients.
LEMMA MineOfNode ==
  ASSUME NEW row \in Rows, NEW e \in NodeEmails
  PROVE  /\ Mine(Without(row, {e})) = Mine(row)
         /\ Mine(Applied(row, "add", e)) = Mine(row)
BY SyncAssumption DEF Mine, Without, Applied, Rows

\* Without tombstones a snapshot is adopted as it is.
LEMMA MineAdopted ==
  ASSUME tick.snap \in Rows, tomb = {}
  PROVE  Mine(Adopted) = Mine(tick.snap)
BY DEF Mine, Adopted, Without, Rows

\* What follows the clients from the row to the node and back.
Followed ==
  Kept /\ Delivered /\ Believed /\ Desired /\ Pushed /\ Snapshot /\ Merge

\* It does not depend on what the edits have loaded.
LEMMA FollowedFrame ==
  ASSUME Followed,
         UNCHANGED <<cfg, dirty, commits, want, fp, node, tick>>
  PROVE  Followed'
BY DEF Followed, Kept, Delivered, Believed, Desired, Pushed, Snapshot, Merge,
       Serves, Reconciling, Merging, At, Mine

\* The start: everyone has the same empty row.
LEMMA BulkInit == Init => Deferred /\ Pending /\ Followed
<1> SUFFICES ASSUME Init PROVE Deferred /\ Pending /\ Followed
  OBVIOUS
<1>1. \A t \in Editors : ed[t] = IdleEdit
  BY DEF Init
<1>2. Deferred /\ Pending
  BY <1>1 DEF Init, IdleEdit, Deferred, Pending
<1>3. cfg.clients = {} /\ node = cfg /\ fp = cfg /\ want = {}
  BY DEF Init
<1>4. tick.pc = "idle" /\ dirty = FALSE
  BY DEF Init, IdleTick
<1> QED
  BY <1>2, <1>3, <1>4
  DEF Followed, Kept, Delivered, Believed, Desired, Pushed, Snapshot, Merge,
      Serves, Reconciling, Merging, At, Mine

\* An edit that is left to the reconcile: loaded under the lock, or without
\* it for the switch, and committed, which marks the node.
LEMMA BulkEdit ==
  ASSUME Bulk, Typed, Stamped, Deferred, Pending, Followed,
         NEW t \in Editors, Edit(t)
  PROVE  Deferred' /\ Pending' /\ Followed'
<1> USE DEF database, bounds
<1>1. StateOK /\ TickOK /\ EditsOK
  BY DEF Typed
<1>2. /\ Fit(ed[t]) /\ ed \in [Editors -> Edits]
      /\ \A u \in Editors : (lock = u) <=> Locks(ed[u])
  BY <1>1 DEF EditsOK
<1>3. /\ ed[t].pc \in {"idle", "commit"}
      /\ ed[t].op # "delete" /\ ~ed[t].push /\ tomb = {}
  BY DEF Deferred
<1>4. ASSUME NEW e \in Emails, NEW op \in {"add", "detach"}, LoadRow(t, op, e)
      PROVE  Deferred' /\ Pending' /\ Followed'
  <2> DEFINE r == [pc |-> "commit", op |-> op, email |-> e, prev |-> cfg,
                   next |-> Applied(cfg, op, e), push |-> FALSE]
  <2>1. ed' = [ed EXCEPT ![t] = r]
    BY <1>4 DEF LoadRow, Loaded, PushPlans, Bulk
  <2>2. Mine(r.next) = Applied([clients |-> want], r.op, r.email).clients
    BY <1>1, MineApplied DEF StateOK, Followed, Kept
  <2>3. /\ r.pc = "commit" /\ r.op # "delete" /\ ~r.push
    OBVIOUS
  <2>4. UNCHANGED <<tomb, cfg, dirty, commits, want, fp, node, tick>>
    BY <1>4 DEF LoadRow
  <2> HIDE DEF r
  <2>5. Deferred'
    BY <1>2, <2>1, <2>3, <2>4 DEF Deferred
  <2>6. Pending'
    BY <1>2, <2>1, <2>2, <2>4 DEF Pending
  <2> QED
    BY <2>4, <2>5, <2>6, FollowedFrame
<1>5. ASSUME Done(t), UNCHANGED <<tomb, want>>
      PROVE  Deferred' /\ Pending'
  BY <1>2, <1>3, <1>5 DEF Done, IdleEdit, Deferred, Pending
<1>6. CASE Commit(t)
  <2>1. /\ ed[t].pc = "commit" /\ ed[t].op # "enable" /\ Done(t)
        /\ cfg' = ed[t].next /\ Mark /\ ~Merging
        /\ want' = Applied([clients |-> want], ed[t].op, ed[t].email).clients
        /\ UNCHANGED <<tomb, fp, node, tick>>
    BY <1>3, <1>6 DEF Commit
  <2>2. \A u \in Editors \ {t} : ~Locks(ed[u])
    BY <1>2, <2>1 DEF Locks
  <2>3. Deferred'
    BY <1>2, <1>3, <2>1 DEF Done, IdleEdit, Deferred
  <2>4. Pending'
    BY <1>2, <2>1, <2>2 DEF Done, IdleEdit, Pending, Locks
  <2>5. Kept'
    BY <2>1 DEF Pending, Kept
  <2>6. ~Reconciling \/ tick.ver # commits'
    BY <1>1, <2>1 DEF Stamped, Mark, StateOK, TickOK, Ticks
  <2>7. dirty' = TRUE
    BY <2>1 DEF Mark
  <2> QED
    BY <2>1, <2>3, <2>4, <2>5, <2>6, <2>7
    DEF Followed, Delivered, Believed, Desired, Pushed, Snapshot, Merge,
        Serves, Reconciling, Merging, At, Mine
<1>7. CASE CommitFails(t)
  <2>1. Done(t) /\ UNCHANGED <<tomb, cfg, dirty, commits, want, fp, node, tick>>
    BY <1>3, <1>7 DEF CommitFails
  <2> QED
    BY <1>5, <2>1, FollowedFrame
<1>8. ASSUME NEW v \in BOOLEAN, LoadEnable(t, v)
      PROVE  Deferred' /\ Pending' /\ Followed'
  <2> DEFINE r == [IdleEdit EXCEPT !.pc = "commit", !.op = "enable",
                                   !.next = [cfg EXCEPT !.enable = v]]
  <2>1. ed' = [ed EXCEPT ![t] = r]
    BY <1>8 DEF LoadEnable
  <2>2. r.pc = "commit" /\ r.op = "enable" /\ ~r.push
    BY DEF IdleEdit
  <2>3. UNCHANGED <<tomb, cfg, dirty, commits, want, fp, node, tick>>
    BY <1>8 DEF LoadEnable
  <2> HIDE DEF r
  <2>4. Deferred' /\ Pending'
    BY <1>2, <2>1, <2>2, <2>3 DEF Deferred, Pending
  <2> QED
    BY <2>3, <2>4, FollowedFrame
<1>9. CASE CommitEnable(t)
  <2>1. /\ Done(t) /\ Mark /\ UNCHANGED <<tomb, want, fp, node, tick>>
        /\ cfg' = [cfg EXCEPT !.enable = ed[t].next.enable]
    BY <1>9 DEF CommitEnable, PushPlans, Bulk
  <2>2. cfg'.clients = cfg.clients
    BY <1>1, <2>1 DEF StateOK, Rows
  <2>3. Kept'
    BY <2>1, <2>2 DEF Followed, Kept, Mine
  <2>4. ~Reconciling \/ tick.ver # commits'
    BY <1>1, <2>1 DEF Stamped, Mark, StateOK, TickOK, Ticks
  <2>5. dirty' = TRUE
    BY <2>1 DEF Mark
  <2>6. Followed'
    BY <2>1, <2>3, <2>4, <2>5
    DEF Followed, Delivered, Believed, Desired, Pushed, Snapshot, Merge,
        Serves, Reconciling, Merging, At, Mine
  <2> QED
    BY <1>5, <2>1, <2>6
<1>10. ~(\E e \in Emails : DeleteBegin(t, e))
  BY DEF Bulk, DeleteBegin
<1>11. /\ ~DeleteLoad(t) /\ ~DeleteMissing(t) /\ ~PushClient(t)
       /\ ~AdvancePushedInbound(t) /\ ~PushEnable(t) /\ ~RecordEnable(t)
  BY <1>3 DEF DeleteLoad, DeleteMissing, PushClient, AdvancePushedInbound,
              PushEnable, RecordEnable
<1> QED
  BY <1>4, <1>6, <1>7, <1>8, <1>9, <1>10, <1>11 DEF Edit, EditGoesOn

\* The sync job carries the clients on, from the row to the payload, to the
\* node, to the fingerprint and through the snapshot back to the row.
LEMMA BulkSync ==
  ASSUME Bulk, Typed, FlagSet, Stamped, Deferred, Pending, Followed, Sync
  PROVE  Deferred' /\ Pending' /\ Followed'
<1> USE DEF database, bounds
<1>1. StateOK /\ TickOK /\ tomb = {}
  BY DEF Typed, Deferred
<1>2. /\ cfg \in Rows /\ node \in Rows \cup {NoRow}
      /\ tick \in Ticks /\ tick.row \in Rows \cup {NoRow}
      /\ (Merging => tick.snap \in Rows)
  BY <1>1 DEF StateOK, TickOK, Ticks
<1>3. Deferred' /\ Pending'
  <2>1. UNCHANGED <<tomb, want, ed>>
    BY DEF Sync, SyncOne, LoadDesired, ListInboundOptions, ReconcileSkip,
           ReconcilePush, RecordPushed, ClearNodeDirty, FetchTrafficSnapshot,
           Sample, MergeRead, MergeCommit, RecordAdoptedInbound
  <2> QED
    BY <2>1 DEF Deferred, Pending
<1> USE DEF Followed
<1>4. CASE SyncOne
  <2>1. /\ tick'.pc \in {"desired", "fetch"} /\ tick.pc = "idle"
        /\ UNCHANGED <<cfg, dirty, commits, want, fp, node>>
    BY <1>4 DEF SyncOne, IdleTick, At
  <2> QED
    BY <1>3, <2>1
    DEF Kept, Delivered, Believed, Desired, Pushed, Snapshot, Merge, Serves,
        Reconciling, Merging, At, Mine
<1>5. CASE LoadDesired
  <2>1. /\ tick'.pc = "list" /\ tick'.row = cfg /\ tick.pc = "desired"
        /\ UNCHANGED <<cfg, dirty, commits, want, fp, node>>
    BY <1>2, <1>5 DEF LoadDesired, Ticks, At
  <2> QED
    BY <1>2, <1>3, <2>1
    DEF Kept, Delivered, Believed, Desired, Pushed, Snapshot, Merge, Serves,
        Reconciling, Merging, At, Mine
<1>6. CASE ListInboundOptions
  <2>1. /\ tick'.pc \in {"push", "fetch"} /\ tick.pc = "list"
        /\ tick'.row = tick.row /\ tick'.ver = tick.ver
        /\ UNCHANGED <<cfg, dirty, commits, want, fp, node>>
    BY <1>2, <1>6 DEF ListInboundOptions, Ticks, At
  <2> QED
    BY <1>3, <2>1
    DEF Kept, Delivered, Believed, Desired, Pushed, Snapshot, Merge, Serves,
        Reconciling, Merging, At, Mine
<1>7. CASE ReconcileSkip
  <2>1. /\ tick'.pc = "clear" /\ tick.pc = "push" /\ fp = tick.row
        /\ tick'.row = tick.row /\ tick'.ver = tick.ver
        /\ UNCHANGED <<cfg, dirty, commits, want, fp, node>>
    BY <1>2, <1>7 DEF ReconcileSkip, Step, Ticks, At
  <2>2. fp # NoRow
    BY <2>1, NoRowAssumption DEF Desired, Reconciling
  <2>3. Serves(Mine(tick.row))
    BY <2>1, <2>2 DEF Believed, At
  <2> QED
    BY <1>3, <2>1, <2>2, <2>3
    DEF Kept, Delivered, Believed, Desired, Pushed, Snapshot, Merge, Serves,
        Reconciling, Merging, At, Mine
<1>8. CASE ReconcilePush
  <2>1. PICK o \in Outcomes,
             lands \in IF tick.exists THEN Lands ELSE {TRUE} :
          /\ node' = IF lands /\ o.applied THEN tick.row ELSE node
          /\ Step(IF lands /\ o.answered THEN "stamp" ELSE "fetch")
    BY <1>8 DEF ReconcilePush
  <2>2. o.answered = o.applied
    BY Honest
  <2>3. \/ tick'.pc = "stamp" /\ node' = tick.row
        \/ tick'.pc = "fetch" /\ node' = node
    BY <1>2, <2>1, <2>2 DEF Step, Ticks
  <2>4. tick'.row = tick.row /\ tick'.ver = tick.ver /\ tick.pc = "push"
    BY <1>2, <1>8, <2>1 DEF ReconcilePush, Step, Ticks, At
  <2>5. fp' \in {fp, NoRow} /\ UNCHANGED <<cfg, dirty, commits, want>>
    BY <1>8 DEF ReconcilePush
  <2>6. dirty
    BY <2>4 DEF FlagSet, Reconciling
  <2> QED
    BY <1>3, <2>3, <2>4, <2>5, <2>6
    DEF Kept, Delivered, Believed, Desired, Pushed, Snapshot, Merge, Serves,
        Reconciling, Merging, At, Mine
<1>9. CASE RecordPushed
  <2>1. /\ tick'.pc = "clear" /\ tick.pc = "stamp" /\ fp' = tick.row
        /\ tick'.row = tick.row /\ tick'.ver = tick.ver
        /\ UNCHANGED <<cfg, dirty, commits, want, node>>
    BY <1>2, <1>9 DEF RecordPushed, Step, Ticks, At
  <2> QED
    BY <1>3, <2>1
    DEF Kept, Delivered, Believed, Desired, Pushed, Snapshot, Merge, Serves,
        Reconciling, Merging, At, Mine
<1>10. CASE ClearNodeDirty
  <2>1. /\ tick'.pc = "fetch" /\ tick.pc = "clear"
        /\ UNCHANGED <<cfg, commits, want, fp, node>>
    BY <1>2, <1>10 DEF ClearNodeDirty, Step, Ticks, At
  <2>2. ASSUME ~dirty' PROVE Serves(want)
    <3>1. dirty
      BY <2>1 DEF FlagSet, Reconciling
    <3>2. dirtyAt = tick.at
      BY <1>10, <2>2, <3>1 DEF ClearNodeDirty
    <3>3. tick.ver = commits
      BY <2>1, <3>2, FlagTypes DEF Stamped, Reconciling
    <3>4. Mine(tick.row) = want
      BY <2>1, <3>3 DEF Desired, Reconciling
    <3> QED
      BY <2>1, <3>4 DEF Pushed, At
  <2> QED
    BY <1>3, <2>1, <2>2
    DEF Kept, Delivered, Believed, Desired, Pushed, Snapshot, Merge, Serves,
        Reconciling, Merging, At, Mine
<1>11. CASE FetchTrafficSnapshot
  <2>1. /\ tick.pc = "fetch"
        /\ UNCHANGED <<cfg, dirty, commits, want, fp, node>>
    BY <1>11 DEF FetchTrafficSnapshot, At
  <2>2. \/ tick'.pc = "idle"
        \/ tick'.pc = "sample" /\ tick'.snap = node
    BY <1>11 DEF FetchTrafficSnapshot, IdleTick
  <2> QED
    BY <1>3, <2>1, <2>2
    DEF Kept, Delivered, Believed, Desired, Pushed, Snapshot, Merge, Serves,
        Reconciling, Merging, At, Mine
<1>12. CASE Sample
  <2>1. /\ tick'.pc = "merge" /\ tick.pc = "sample" /\ tick'.snap = tick.snap
        /\ UNCHANGED <<cfg, dirty, commits, want, fp, node>>
    BY <1>2, <1>12 DEF Sample, Ticks, At
  <2> QED
    BY <1>3, <2>1
    DEF Kept, Delivered, Believed, Desired, Pushed, Snapshot, Merge, Serves,
        Reconciling, Merging, At, Mine
<1>13. CASE MergeRead
  <2>1. tick.pc = "merge" /\ UNCHANGED <<cfg, dirty, commits, want, fp, node>>
    BY <1>13 DEF MergeRead, At
  <2>2. \/ tick'.pc = "idle"
        \/ /\ tick'.pc = "commit" /\ tick'.snap = tick.snap
           /\ ~dirty /\ tick.snap # NoRow
    BY <1>2, <1>13 DEF MergeRead, IdleTick, Ticks
  <2> QED
    BY <1>3, <2>1, <2>2
    DEF Kept, Delivered, Believed, Desired, Pushed, Snapshot, Merge, Serves,
        Reconciling, Merging, At, Mine
<1>14. CASE MergeCommit
  <2>1. /\ tick.pc = "commit" /\ UNCHANGED <<dirty, commits, want, fp, node>>
        /\ cfg'.clients \in {Adopted.clients, cfg.clients}
    BY <1>14 DEF MergeCommit, At
  <2>2. Mine(Adopted) = want
    BY <1>1, <1>2, <2>1, MineAdopted DEF Merge, Merging
  <2>3. Kept'
    BY <2>1, <2>2 DEF Kept, Mine
  <2>4. \/ tick'.pc = "idle"
        \/ tick'.pc = "record" /\ tick'.snap = Adopted
    BY <1>2, <1>14 DEF MergeCommit, IdleTick, Ticks
  <2> QED
    BY <1>3, <2>1, <2>2, <2>3, <2>4
    DEF Delivered, Believed, Desired, Pushed, Snapshot, Merge, Serves,
        Reconciling, Merging, At, Mine
<1>15. CASE RecordAdoptedInbound
  <2>1. /\ tick.pc = "record" /\ tick'.pc = "idle" /\ fp' = tick.snap
        /\ UNCHANGED <<cfg, dirty, commits, want, node>>
    BY <1>15 DEF RecordAdoptedInbound, IdleTick, At
  <2> QED
    BY <1>3, <2>1
    DEF Kept, Delivered, Believed, Desired, Pushed, Snapshot, Merge, Serves,
        Reconciling, Merging, At, Mine
<1> QED
  BY <1>4, <1>5, <1>6, <1>7, <1>8, <1>9, <1>10, <1>11, <1>12, <1>13, <1>14,
     <1>15 DEF Sync

\* The rest: the node's administrator leaves the panel's clients alone, and a
\* restart forgets only what is not needed.
LEMMA BulkRest ==
  ASSUME Bulk, Typed, Deferred, Pending, Followed,
         NodeEdit \/ Restart \/ \E e \in Emails : Expire(e)
  PROVE  Deferred' /\ Pending' /\ Followed'
<1> USE DEF database, bounds
<1>1. StateOK /\ tomb = {} /\ IdleEdit.pc = "idle"
  BY DEF Typed, Deferred, IdleEdit
<1>2. CASE NodeEdit
  <2>1. node \in Rows /\ UNCHANGED <<tomb, want, ed, cfg, dirty, commits, fp, tick>>
    BY <1>1, <1>2 DEF NodeEdit, StateOK
  <2>2. node' = NoRow \/ (node # NoRow /\ Mine(node') = Mine(node))
    BY <1>2, <2>1, MineOfNode DEF NodeEdit
  <2>3. \A emails : Serves(emails) => Serves(emails)'
    BY <2>2 DEF Serves, Mine
  <2>4. Deferred' /\ Pending'
    BY <2>1 DEF Deferred, Pending
  <2> QED
    BY <2>1, <2>2, <2>4
    DEF Followed, Kept, Delivered, Believed, Desired, Pushed, Snapshot, Merge,
        Serves, Reconciling, Merging, At, Mine
<1>3. CASE Restart
  <2>1. /\ \A t \in Editors : ed'[t] = IdleEdit
        /\ tomb' = {} /\ fp' = NoRow /\ tick' = IdleTick
        /\ UNCHANGED <<cfg, dirty, commits, want, node>>
    BY <1>3 DEF Restart
  <2>2. Deferred' /\ Pending'
    BY <2>1 DEF Deferred, Pending, IdleEdit
  <2>3. tick'.pc = "idle"
    BY <2>1 DEF IdleTick
  <2> QED
    BY <2>1, <2>2, <2>3
    DEF Followed, Kept, Delivered, Believed, Desired, Pushed, Snapshot, Merge,
        Serves, Reconciling, Merging, At, Mine
<1>4. ~(\E e \in Emails : Expire(e))
  BY <1>1 DEF Expire
<1> QED
  BY <1>2, <1>3, <1>4

\* Edits that are left to the reconcile keep their invariant.
LEMMA BulkStep ==
  ASSUME Bulk
  PROVE  Typed /\ FlagInv /\ BulkInv /\ [Next]_vars => BulkInv'
<1> SUFFICES ASSUME Typed, FlagInv, BulkInv, [Next]_vars PROVE BulkInv'
  OBVIOUS
<1>1. Deferred /\ Pending /\ Followed /\ FlagSet /\ Stamped
  BY DEF BulkInv, Followed, FlagInv
<1>2. Deferred' /\ Pending' /\ Followed'
  <2>1. CASE UNCHANGED vars
    BY <1>1, <2>1, FollowedFrame DEF vars, Deferred, Pending
  <2> QED
    BY <1>1, <2>1, BulkEdit, BulkSync, BulkRest DEF Next
<1> QED
  BY <1>2 DEF BulkInv, Followed

\* It holds in every state.
LEMMA BulkHolds ==
  ASSUME Bulk
  PROVE  Spec => [](Typed /\ BulkInv)
<1>1. Init => BulkInv
  BY BulkInit DEF BulkInv, Followed
<1> QED
  BY <1>1, BulkStep, FlagHolds, PTL DEF Spec

\* While edits are left to the reconcile, no client an administrator added is
\* ever missing from the panel's row and none removed is back, whatever the
\* node reports, loses or is edited to say, and whenever the panel restarts
\* (the two reads of the flag by the merge, the writer and the flag's
\* timestamp).
THEOREM EditsSurvive == ASSUME Bulk PROVE Spec => []EditSurvives
<1>1. Typed /\ BulkInv => EditSurvives
  BY DEF Typed, StateOK, BulkInv, Kept, Mine, EditSurvives
<1> QED
  BY <1>1, BulkHolds, PTL

\* And a node whose flag is clear serves them, unless it has lost the inbound
\* (ClearNodeDirty, which nothing may reach before its payload has).
THEOREM DeliveredWhenClean == ASSUME Bulk PROVE Spec => []CleanMeansDelivered
<1>1. Typed /\ BulkInv => CleanMeansDelivered
  BY DEF BulkInv, Delivered, Serves, Mine, CleanMeansDelivered
<1> QED
  BY <1>1, BulkHolds, PTL
=============================================================================
