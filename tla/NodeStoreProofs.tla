--------------------------- MODULE NodeStoreProofs ---------------------------
(***************************************************************************)
(* Proofs about NodeStore, for any number of saves and any sequence of     *)
(* failures and crashes.                                                   *)
(*                                                                         *)
(* StoreInv is inductive.  Its core is Whole: what a directory entry holds *)
(* now, and what it would hold after a host crash, is a version some save  *)
(* wrote, completely, and not one that a save was reported to have failed  *)
(* to write.  It needs to know that a temporary is synced when it is       *)
(* renamed (Temps) and that the number of the save in progress is nowhere  *)
(* in the directory before the last rename (NotYet), so that a plain error *)
(* leaves nothing behind.                                                  *)
(***************************************************************************)
EXTENDS NodeStore, TLAPS

\* What the entry t holds for the process, and on the disk.
Entries(t) == {files[t], stable[t]}

Installing == pc = <<"dirsync", "primary">>

Whole == soft = {} /\ \A t \in Targets : Entries(t) \subseteq (1..last \cup {NoFile}) \ rejected

Temps ==
  /\ pc[1] = "idle" => pc = Idle
  /\ pc[2] = "previous" \/ pc = <<"rename", "primary">> => tmp["primary"] = "synced"
  /\ pc = <<"rename", "previous">> => tmp["previous"] = "synced"

Saving == pc # Idle => up = "up" /\ new = last /\ last > 0 /\ last \notin rejected

NotYet ==
  pc # Idle /\ ~Installing =>
    before = files["primary"] /\ \A t \in Targets : last \notin Entries(t)

Acked ==
  /\ acked <= last /\ rejected \subseteq 1..last
  /\ acked > 0 => Entries("primary") \subseteq acked..last
  /\ Installing => files["primary"] = new

\* A crash of the host cannot bring back a primary the process does not see.
Backed ==
  /\ files["primary"] = NoFile => stable["primary"] = NoFile
  /\ pc = <<"rename", "primary">> => stable["primary"] = files["primary"]

StoreInv == Whole /\ Temps /\ Saving /\ NotYet /\ Acked /\ Backed
-----------------------------------------------------------------------------
\* The sentinels are not versions.
LEMMA Sentinels ==
  /\ MaxVersion \in Nat /\ NoFile # Torn
  /\ \A v \in Nat : v # NoFile /\ v # Torn
  /\ \A v \in Versions : v \in Nat
BY StoreAssumption DEF Versions

\* The steps of a save.  Each keeps the types and the invariant.
LEMMA StepBegin ==
  ASSUME TypeOK, StoreInv, BeginSave
  PROVE  TypeOK' /\ StoreInv'
<1> USE Sentinels DEF BeginSave, TypeOK, Targets, Versions, Contents, Idle
<1>1. TypeOK'
  OBVIOUS
<1>2. pc' = <<"write", "primary">> /\ last' = last + 1 /\ new' = last'
  OBVIOUS
<1>3. Whole'
  BY DEF StoreInv, Whole, Entries, Acked
<1>4. Temps'
  BY DEF StoreInv, Temps
<1>5. Saving'
  BY DEF StoreInv, Saving, Acked
<1>6. NotYet'
  BY DEF StoreInv, NotYet, Whole, Entries, Installing
<1>7. Acked'
  BY DEF StoreInv, Acked, Entries, Installing
<1>8. Backed'
  BY DEF StoreInv, Backed
<1> QED  BY <1>1, <1>3, <1>4, <1>5, <1>6, <1>7, <1>8 DEF StoreInv

LEMMA StepWrite ==
  ASSUME TypeOK, StoreInv, NEW t \in Targets, WriteTemp(t)
  PROVE  TypeOK' /\ StoreInv'
<1> USE Sentinels DEF WriteTemp, TypeOK, Targets, Versions, Contents, Idle
<1>1. TypeOK'
  OBVIOUS
<1>2. Whole'
  BY DEF StoreInv, Whole, Entries
<1>3. Temps'
  BY DEF StoreInv, Temps
<1>4. Saving' /\ NotYet' /\ Acked' /\ Backed'
  BY DEF StoreInv, Saving, NotYet, Acked, Backed, Entries, Installing
<1> QED  BY <1>1, <1>2, <1>3, <1>4 DEF StoreInv

LEMMA StepSync ==
  ASSUME TypeOK, StoreInv, NEW t \in Targets, SyncTemp(t)
  PROVE  TypeOK' /\ StoreInv'
<1> USE Sentinels DEF SyncTemp, TypeOK, Targets, Versions, Contents, Idle
<1>1. TypeOK'
  OBVIOUS
<1>2. Whole'
  BY DEF StoreInv, Whole, Entries
<1>3. Temps'
  BY DEF StoreInv, Temps
<1>4. Saving' /\ NotYet' /\ Acked' /\ Backed'
  BY DEF StoreInv, Saving, NotYet, Acked, Backed, Entries, Installing
<1> QED  BY <1>1, <1>2, <1>3, <1>4 DEF StoreInv

LEMMA StepRename ==
  ASSUME TypeOK, StoreInv, NEW t \in Targets, Rename(t)
  PROVE  TypeOK' /\ StoreInv'
<1> USE Sentinels DEF Rename, Data, TypeOK, Targets, Versions, Contents, Idle
<1>1. pc' = <<"dirsync", t>> /\ pc # Idle /\ ~Installing /\ tmp[t] = "synced" /\ soft' = {}
  BY DEF StoreInv, Temps, Installing, Whole
<1>2. new = last /\ last \in Versions /\ last \notin rejected
  BY <1>1 DEF StoreInv, Saving
<1>3. TypeOK'
  BY <1>2
<1>4. Whole'
  BY <1>1, <1>2 DEF StoreInv, Whole, Entries
<1>5. Temps'
  BY <1>1 DEF StoreInv, Temps
<1>6. Saving'
  BY <1>1 DEF StoreInv, Saving
<1>7. NotYet'
  BY <1>1 DEF StoreInv, NotYet, Entries, Installing
<1>8. Acked'
  BY <1>1, <1>2 DEF StoreInv, Acked, Entries, Installing
<1>9. Backed'
  BY <1>1, <1>2 DEF StoreInv, Backed
<1> QED  BY <1>3, <1>4, <1>5, <1>6, <1>7, <1>8, <1>9 DEF StoreInv

LEMMA StepSyncDir ==
  ASSUME TypeOK, StoreInv, NEW t \in Targets, SyncDir(t)
  PROVE  TypeOK' /\ StoreInv'
<1> USE Sentinels DEF SyncDir, TypeOK, Targets, Versions, Contents, Idle
<1>1. pc # Idle /\ new = last /\ last \in Versions
  BY DEF StoreInv, Saving
<1>2. TypeOK'
  BY <1>1
<1>3. Whole'
  BY DEF StoreInv, Whole, Entries
<1>4. Temps'
  BY DEF StoreInv, Temps
<1>5. Saving' /\ NotYet' /\ Backed'
  BY DEF StoreInv, Saving, NotYet, Backed, Entries, Installing
<1>6. Acked'
  BY <1>1 DEF StoreInv, Acked, Entries, Installing
<1> QED  BY <1>2, <1>3, <1>4, <1>5, <1>6 DEF StoreInv

\* A failed save leaves nothing with its number behind, unless it is in doubt.
LEMMA StepFail ==
  ASSUME TypeOK, StoreInv, Fail
  PROVE  TypeOK' /\ StoreInv'
<1> USE Sentinels DEF Fail, TypeOK, Targets, Versions, Contents, Idle
<1>1. new = last /\ last \in Versions
  BY DEF StoreInv, Saving
<1>2. TypeOK'
  BY <1>1
<1>3. Whole'
  BY <1>1 DEF StoreInv, Whole, NotYet, Entries, Installing
<1>4. Temps' /\ Saving' /\ NotYet' /\ Backed'
  BY DEF StoreInv, Temps, Saving, NotYet, Backed, Entries, Installing
<1>5. Acked'
  BY <1>1 DEF StoreInv, Acked, Entries, Installing
<1> QED  BY <1>2, <1>3, <1>4, <1>5 DEF StoreInv

LEMMA StepCrash ==
  ASSUME TypeOK, StoreInv, ProcessCrash \/ HostCrash
  PROVE  TypeOK' /\ StoreInv'
<1> USE Sentinels DEF Down, TypeOK, Targets, Versions, Contents, Idle
<1>1. Down /\ soft = {} /\ soft' = {}
  BY DEF ProcessCrash, HostCrash, StoreInv, Whole
<1>2. \A t \in Targets : files'[t] \in Entries(t) /\ stable'[t] \in Entries(t)
  BY <1>1 DEF ProcessCrash, HostCrash, Survivors, Entries
<1>3. files' \in [Targets -> Contents] /\ stable' \in [Targets -> Contents]
  BY DEF ProcessCrash, HostCrash
<1>4. files' = stable' \/ (files' = files /\ stable' = stable)
  BY DEF ProcessCrash, HostCrash
<1>5. TypeOK'
  BY <1>1, <1>3
<1>6. Whole'
  BY <1>1, <1>2 DEF StoreInv, Whole, Entries
<1>7. Temps' /\ Saving' /\ NotYet'
  BY <1>1 DEF Temps, Saving, NotYet, Installing
<1>8. Acked'
  BY <1>1, <1>2 DEF StoreInv, Acked, Entries, Installing
<1>9. Backed'
  BY <1>1, <1>4 DEF StoreInv, Backed
<1> QED  BY <1>5, <1>6, <1>7, <1>8, <1>9 DEF StoreInv

\* Every step keeps the types and the invariant.
LEMMA StoreStep ==
  ASSUME TypeOK, StoreInv, [Next]_vars
  PROVE  TypeOK' /\ StoreInv'
<1>1. CASE Boot
  BY <1>1 DEF Boot, TypeOK, StoreInv, Whole, Temps, Saving, NotYet, Acked, Backed,
              Entries, Installing
<1>2. CASE UNCHANGED vars
  BY <1>2 DEF vars, TypeOK, StoreInv, Whole, Temps, Saving, NotYet, Acked, Backed,
              Entries, Installing
<1> QED
  BY <1>1, <1>2, StepBegin, StepWrite, StepSync, StepRename, StepSyncDir, StepFail,
     StepCrash DEF Next

LEMMA StoreInit ==
  ASSUME Init
  PROVE  TypeOK /\ StoreInv
BY Sentinels
   DEF Init, TypeOK, StoreInv, Whole, Temps, Saving, NotYet, Acked, Backed, Entries,
       Installing, Targets, Contents, Idle

LEMMA StoreInvariant == Spec => [](TypeOK /\ StoreInv)
<1>1. TypeOK /\ StoreInv /\ [Next]_vars => TypeOK' /\ StoreInv'
  BY StoreStep
<1> QED  BY <1>1, StoreInit, PTL DEF Spec

(* For any number of saves, the directory, the temporaries and the save in
   progress keep their types (AtomicWrite, SaveState, LoadState). *)
THEOREM TypeCorrect == Spec => []TypeOK
BY StoreInvariant, PTL

(* Whatever calls fail and whoever crashes, a save that was reported as done
   is what LoadState finds, or a later one is (AtomicWrite's syncs before and
   after its rename). *)
THEOREM AckedSurvivesAll == Spec => []AckedSurvives
<1>1. TypeOK /\ StoreInv => AckedSurvives
  BY DEF StoreInv, Whole, Acked, Entries, AckedSurvives, Survivors
<1> QED  BY <1>1, StoreInvariant, PTL

(* The snapshot that AtomicWrite leaves beside the primary is never a torn
   file, and never a state whose save was reported as failed. *)
THEOREM SnapshotGood == Spec => []SnapshotNotRejected
<1>1. TypeOK /\ StoreInv => SnapshotNotRejected
  BY Sentinels DEF TypeOK, StoreInv, Whole, Entries, SnapshotNotRejected, Survivors, Targets, Versions
<1> QED  BY <1>1, StoreInvariant, PTL
-----------------------------------------------------------------------------
(* The refinement.                                                         *)

\* What a load may find after a host crash.
LEMMA Candidates ==
  ASSUME StoreInv
  PROVE  Survivors("primary") = {stable["primary"], files["primary"]}
BY DEF StoreInv, Whole, Survivors

\* Every step of the file is a step of the register, or none.
LEMMA RegisterStep ==
  ASSUME TypeOK, StoreInv, TypeOK', StoreInv', [Next]_vars
  PROVE  [Register!Next]_(Register!regVars)
<1> DEFINE req == IF pc = Idle THEN NoFile ELSE new
           cand == Survivors("primary")
<1> USE Sentinels DEF Targets, Idle
<1>1. cand = {stable["primary"], files["primary"]}
  BY Candidates
<1>2. cand' = {stable'["primary"], files'["primary"]}
  BY DEF StoreInv, Whole, Survivors
<1>3. pc # Idle => new = last /\ new \in Versions /\ new # NoFile
  BY DEF StoreInv, Saving, TypeOK, Versions
<1>4. CASE Boot \/ UNCHANGED vars
  <2>1. UNCHANGED <<files, pc, new, before, result, stable, soft>>
    BY <1>4 DEF Boot, vars
  <2> QED  BY <2>1, <1>1, <1>2 DEF Register!regVars
<1>5. CASE BeginSave
  <2>1. Register!Begin(new')
    BY <1>1, <1>2, <1>5 DEF BeginSave, Register!Begin
  <2>2. new' \in Versions
    BY <1>5 DEF BeginSave, TypeOK, Versions
  <2> QED  BY <2>1, <2>2 DEF Register!Next
<1>6. ASSUME NEW t \in Targets, WriteTemp(t) \/ SyncTemp(t)
      PROVE  UNCHANGED Register!regVars
  BY <1>1, <1>2, <1>6 DEF WriteTemp, SyncTemp, Register!regVars
<1>7. CASE Rename("previous")
  <2>1. files'["primary"] = files["primary"]
    BY <1>7 DEF Rename, TypeOK
  <2> QED  BY <1>1, <1>2, <1>7, <2>1 DEF Rename, Register!regVars
<1>8. CASE Rename("primary")
  <2>1. files'["primary"] = new /\ stable' = stable /\ stable["primary"] = files["primary"]
    BY <1>8 DEF Rename, Data, TypeOK, StoreInv, Backed
  <2>2. Register!Install
    BY <1>1, <1>2, <1>3, <1>8, <2>1 DEF Rename, Register!Install
  <2> QED  BY <2>2 DEF Register!Next
<1>9. CASE SyncDir("previous")
  <2>1. Register!Flush
    BY <1>1, <1>2, <1>9 DEF SyncDir, Register!Flush
  <2> QED  BY <2>1 DEF Register!Next
<1>10. CASE SyncDir("primary")
  <2>1. files["primary"] = new
    BY <1>10 DEF SyncDir, StoreInv, Acked, Installing
  <2>2. Register!Confirm
    BY <1>1, <1>2, <1>3, <1>10, <2>1 DEF SyncDir, Register!Confirm
  <2> QED  BY <2>2 DEF Register!Next
<1>11. CASE Fail
  <2>1. UNCHANGED <<files, stable, soft>> /\ pc' = Idle /\ before' = NoFile /\ pc # Idle
    BY <1>11 DEF Fail
  <2>2. CASE pc[1] = "dirsync"
    <3>1. Register!Doubt
      BY <1>1, <1>2, <1>3, <1>11, <2>1, <2>2 DEF Fail, Register!Doubt
    <3> QED  BY <3>1 DEF Register!Next
  <2>3. CASE pc[1] # "dirsync"
    <3>1. files["primary"] = before
      BY <2>1, <2>3 DEF StoreInv, NotYet, Installing
    <3>2. Register!Reject
      BY <1>1, <1>2, <1>3, <1>11, <2>1, <2>3, <3>1 DEF Fail, Register!Reject
    <3> QED  BY <3>2 DEF Register!Next
  <2> QED  BY <2>2, <2>3
<1>12. CASE ProcessCrash
  <2>1. Register!ProcessCrash
    BY <1>1, <1>2, <1>12 DEF ProcessCrash, Down, Register!ProcessCrash
  <2> QED  BY <2>1 DEF Register!Next
<1>13. CASE HostCrash
  <2>1. files'["primary"] \in cand /\ stable' = files'
    BY <1>13 DEF HostCrash
  <2>2. Register!HostCrash
    BY <1>2, <1>13, <2>1 DEF HostCrash, Down, Register!HostCrash
  <2> QED  BY <2>2 DEF Register!Next
<1> QED
  BY <1>4, <1>5, <1>6, <1>7, <1>8, <1>9, <1>10, <1>11, <1>12, <1>13 DEF Next

(* The file-system calls of AtomicWrite, in their order and with all their
   failures, implement the register of DurableRegister. *)
THEOREM StoreIsRegister == Spec => RegisterSpec
<1>1. Init => Register!Init
  BY DEF Init, Register!Init, Survivors, Targets, Idle
<1>2. TypeOK /\ StoreInv /\ [Next]_vars => [Register!Next]_(Register!regVars)
  BY StoreStep, RegisterStep
<1> QED  BY <1>1, <1>2, StoreInvariant, PTL DEF Spec, RegisterSpec, Register!Spec
=============================================================================
