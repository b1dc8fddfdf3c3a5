------------------------------ MODULE NodeStore ------------------------------
(***************************************************************************)
(* The leaf node's state file: SaveState, AtomicWrite and LoadState of     *)
(* src/internal/node/store.go, one file-system call at a time, with a      *)
(* failure possible at every call, a crash of the process or of the host   *)
(* between any two calls, and a directory whose renames reach the disk     *)
(* only when it is synced.  A state is abstracted to the number of the     *)
(* save that wrote it; the JSON inside and the size limits are left out.   *)
(***************************************************************************)
EXTENDS Naturals

CONSTANTS MaxVersion,   \* bound: number of saves in a behaviour
          NoFile,       \* a directory entry that does not exist
          Torn          \* contents that no save ever wrote

ASSUME StoreAssumption ==
  MaxVersion \in Nat /\ NoFile \notin Nat /\ Torn \notin Nat /\ NoFile # Torn

VARIABLES
  files,    \* the directory as the process sees it
  stable,   \* the directory as it would be found after a host crash
  soft,     \* entries whose contents were renamed in before being synced
  tmp,      \* the temporary file of each AtomicWrite in progress
  pc,       \* the next call, and the file the AtomicWrite it belongs to is for
  new,      \* the state being saved
  up,       \* the node process
  result,   \* what the last SaveState returned
  last,     \* number of the last save begun
  before,   \* history: the primary when the save in progress began
  acked,    \* history: the last save whose success was reported
  rejected  \* history: the saves that were reported as failed, and not in doubt

vars == <<files, stable, soft, tmp, pc, new, up, result, last, before, acked, rejected>>

Targets  == {"primary", "previous"}
Versions == 1..MaxVersion
Contents == Versions \cup {NoFile, Torn}
Idle     == <<"idle", "primary">>

Init ==
  /\ files = [t \in Targets |-> NoFile] /\ stable = files /\ soft = {}
  /\ tmp = [t \in Targets |-> "none"]
  /\ pc = Idle /\ new = NoFile /\ up = "down" /\ result = "none"
  /\ last = 0 /\ before = NoFile /\ acked = 0 /\ rejected = {}

-----------------------------------------------------------------------------
(* LoadState: what starting a node on the given directory does.            *)

Load(f) ==
  IF f["primary"] = NoFile
  THEN IF f["previous"] # NoFile THEN "refuse" ELSE "fresh"
  ELSE IF f["primary"] = Torn THEN "refuse" ELSE "loaded"

Boot ==
  /\ up = "down" /\ Load(files) # "refuse"
  /\ up' = "up"
  /\ UNCHANGED <<files, stable, soft, tmp, pc, new, result, last, before, acked, rejected>>

-----------------------------------------------------------------------------
(* SaveState and AtomicWrite.  The backup is itself an AtomicWrite, made   *)
(* after the new temporary is synced and before it is renamed.             *)

BeginSave ==
  /\ up = "up" /\ pc = Idle /\ last < MaxVersion
  /\ last' = last + 1 /\ new' = last' /\ before' = files["primary"]
  /\ pc' = <<"write", "primary">> /\ result' = "none"
  /\ UNCHANGED <<files, stable, soft, tmp, up, acked, rejected>>

WriteTemp(t) ==
  /\ pc = <<"write", t>>
  /\ tmp' = [tmp EXCEPT ![t] = "dirty"] /\ pc' = <<"sync", t>>
  /\ UNCHANGED <<files, stable, soft, new, up, result, last, before, acked, rejected>>

SyncTemp(t) ==
  /\ pc = <<"sync", t>>
  /\ tmp' = [tmp EXCEPT ![t] = "synced"]
  /\ pc' = IF t = "primary" /\ files["primary"] # NoFile
           THEN <<"write", "previous">> ELSE <<"rename", t>>
  /\ UNCHANGED <<files, stable, soft, new, up, result, last, before, acked, rejected>>

\* Mutant of Data: the backup is made of the new state.
DataNew(t) == new

\* The bytes an AtomicWrite for t installs: the backup copies the primary.
Data(t) == IF t = "primary" THEN new ELSE files["primary"]

Rename(t) ==
  /\ pc = <<"rename", t>>
  /\ files' = [files EXCEPT ![t] = Data(t)]
  /\ soft' = IF tmp[t] = "synced" THEN soft \ {t} ELSE soft \cup {t}
  /\ tmp' = [tmp EXCEPT ![t] = "none"] /\ pc' = <<"dirsync", t>>
  /\ UNCHANGED <<stable, new, up, result, last, before, acked, rejected>>

\* Mutant of SyncDir: success is reported without d.Sync().
SyncDirSkipped(t) ==
  /\ pc = <<"dirsync", t>>
  /\ IF t = "previous"
     THEN pc' = <<"rename", "primary">> /\ UNCHANGED <<new, result, before, acked>>
     ELSE /\ pc' = Idle /\ new' = NoFile /\ before' = NoFile
          /\ result' = "ok" /\ acked' = new
  /\ UNCHANGED <<files, stable, soft, tmp, up, last, rejected>>

SyncDir(t) ==
  /\ pc = <<"dirsync", t>>
  /\ stable' = files
  /\ IF t = "previous"
     THEN pc' = <<"rename", "primary">> /\ UNCHANGED <<new, result, before, acked>>
     ELSE /\ pc' = Idle /\ new' = NoFile /\ before' = NoFile
          /\ result' = "ok" /\ acked' = new
  /\ UNCHANGED <<files, soft, tmp, up, last, rejected>>

\* Mutant of Fail: a failed directory sync is an error like any other.
FailPlain ==
  /\ pc # Idle
  /\ result' = "error" /\ rejected' = rejected \cup {new}
  /\ tmp' = [t \in Targets |-> "none"] /\ pc' = Idle /\ before' = NoFile
  /\ UNCHANGED <<files, stable, soft, new, up, last, acked>>

\* Mutant of Fail: the save is cleared before it is recorded.
FailCleared ==
  /\ pc # Idle
  /\ result' = IF pc[1] = "dirsync" THEN "uncertain" ELSE "error"
  /\ up' = IF pc[1] = "dirsync" THEN "halted" ELSE up
  /\ tmp' = [t \in Targets |-> "none"] /\ pc' = Idle /\ before' = NoFile /\ new' = NoFile
  /\ rejected' = IF pc[1] = "dirsync" THEN rejected ELSE rejected \cup {new'}
  /\ UNCHANGED <<files, stable, soft, last, acked>>

\* A failed call ends the save: the deferred os.Remove drops the temporaries,
\* and only a failure after a rename, even the backup's, is an ErrDurability,
\* on which the node halts and saves no more.
Fail ==
  /\ pc # Idle
  /\ result' = IF pc[1] = "dirsync" THEN "uncertain" ELSE "error"
  /\ up' = IF pc[1] = "dirsync" THEN "halted" ELSE up
  /\ tmp' = [t \in Targets |-> "none"] /\ pc' = Idle /\ before' = NoFile
  /\ rejected' = IF pc[1] = "dirsync" THEN rejected ELSE rejected \cup {new}
  /\ UNCHANGED <<files, stable, soft, new, last, acked>>

-----------------------------------------------------------------------------
(* Crashes.                                                                *)

Down == /\ up' = "down" /\ pc' = Idle /\ result' = "none"
        /\ tmp' = [t \in Targets |-> "none"]
        /\ new' = NoFile /\ before' = NoFile /\ UNCHANGED <<last, acked, rejected>>

ProcessCrash == up # "down" /\ Down /\ UNCHANGED <<files, stable, soft>>

\* What a host crash may leave under the name t: the entry as last synced, or
\* the renamed one, torn if its contents had never been synced.
Survivors(t) == {stable[t], IF t \in soft THEN Torn ELSE files[t]}

HostCrash ==
  /\ Down
  /\ \E f \in [Targets -> Contents] :
        /\ \A t \in Targets : f[t] \in Survivors(t)
        /\ files' = f /\ stable' = f
  /\ soft' = {}

Next == \/ Boot \/ BeginSave \/ Fail \/ ProcessCrash \/ HostCrash
        \/ \E t \in Targets : WriteTemp(t) \/ SyncTemp(t) \/ Rename(t) \/ SyncDir(t)

Spec == Init /\ [][Next]_vars

-----------------------------------------------------------------------------
(* Properties.                                                             *)

TypeOK ==
  /\ files \in [Targets -> Contents] /\ stable \in [Targets -> Contents]
  /\ soft \subseteq Targets /\ tmp \in [Targets -> {"none", "dirty", "synced"}]
  /\ pc \in {"idle", "write", "sync", "rename", "dirsync"} \X Targets
  /\ new \in Versions \cup {NoFile} /\ up \in {"down", "up", "halted"}
  /\ result \in {"none", "ok", "error", "uncertain"}
  /\ last \in 0..MaxVersion /\ before \in Versions \cup {NoFile, Torn}
  /\ acked \in 0..MaxVersion /\ rejected \subseteq Versions

(* A save whose success was reported survives every crash: whatever a      *)
(* crash leaves under the primary's name is that save or a later one,      *)
(* whole.  LoadState therefore never silently starts from an older state,  *)
(* nor from an empty one, which would revive revoked accounts.             *)
AckedSurvives ==
  acked > 0 => \A c \in Survivors("primary") : c \in acked..last

(* The .previous snapshot is whole and was the node's state once: restoring *)
(* it by hand, as docs/node/README.md describes, never puts a state into    *)
(* force whose save the node had reported as failed.                        *)
SnapshotNotRejected ==
  Survivors("previous") \cap (rejected \cup {Torn}) = {}

(* The abstract register: the primary alone, whatever happens around it.   *)
Register == INSTANCE DurableRegister WITH Values <- Versions,
  val <- files["primary"], cand <- Survivors("primary"),
  req <- IF pc = Idle THEN NoFile ELSE new, orig <- before, outcome <- result

(* Every sequence of file-system calls, failures and crashes is one the    *)
(* abstract register allows.                                               *)
RegisterSpec == Register!Spec

=============================================================================
