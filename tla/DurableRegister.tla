--------------------------- MODULE DurableRegister ---------------------------
(***************************************************************************)
(* What a caller of the leaf node's SaveState/LoadState may rely on        *)
(* (src/internal/node/store.go), with no files, temporaries or snapshots:  *)
(* one register.  A write takes effect at one instant; a crash of the      *)
(* process loses at most a write that has not taken effect; a crash of the *)
(* host may also undo a write that was never confirmed, but never one that *)
(* was, and never leaves a value nobody wrote.                             *)
(***************************************************************************)
CONSTANTS Values,   \* what can be written
          NoFile    \* the register has never been written

VARIABLES val,      \* what a load returns now
          cand,     \* what a load may return after a host crash
          req,      \* the write in progress, or NoFile when there is none
          orig,     \* what the register held when that write began
          outcome   \* how the last write ended

regVars == <<val, cand, req, orig, outcome>>

Outcomes == {"none", "ok", "error", "uncertain"}

Init == /\ val = NoFile /\ cand = {NoFile}
        /\ req = NoFile /\ orig = NoFile /\ outcome = "none"

\* A write is requested.
Begin(v) == /\ req = NoFile
            /\ req' = v /\ orig' = val /\ outcome' = "none"
            /\ UNCHANGED <<val, cand>>

\* The write takes effect, but a host crash can still undo it.
Install == /\ req # NoFile /\ val' = req /\ cand' = cand \cup {req}
           /\ UNCHANGED <<req, orig, outcome>>

\* The host makes everything visible durable.
Flush == /\ cand' = {val} /\ UNCHANGED <<val, req, orig, outcome>>

\* The write is confirmed only when no crash can undo it.
Confirm == /\ req # NoFile /\ val = req
           /\ req' = NoFile /\ orig' = NoFile /\ outcome' = "ok"
           /\ cand' = {val} /\ UNCHANGED val

\* A plain error means that the register was not touched.
Reject == /\ req # NoFile /\ val = orig
          /\ req' = NoFile /\ orig' = NoFile /\ outcome' = "error"
          /\ UNCHANGED <<val, cand>>

\* Any other failure leaves the outcome open.
Doubt == /\ req # NoFile
         /\ req' = NoFile /\ orig' = NoFile /\ outcome' = "uncertain"
         /\ UNCHANGED <<val, cand>>

\* The process dies; what is visible stays visible.
ProcessCrash == /\ req' = NoFile /\ orig' = NoFile /\ outcome' = "none"
                /\ UNCHANGED <<val, cand>>

\* The host dies; what is visible becomes one of the candidates.
HostCrash == /\ val' \in cand /\ cand' = {val'}
             /\ req' = NoFile /\ orig' = NoFile /\ outcome' = "none"

Next == \/ \E v \in Values : Begin(v)
        \/ Install \/ Flush \/ Confirm \/ Reject \/ Doubt
        \/ ProcessCrash \/ HostCrash

Spec == Init /\ [][Next]_regVars
=============================================================================
