----------------------------- MODULE CoreResults -----------------------------
(***************************************************************************)
(* The possible results of the leaf node's Engine.Apply                    *)
(* (src/internal/node/core.go), with the Xray process seen as one record.  *)
(* CoreContract makes a specification of them, which NodeCore implements;  *)
(* NodeAgent is built on them.                                             *)
(*                                                                         *)
(* A configuration is the structure of the inbounds (what skeleton() keeps *)
(* of them) and the set of accounts they admit, an account standing for an *)
(* inbound, an e-mail, an id and a flow.                                   *)
(***************************************************************************)
CONSTANTS Skeletons,   \* structures of the inbound list
          NoInbounds,  \* the structure of an empty inbound list
          Accounts     \* accounts an inbound may admit

ASSUME ResultsAssumption == NoInbounds \in Skeletons

Configs == {c \in [skel : Skeletons, users : SUBSET Accounts] :
              c.skel = NoInbounds => c.users = {}}

\* c.live before the first start.
Blank == [skel |-> NoInbounds, users |-> {}]

Engines == [up    : BOOLEAN,   \* an Xray process is alive
            cfg   : Configs,   \* what that process really serves
            memo  : Configs,   \* what the Core believes it serves (c.live)
            fresh : BOOLEAN]   \* it was started since the caller last looked
                               \* at Generation, so its counters began at 0

Stopped(e) == [e EXCEPT !.up = FALSE, !.cfg = Blank]

\* The process that a start of configuration c brings up.
Started(c) == [up |-> TRUE, cfg |-> c, memo |-> c, fresh |-> TRUE]

\* What a hot update from one configuration to another may leave half done.
Between(old, next) ==
  {c \in Configs : /\ c.skel = old.skel
                   /\ old.users \cap next.users \subseteq c.users
                   /\ c.users \subseteq old.users \cup next.users}

\* A start that failed: it may have spawned a process that had to be killed.
Failed(e) == {Stopped(e), [Stopped(e) EXCEPT !.fresh = TRUE]}

\* How a call ended: the engine, the answer, and whether the process that was
\* running has been kept.
Result(e, ok, kept) == [eng |-> e, ok |-> ok, kept |-> kept]

\* restart(next): the new process, else the one Core believed in, else none.
RestartResults(e, next) ==
  {Result(Started(next), TRUE, FALSE), Result(Started(e.memo), FALSE, FALSE)}
    \cup {Result(f, FALSE, FALSE) : f \in Failed(e)}

\* A hot update that failed half way at c: the old process is rebuilt, or the
\* core is stopped, in which case c.live remains half updated.
HotFailures(e, next) ==
  {Result(Started(e.memo), FALSE, FALSE)}
    \cup UNION {{Result([f EXCEPT !.memo = c], FALSE, FALSE) : c \in Between(e.memo, next)}
                : f \in Failed(e)}

\* Apply(next).  Core.Running() is looked at first; a process that dies during
\* the call is one of the failures, or is dead on return.
ApplyResults(e, next) ==
  IF e.up /\ e.memo.skel = next.skel
  THEN {Result([e EXCEPT !.cfg = next, !.memo = next], TRUE, TRUE)}
         \cup HotFailures(e, next)
  ELSE RestartResults(e, next)

\* The process may have died unnoticed by the time a call returns.
MayBeDead(r) == {r, [r EXCEPT !.eng = Stopped(r.eng)]}
=============================================================================
