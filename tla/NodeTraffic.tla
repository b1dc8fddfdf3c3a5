---------------------------- MODULE NodeTraffic ----------------------------
(***************************************************************************)
(* How the panel adds up one client's traffic over its nodes               *)
(* (src/internal/web/service/inbound_node.go, setRemoteTrafficLocked, and  *)
(* job/node_traffic_sync_job.go, syncOne).  A node reports cumulative      *)
(* counters, one copy for every inbound that carries the client.  The      *)
(* panel keeps, for each node, the reading it has already added (the       *)
(* baseline) and adds the difference to the client's one row; a reading    *)
(* below the baseline is clamped.  A node may renew the client's term by   *)
(* itself, and the panel recognises that from a later deadline beside a    *)
(* renewal count or a counter that dropped: it then takes the node's       *)
(* counters and deadline as the row's.  While the node's configuration is  *)
(* dirty or was pushed in the same tick, deadlines are frozen and only     *)
(* traffic is added.                                                       *)
(*                                                                         *)
(* A unit of traffic has an identity here: the row holds the units its     *)
(* counters stand for.  Left out are the enable switch and the quota, the  *)
(* deletion of clients and inbounds, durations that a first connection     *)
(* turns into a deadline, and the panel's own inbounds.  The reconcile is  *)
(* one step, and a request that fails has no effect (NodeSync has its      *)
(* interleavings with edits, and answers that are lost).                   *)
(***************************************************************************)
EXTENDS Integers, FiniteSets, Functions

CONSTANTS
  Nodes,          \* the nodes that carry the client
  Dirs,           \* the directions traffic is counted in: up and down
  Copies,         \* how many inbounds of each node carry it
  MaxUse,         \* bound: units of traffic used
  MaxExpiry,      \* bound: deadlines
  MaxEvents,      \* bound: resets, renewals and edits of the deadline
  NoRow,          \* no row in client_traffics
  NoBase          \* no row in node_client_traffics

ASSUME TrafficAssumption ==
  /\ Copies \in [Nodes -> Nat \ {0}]
  /\ {MaxUse, MaxExpiry, MaxEvents} \subseteq Nat /\ 2 \in 1..MaxExpiry

Counters == [Dirs -> Nat]
Units == Nodes \X Dirs \X Nat
\* An inbound's settings: the client's deadline and the edit that wrote them,
\* told from the others by updated_at (no two edits fall in one second).
Payloads == Nat \X Nat
Unknown == <<0, 0>>
\* A client on a node: the units it has used, the first of them its counters
\* no longer hold, the deadline in its statistics, the inbound's settings, and
\* how often the node has renewed it (reset_count).
Reports == [total : Counters, off : Counters, exp : Nat, set : Payloads, count : Nat]
Rows == [used : SUBSET Units, exp : Nat, count : Nat, home : Nodes]
ASSUME NoneAssumption == NoRow \notin Rows /\ NoBase \notin Counters

VARIABLES
  node,       \* the client on each node
  row,        \* its row in client_traffics
  base,       \* its baselines in node_client_traffics
  central,    \* the settings in the panel's row of each node's inbounds
  fp,         \* pushedFP: the settings the node is believed to have
  adopted,    \* whether the panel has a row of the node's inbounds
  dirty,      \* config_dirty
  pushing,    \* the settings before and after an edit being pushed to a node
  resetting,  \* nodes a reset is being passed on to
  tick,       \* syncOne on each node
  events,     \* counter for the bound
  seen,       \* history: units ever added to the row
  twice,      \* history: units added once more
  loose,      \* history: units added while the baseline stayed where it was
  owed        \* history: the node has renewed and the panel has not said otherwise

history == <<seen, twice, loose, owed>>
vars == <<node, row, base, central, fp, adopted, dirty, pushing, resetting, tick,
          events, history>>
-----------------------------------------------------------------------------
\* What a report's counters show, and the units between two readings.
Counter(s) == [d \in Dirs |-> s.total[d] - s.off[d]]
Between(n, s, lo, hi) ==
  {<<n, d, s.off[d] + i>> : d \in Dirs, i \in 1..MaxUse}
    \cap UNION {{<<n, d, u>> : u \in s.off[d] + lo[d] + 1 .. s.off[d] + hi[d]}
                : d \in Dirs}
Zero == [d \in Dirs |-> 0]
Dips(s, b) == \E d \in Dirs : Counter(s)[d] < b[d]

Idle == [pc |-> "idle"]
Pulling(pushed) == [pc |-> "pull", pushed |-> pushed]
Merging(pushed, s, renewed) ==
  [pc |-> "merge", pushed |-> pushed, snap |-> s, renewed |-> renewed]
Ticks == {Idle} \cup {Pulling(p) : p \in BOOLEAN}
           \cup [pc : {"merge"}, pushed : BOOLEAN, snap : Reports, renewed : BOOLEAN]
Pushes == {<<>>} \cup Payloads \X Payloads

Init ==
  /\ node \in [Nodes -> {[total |-> Zero, off |-> Zero, exp |-> 2, set |-> <<2, 0>>,
                          count |-> c] : c \in 0..1}]
  /\ row = NoRow
  /\ base = [n \in Nodes |-> NoBase]
  /\ central = [n \in Nodes |-> <<2, 0>>]
  /\ fp = [n \in Nodes |-> Unknown]
  /\ adopted \in [Nodes -> BOOLEAN]
  /\ dirty = [n \in Nodes |-> FALSE]
  /\ pushing = [n \in Nodes |-> <<>>] /\ resetting = {}
  /\ tick = [n \in Nodes |-> Idle]
  /\ events = 0
  /\ seen = {} /\ twice = {} /\ loose = {}
  /\ owed = [n \in Nodes |-> FALSE]
-----------------------------------------------------------------------------
\* On the node: traffic flows; the counters are reset by the node's
\* administrator or a restored database; a term ends and is renewed; the
\* statistics catch up with the settings.
Used == SumFunctionOnSet([x \in Nodes \X Dirs |-> node[x[1]].total[x[2]]], Nodes \X Dirs)
Counted == events < MaxEvents /\ events' = events + 1
Use(n, d) ==
  /\ Used < MaxUse
  /\ node' = [node EXCEPT ![n].total[d] = @ + 1]
  /\ UNCHANGED <<row, base, central, fp, adopted, dirty, pushing, resetting, tick,
                 events, history>>

Zeroed(s) == [s EXCEPT !.off = s.total]
NodeReset(n) ==
  /\ Counted
  /\ node' = [node EXCEPT ![n] = Zeroed(@)]
  /\ UNCHANGED <<row, base, central, fp, adopted, dirty, pushing, resetting, tick,
                 history>>

NodeRenew(n) ==
  /\ node[n].exp < MaxExpiry /\ Counted
  /\ LET s == Zeroed(node[n]) IN
       node' = [node EXCEPT ![n] =
                  [s EXCEPT !.exp = @ + 1, !.set = <<s.exp + 1, s.set[2]>>, !.count = @ + 1]]
  /\ owed' = [owed EXCEPT ![n] = TRUE]
  /\ UNCHANGED <<row, base, central, fp, adopted, dirty, pushing, resetting, tick,
                 seen, twice, loose>>

CatchUp(n) ==
  /\ node[n].exp # node[n].set[1]
  /\ node' = [node EXCEPT ![n].exp = node[n].set[1]]
  /\ UNCHANGED <<row, base, central, fp, adopted, dirty, pushing, resetting, tick,
                 events, history>>

\* The node takes the panel's settings; the statistics may follow later.
Deliver(n, p) ==
  /\ node' = [node EXCEPT ![n].set = p]
  /\ owed' = [owed EXCEPT ![n] = FALSE]
-----------------------------------------------------------------------------
\* An administrator sets another deadline: the row and every inbound have it,
\* and each node is marked dirty; the edit is also pushed to the nodes that
\* are online (nodePushPlan).
SetExpiry(e) ==
  /\ row # NoRow /\ e # row.exp /\ Counted
  /\ \A n \in Nodes : pushing[n] = <<>>
  /\ row' = [row EXCEPT !.exp = e]
  /\ central' = [n \in Nodes |-> IF adopted[n] THEN <<e, events'>> ELSE central[n]]
  /\ dirty' = [n \in Nodes |-> dirty[n] \/ adopted[n]]
  /\ \E online \in SUBSET {n \in Nodes : adopted[n]} :
       pushing' = [n \in Nodes |-> IF n \in online THEN <<central[n], central'[n]>> ELSE <<>>]
  /\ UNCHANGED <<node, base, fp, adopted, resetting, tick, history>>

\* Any other edit of the node's configuration that is left to the reconcile,
\* of an inbound that carries the client or of another.
OtherEdit(n) ==
  /\ ~dirty[n] /\ Counted
  /\ dirty' = [dirty EXCEPT ![n] = TRUE]
  /\ \/ central' = central
     \/ adopted[n] /\ central' = [central EXCEPT ![n] = <<@[1], events'>>]
  /\ UNCHANGED <<node, row, base, fp, adopted, pushing, resetting, tick, history>>

\* The push arrives, and moves the fingerprint if it was the one of before
\* the edit; or it fails.
PushEdit(n) ==
  /\ pushing[n] # <<>>
  /\ pushing' = [pushing EXCEPT ![n] = <<>>]
  /\ \/ /\ Deliver(n, pushing[n][2])
        /\ fp' = [fp EXCEPT ![n] = IF @ = pushing[n][1] THEN pushing[n][2] ELSE @]
     \/ UNCHANGED <<node, owed, fp>>
  /\ UNCHANGED <<row, base, central, adopted, dirty, resetting, tick, events,
                 seen, twice, loose>>

\* The panel resets the client's traffic: in bulk without a word to the
\* nodes, or for one inbound, which marks its node dirty and then passes the
\* reset on.
Wiped == [row EXCEPT !.used = {}]
BulkReset ==
  /\ row # NoRow /\ Counted
  /\ row' = Wiped
  /\ base' = [n \in Nodes |-> NoBase]
  /\ UNCHANGED <<node, central, fp, adopted, dirty, pushing, resetting, tick, history>>

ResetClientTraffic(n) ==
  /\ row # NoRow /\ adopted[n] /\ Counted
  /\ row' = Wiped
  /\ base' = [m \in Nodes |-> NoBase]
  /\ dirty' = [dirty EXCEPT ![n] = TRUE]
  /\ resetting' = resetting \cup {n}
  /\ UNCHANGED <<node, central, fp, adopted, pushing, tick, history>>

PassReset(n) ==
  /\ n \in resetting
  /\ resetting' = resetting \ {n}
  /\ node' \in {node, [node EXCEPT ![n] = Zeroed(@)]}
  /\ UNCHANGED <<row, base, central, fp, adopted, dirty, pushing, tick,
                 events, history>>
-----------------------------------------------------------------------------
\* The sync job on one node.  A clean node's snapshot is fetched; a dirty node
\* is reconciled first.  The inbound is skipped if its payload is the one the
\* node is believed to have; it may be delivered although the reconcile fails,
\* on another inbound, which leaves the flag set, and the traffic is pulled
\* regardless.
Snapshot(n, pushed) ==
  tick' = [tick EXCEPT ![n] = Merging(pushed, node[n], owed[n])]
Begin(n) ==
  /\ tick[n].pc = "idle" /\ ~dirty[n]
  /\ Snapshot(n, FALSE)
  /\ UNCHANGED <<node, row, base, central, fp, adopted, dirty, pushing, resetting,
                 events, history>>

Reconcile(n) ==
  /\ tick[n].pc = "idle" /\ dirty[n]
  /\ \E ok \in BOOLEAN :
       /\ tick' = [tick EXCEPT ![n] = Pulling(ok)]
       /\ dirty' = [dirty EXCEPT ![n] = ~ok]
       /\ \/ /\ adopted[n] /\ fp[n] # central[n]
             /\ Deliver(n, central[n])
             /\ fp' = [fp EXCEPT ![n] = central[n]]
          \/ /\ ~adopted[n] \/ fp[n] = central[n] \/ ~ok
             /\ UNCHANGED <<node, owed, fp>>
  /\ UNCHANGED <<row, base, central, adopted, pushing, resetting, events,
                 seen, twice, loose>>

Fetch(n) ==
  /\ tick[n].pc = "pull"
  /\ Snapshot(n, tick[n].pushed)
  /\ UNCHANGED <<node, row, base, central, fp, adopted, dirty, pushing, resetting,
                 events, history>>

FetchFails(n) ==
  /\ tick[n].pc = "pull"
  /\ tick' = [tick EXCEPT ![n] = Idle]
  /\ UNCHANGED <<node, row, base, central, fp, adopted, dirty, pushing, resetting,
                 events, history>>
-----------------------------------------------------------------------------
\* nodeClientRenewed, and the check of the settings' deadline after it.
nodeClientRenewed(s, r, b) ==
  /\ s.exp > r.exp
  /\ s.count > r.count \/ Dips(s, b)

\* Mutant of Renewed: the settings are not asked.
RenewedUnasked(n, s, frozen, m) ==
  /\ ~frozen /\ m.base # NoBase /\ m.row.home = n
  /\ nodeClientRenewed(s, m.row, m.base)

Renewed(n, s, frozen, m) ==
  /\ ~frozen /\ m.base # NoBase /\ m.row.home = n
  /\ nodeClientRenewed(s, m.row, m.base)
  /\ s.set[1] > m.row.exp

\* upsertNodeBaseline.
Based(m, s) == [m EXCEPT !.base = Counter(s)]

\* The client has no row yet: a newly adopted inbound brings its history.
Create(n, s, new, m) ==
  LET units == IF new THEN Between(n, s, Zero, Counter(s)) ELSE {}
  IN Based([m EXCEPT !.row = [used |-> units, exp |-> s.exp, count |-> 0, home |-> n],
                     !.seen = @ \cup units], s)

\* The node has renewed the client: its counters are the new term's.
AdoptTerm(n, s, m) ==
  LET units == Between(n, s, Zero, Counter(s))
  IN Based([m EXCEPT !.row = [used |-> units, exp |-> s.exp, count |-> s.count, home |-> n],
                     !.seen = @ \cup units], s)

\* What was used since the baseline.
Delta(n, s, m) == IF m.base = NoBase THEN {} ELSE Between(n, s, m.base, Counter(s))

\* Mutant of Credit: a frozen merge never moves the baseline.
CreditFrozen(n, s, frozen, m) ==
  LET units == Delta(n, s, m)
      sum == [m EXCEPT !.row.used = @ \cup units, !.seen = @ \cup units,
                       !.twice = @ \cup (units \cap m.seen),
                       !.loose = IF m.base # NoBase /\ Dips(s, m.base)
                                 THEN @ \cup units ELSE @]
  IN IF frozen THEN sum ELSE Based(sum, s)

\* It is added, but the baseline stays in a frozen merge that finds a counter
\* below it.
Credit(n, s, frozen, m) ==
  LET units == Delta(n, s, m)
      kept == frozen /\ m.base # NoBase /\ Dips(s, m.base)
      sum == [m EXCEPT !.row.used = @ \cup units, !.seen = @ \cup units,
                       !.twice = @ \cup (units \cap m.seen),
                       !.loose = IF kept THEN @ \cup units ELSE @]
  IN IF kept THEN sum ELSE Based(sum, s)

\* Mutant of MergeCopy: the baseline moves although no row was made.
MergeCopyBased(n, s, frozen, new, m) ==
  IF m.row = NoRow
  THEN IF dirty[n] THEN Based(m, s) ELSE Create(n, s, new, m)
  ELSE IF Renewed(n, s, frozen, m) THEN AdoptTerm(n, s, m)
                                   ELSE Credit(n, s, frozen, m)

MergeCopy(n, s, frozen, new, m) ==
  IF m.row = NoRow
  THEN IF dirty[n] THEN m ELSE Create(n, s, new, m)
  ELSE IF Renewed(n, s, frozen, m) THEN AdoptTerm(n, s, m)
                                   ELSE Credit(n, s, frozen, m)

\* Every inbound of the node that carries the client, one after the other.
Merged(n, s, frozen, new) ==
  LET m[k \in 0..Copies[n]] ==
        IF k = 0 THEN [row |-> row, base |-> base[n], seen |-> seen, twice |-> twice,
                       loose |-> loose]
                 ELSE MergeCopy(n, s, frozen, new, m[k - 1])
  IN m[Copies[n]]

\* setRemoteTrafficLocked: the flag is read again inside.  Inbounds the panel
\* does not know are adopted unless the node is dirty; otherwise a clean
\* merge takes the node's settings over with the row's deadline lifted into
\* them, and a lift marks the node dirty.
SetRemoteTraffic(n) ==
  /\ tick[n].pc = "merge"
  /\ tick' = [tick EXCEPT ![n] = Idle]
  /\ IF ~adopted[n] /\ dirty[n]
     THEN UNCHANGED <<row, base, central, fp, adopted, dirty, history>>
     ELSE LET s == tick[n].snap
              new == ~adopted[n]
              m == Merged(n, s, dirty[n] \/ tick[n].pushed, new)
              taken == /\ m.row # NoRow /\ (row = NoRow \/ m.row.count # row.count)
                       /\ s.count = node[n].count
              lift == ~new /\ m.row # NoRow /\ m.row.home = n /\ m.row.exp # s.set[1]
          IN /\ row' = m.row
             /\ base' = [base EXCEPT ![n] = m.base]
             /\ seen' = m.seen /\ twice' = m.twice /\ loose' = m.loose
             /\ adopted' = [adopted EXCEPT ![n] = TRUE]
             /\ central' = IF dirty[n] THEN central
                           ELSE [central EXCEPT ![n] = IF lift THEN <<m.row.exp, s.set[2]>>
                                                       ELSE s.set]
             /\ fp' = IF dirty[n] \/ new \/ ~(lift \/ central[n] # s.set) THEN fp
                      ELSE [fp EXCEPT ![n] = s.set]
             /\ dirty' = [dirty EXCEPT ![n] = @ \/ lift]
             /\ owed' = [owed EXCEPT ![n] = @ /\ ~taken]
  /\ UNCHANGED <<node, pushing, resetting, events>>

Next ==
  \/ \E n \in Nodes : \/ \E d \in Dirs : Use(n, d)
                      \/ NodeReset(n) \/ NodeRenew(n) \/ CatchUp(n)
                      \/ OtherEdit(n) \/ PushEdit(n) \/ ResetClientTraffic(n) \/ PassReset(n)
                      \/ Begin(n) \/ Reconcile(n) \/ Fetch(n) \/ FetchFails(n)
                      \/ SetRemoteTraffic(n)
  \/ \E e \in 1..MaxExpiry : SetExpiry(e)
  \/ BulkReset

Spec == Init /\ [][Next]_vars
-----------------------------------------------------------------------------
(* A row's units, the baselines, the flags and the readings are well formed,
   and the panel has baselines only of nodes whose inbounds it knows. *)
TypeOK ==
  /\ node \in [Nodes -> Reports]
  /\ row \in Rows \cup {NoRow}
  /\ base \in [Nodes -> Counters \cup {NoBase}]
  /\ {central, fp} \subseteq [Nodes -> Payloads] /\ pushing \in [Nodes -> Pushes]
  /\ {adopted, dirty, owed} \subseteq [Nodes -> BOOLEAN]
  /\ resetting \subseteq Nodes
  /\ tick \in [Nodes -> Ticks] /\ events \in Nat
  /\ \A n \in Nodes : base[n] # NoBase => row # NoRow /\ adopted[n]

(* A unit of traffic is added to the row at most once, however often counters
   are reset, readings are older than what happened since, and deadlines are
   frozen; except a unit added by a frozen merge that kept the baseline because
   a counter was below it (NodeTraffic counts those in loose). *)
CountedOnce == twice \subseteq loose

(* A merge moves the row's deadline only for a renewal the node made and the
   panel has not overridden since (nodeClientRenewed and the checks around
   it). *)
RenewalIsReal ==
  [][\A n \in Nodes :
       tick[n].pc = "merge" /\ tick'[n].pc = "idle" /\ row # NoRow /\ row'.exp # row.exp
         => tick[n].renewed]_vars

(* The claim of docs/architecture.md that the merge with baselines avoids
   double counting, without the exception. *)
NoDoubleCounting == twice = {}
=============================================================================
