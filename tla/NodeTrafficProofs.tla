------------------------- MODULE NodeTrafficProofs -------------------------
(***************************************************************************)
(* Proofs about NodeTraffic, for any nodes, directions, numbers of         *)
(* inbounds and bounds.  Two invariants do the work.  TrafficInv says what *)
(* a reading may contain: what the row has added of a node is among what   *)
(* the node has counted, and, but for what was added loosely, among what   *)
(* the baseline stands for; and the same of a snapshot not merged yet, as  *)
(* of the moment it was taken.  TermInv says where deadlines may differ: a *)
(* node that owes the panel no renewal has a later deadline than the row   *)
(* only while it is dirty or believed to have other settings.  A merge is  *)
(* a chain of one step for every inbound; MergedIsChain unfolds it, and    *)
(* UpTo, the least number principle on sets, carries a fact along it.      *)
(***************************************************************************)
EXTENDS NodeTraffic, WellFoundedInduction, TLAPS

\* No counter starts after it ends.
Honest(s) == \A d \in Dirs : s.off[d] <= s.total[d]
\* The units of node n are among those that report s has counted, or among
\* those that it shows up to baseline b.
Known(n, units, s) == \A x \in units : x[1] = n => x[3] <= s.total[x[2]]
Covered(n, units, s, b) == \A x \in units : x[1] = n => x[3] <= s.off[x[2]] + b[x[2]]
\* Report t was made after report s.
Before(s, t) == \A d \in Dirs : s.total[d] <= t.total[d] /\ s.off[d] <= t.off[d]

\* Report s and baseline b account for the units added.
Bounded(n, s, b, added, kept) ==
  /\ Honest(s) /\ Known(n, added, s)
  /\ b # NoBase => Covered(n, added \ kept, s, b)

Readings ==
  \A n \in Nodes : Bounded(n, node[n], base[n], seen, loose)
Snapshots ==
  \A n \in Nodes : tick[n].pc = "merge" =>
    /\ Before(tick[n].snap, node[n])
    /\ Bounded(n, tick[n].snap, base[n], seen, loose)
Histories == {seen, twice, loose} \subseteq SUBSET Units

TrafficInv == Readings /\ Snapshots /\ Histories /\ CountedOnce

\* The client's row was made from node n.
Owner(n) == row # NoRow /\ row.home = n
Merges(n) == tick[n].pc = "merge"

\* The panel's settings of the owner carry the row's deadline, and a push
\* brings the owner no later one.
Adopted == \A n \in Nodes : Owner(n) => adopted[n] /\ central[n][1] = row.exp
Pushing ==
  \A n \in Nodes : pushing[n] # <<>> =>
    row # NoRow /\ adopted[n] /\ (Owner(n) => pushing[n][2][1] <= row.exp)
\* Until the panel knows the inbounds, a node's statistics follow its settings.
Unadopted ==
  \A n \in Nodes : ~adopted[n] =>
    /\ node[n].exp = node[n].set[1]
    /\ Merges(n) => tick[n].snap.exp = tick[n].snap.set[1]
\* No settings bear the stamp of an edit still to come.
Stamps ==
  \A n \in Nodes :
    /\ fp[n][2] <= events /\ central[n][2] <= events /\ node[n].set[2] <= events
    /\ Merges(n) => tick[n].snap.set[2] <= events
    /\ pushing[n] # <<>> => pushing[n][2][2] <= events
Counts == \A n \in Nodes : Merges(n) => tick[n].snap.count <= node[n].count
\* A node whose renewals are settled has no later deadline than the row: when
\* the panel believes it has its settings, and when it is not dirty.
Believed ==
  \A n \in Nodes : Owner(n) /\ ~owed[n] /\ fp[n] = central[n] => node[n].set[1] <= row.exp
Clean == \A n \in Nodes : Owner(n) /\ ~owed[n] /\ ~dirty[n] => node[n].set[1] <= row.exp
\* A snapshot from which a renewal may be taken is of the settings the node has.
Fresh ==
  \A n \in Nodes :
    /\ row = NoRow \/ Owner(n)
    /\ Merges(n) /\ ~dirty[n] /\ (owed[n] => tick[n].snap.count = node[n].count)
    => node[n].set = tick[n].snap.set \/ (Owner(n) /\ node[n].set[1] <= row.exp)
\* A snapshot of a node that owed nothing shows no later deadline.
Old ==
  \A n \in Nodes :
    Owner(n) /\ Merges(n) /\ ~dirty[n] /\ ~tick[n].renewed => tick[n].snap.set[1] <= row.exp

TermInv ==
  Adopted /\ Pushing /\ Unadopted /\ Stamps /\ Counts /\ Believed /\ Clean /\ Fresh /\ Old

\* What a merge carries from one inbound to the next.
Sums == [row : Rows \cup {NoRow}, base : Counters \cup {NoBase},
         seen : SUBSET Units, twice : SUBSET Units, loose : SUBSET Units]
Sound(n, s, m) ==
  /\ m \in Sums /\ (row # NoRow \/ m.base # NoBase => m.row # NoRow)
  /\ Bounded(n, s, m.base, m.seen, m.loose)
  /\ m.twice \subseteq m.loose
  /\ loose \subseteq m.loose /\ \A x \in m.seen : x \in seen \/ x[1] = n
-----------------------------------------------------------------------------

LEMMA LeastNumber ==
  ASSUME NEW T, T \subseteq Nat, T # {}
  PROVE  \E x \in T : \A y \in T : x <= y
<1>1. IsWellFoundedOn(OpToRel(<, Nat), Nat)
  BY NatLessThanWellFounded
<1>2. \E x \in T : \A y \in T : ~ (<<y, x>> \in OpToRel(<, Nat))
  BY <1>1, WFMin
<1>3. PICK x \in T : \A y \in T : ~ (<<y, x>> \in OpToRel(<, Nat))
  BY <1>2
<1>4. ASSUME NEW y \in T PROVE x <= y
  <2>1. ~(y < x)
    BY <1>3 DEF OpToRel
  <2> QED  BY <2>1
<1> QED  BY <1>4

LEMMA UpTo ==
  ASSUME NEW N \in Nat, NEW T, 0 \in T, \A k \in 0..N : k \in T /\ k + 1 \in 0..N => k + 1 \in T
  PROVE  0..N \subseteq T
<1> SUFFICES ASSUME ~(0..N \subseteq T) PROVE FALSE
  OBVIOUS
<1> DEFINE Z == {k \in 0..N : k \notin T}
<1>1. Z \subseteq Nat /\ Z # {}
  OBVIOUS
<1>2. PICK x \in Z : \A y \in Z : x <= y
  BY <1>1, LeastNumber
<1>3. x # 0 /\ x - 1 \in 0..N /\ x - 1 \notin Z
  BY <1>2
<1>4. x - 1 \in T /\ (x - 1) + 1 = x
  BY <1>2, <1>3
<1> QED  BY <1>2, <1>3, <1>4

LEMMA MergedIsChain ==
  ASSUME NEW n \in Nodes, NEW s, NEW frozen, NEW new
  PROVE  \E m : /\ Merged(n, s, frozen, new) = m[Copies[n]]
                /\ m = [k \in 0..Copies[n] |->
                     IF k = 0 THEN [row |-> row, base |-> base[n], seen |-> seen, twice |-> twice,
                                    loose |-> loose]
                     ELSE MergeCopy(n, s, frozen, new, m[k - 1])]
<1> DEFINE A == [row |-> row, base |-> base[n], seen |-> seen, twice |-> twice, loose |-> loose]
           F(x) == MergeCopy(n, s, frozen, new, x)
           Chain(g, N) == g = [k \in 0..N |-> IF k = 0 THEN A ELSE F(g[k - 1])]
           T == {N \in Nat : \E g : Chain(g, N)}
           N0 == Copies[n]
<1> HIDE DEF A, F
<1>1. N0 \in Nat
  BY TrafficAssumption
<1>2. 0 \in T
  <2> DEFINE g == [k \in 0..0 |-> A]
  <2>1. Chain(g, 0)
    OBVIOUS
  <2> QED  BY <2>1
<1>3. ASSUME NEW N \in 0..N0, N \in T PROVE N + 1 \in T
  <2>1. PICK g : Chain(g, N)
    BY <1>3
  <2> DEFINE h == [k \in 0..(N + 1) |-> IF k = 0 THEN A ELSE F(g[k - 1])]
  <2>2. ASSUME NEW k \in 0..N PROVE h[k] = g[k]
    BY <2>1, <1>1
  <2>3. ASSUME NEW k \in 0..(N + 1), k # 0 PROVE k - 1 \in 0..N
    BY <1>1, <2>3
  <2>4. ASSUME NEW k \in 0..(N + 1), k # 0 PROVE h[k] = F(h[k - 1])
    <3>1. h[k] = F(g[k - 1])
      BY <2>4
    <3> QED  BY <3>1, <2>2, <2>3, <2>4
  <2>5. h = [k \in 0..(N + 1) |-> IF k = 0 THEN A ELSE F(h[k - 1])]
    BY <2>4
  <2>6. Chain(h, N + 1)
    BY <2>5
  <2>7. N + 1 \in Nat
    BY <1>1
  <2> HIDE DEF Chain
  <2> QED  BY <2>6, <2>7
<1>4. N0 \in T
  <2> HIDE DEF T, N0
  <2>1. 0..N0 \subseteq T
    BY <1>1, <1>2, <1>3, UpTo
  <2> QED  BY <1>1, <2>1
<1> DEFINE m == CHOOSE g : Chain(g, N0)
<1>5. Chain(m, N0)
  BY <1>4
<1>6. Merged(n, s, frozen, new) = m[N0]
  BY Zenon DEF Merged, A, F
<1> QED  BY <1>5, <1>6, Zenon DEF A, F
-----------------------------------------------------------------------------
LEMMA CounterType ==
  ASSUME NEW s \in Reports, Honest(s)
  PROVE  /\ Counter(s) \in Counters /\ Counter(s) # NoBase
         /\ \A d \in Dirs : s.off[d] + Counter(s)[d] = s.total[d]
<1>1. s.off \in Counters /\ s.total \in Counters
  BY DEF Reports
<1>2. ASSUME NEW d \in Dirs PROVE s.total[d] - s.off[d] \in Nat
  BY <1>1, <1>2 DEF Honest, Counters
<1>3. Counter(s) \in Counters
  BY <1>2 DEF Counter, Counters
<1>4. ASSUME NEW d \in Dirs PROVE s.off[d] + Counter(s)[d] = s.total[d]
  BY <1>1 DEF Counter, Counters
<1> QED  BY <1>3, <1>4, NoneAssumption

LEMMA ZeroType == Zero \in Counters
BY DEF Zero, Counters

LEMMA BetweenIs ==
  ASSUME NEW n \in Nodes, NEW s \in Reports, NEW lo \in Counters, NEW hi \in Counters,
         NEW x \in Between(n, s, lo, hi)
  PROVE  /\ x \in Units /\ x[1] = n
         /\ s.off[x[2]] + lo[x[2]] < x[3] /\ x[3] <= s.off[x[2]] + hi[x[2]]
<1>1. PICK d \in Dirs : x \in {<<n, d, u>> : u \in s.off[d] + lo[d] + 1 .. s.off[d] + hi[d]}
  BY DEF Between
<1>2. PICK u \in s.off[d] + lo[d] + 1 .. s.off[d] + hi[d] : x = <<n, d, u>>
  BY <1>1
<1>3. s.off[d] \in Nat /\ lo[d] \in Nat /\ hi[d] \in Nat
  BY DEF Reports, Counters
<1>4. u \in Nat /\ s.off[d] + lo[d] < u /\ u <= s.off[d] + hi[d]
  BY <1>2, <1>3
<1> QED  BY <1>2, <1>4 DEF Units

\* Units a report shows are all known to it.
LEMMA ShownIsKnown ==
  ASSUME NEW n \in Nodes, NEW s \in Reports, Honest(s), NEW lo \in Counters
  PROVE  /\ Between(n, s, lo, Counter(s)) \subseteq Units
         /\ \A x \in Between(n, s, lo, Counter(s)) : x[1] = n
         /\ Known(n, Between(n, s, lo, Counter(s)), s)
<1>1. ASSUME NEW x \in Between(n, s, lo, Counter(s))
      PROVE  x \in Units /\ x[1] = n /\ x[3] <= s.total[x[2]]
  <2>1. x \in Units /\ x[1] = n /\ x[3] <= s.off[x[2]] + Counter(s)[x[2]]
    BY CounterType, BetweenIs
  <2>2. x[2] \in Dirs
    BY <2>1 DEF Units
  <2> QED  BY <2>1, <2>2, CounterType
<1> QED  BY <1>1 DEF Known

\* With the counters of a report as its baseline, all that it knows is covered.
LEMMA BasedCovers ==
  ASSUME NEW n \in Nodes, NEW s \in Reports, Honest(s), NEW us \in SUBSET Units, NEW ls,
         Known(n, us, s)
  PROVE  Bounded(n, s, Counter(s), us, ls)
<1>1. ASSUME NEW x \in us \ ls, x[1] = n PROVE x[3] <= s.off[x[2]] + Counter(s)[x[2]]
  <2>1. x[2] \in Dirs
    BY DEF Units
  <2> QED  BY <1>1, <2>1, CounterType DEF Known
<1> QED  BY <1>1 DEF Bounded, Covered

LEMMA CreateSound ==
  ASSUME NEW n \in Nodes, NEW s \in Reports, NEW new \in BOOLEAN, NEW m, Sound(n, s, m)
  PROVE  Sound(n, s, Create(n, s, new, m))
<1> DEFINE units == IF new THEN Between(n, s, Zero, Counter(s)) ELSE {}
           r == [used |-> units, exp |-> s.exp, count |-> 0, home |-> n]
           q == Create(n, s, new, m)
<1>1. Honest(s) /\ m \in Sums /\ m.seen \subseteq Units /\ Known(n, m.seen, s)
  BY DEF Sound, Bounded, Sums
<1>2. units \subseteq Units /\ (\A x \in units : x[1] = n) /\ Known(n, units, s)
  BY <1>1, ShownIsKnown, ZeroType DEF Known
<1>3. r \in Rows /\ r # NoRow
  BY <1>2, NoneAssumption DEF Rows, Reports
<1> HIDE DEF units, r
<1>4. q = [[m EXCEPT !.row = r, !.seen = @ \cup units] EXCEPT !.base = Counter(s)]
  BY ZenonT(40) DEF Create, Based, units, r
<1>5. /\ q.row = r /\ q.base = Counter(s) /\ q.seen = m.seen \cup units
      /\ q.twice = m.twice /\ q.loose = m.loose
  BY <1>1, <1>4 DEF Sums
<1>6. q \in Sums
  BY <1>1, <1>2, <1>3, <1>4, CounterType DEF Sums
<1>7. Bounded(n, s, q.base, q.seen, q.loose)
  BY <1>1, <1>2, <1>5, BasedCovers DEF Known
<1>8. /\ m.twice \subseteq m.loose /\ loose \subseteq m.loose
      /\ \A x \in m.seen : x \in seen \/ x[1] = n
  BY DEF Sound
<1> HIDE DEF q
<1>9. \A x \in q.seen : x \in seen \/ x[1] = n
  BY <1>2, <1>5, <1>8
<1>10. row # NoRow \/ q.base # NoBase => q.row # NoRow
  BY <1>3, <1>5
<1>11. q.twice \subseteq q.loose /\ loose \subseteq q.loose
  BY <1>5, <1>8
<1>12. Sound(n, s, q)
  BY <1>6, <1>7, <1>9, <1>10, <1>11, Zenon DEF Sound
<1> QED  BY <1>12 DEF q

LEMMA AdoptTermSound ==
  ASSUME NEW n \in Nodes, NEW s \in Reports, NEW m, Sound(n, s, m)
  PROVE  Sound(n, s, AdoptTerm(n, s, m))
<1> DEFINE units == Between(n, s, Zero, Counter(s))
           r == [used |-> units, exp |-> s.exp, count |-> s.count, home |-> n]
           q == AdoptTerm(n, s, m)
<1>1. Honest(s) /\ m \in Sums /\ m.seen \subseteq Units /\ Known(n, m.seen, s)
  BY DEF Sound, Bounded, Sums
<1>2. units \subseteq Units /\ (\A x \in units : x[1] = n) /\ Known(n, units, s)
  BY <1>1, ShownIsKnown, ZeroType
<1>3. r \in Rows /\ r # NoRow
  BY <1>2, NoneAssumption DEF Rows, Reports
<1> HIDE DEF units, r
<1>4. q = [[m EXCEPT !.row = r, !.seen = @ \cup units] EXCEPT !.base = Counter(s)]
  BY Zenon DEF AdoptTerm, Based, units, r
<1>5. /\ q.row = r /\ q.base = Counter(s) /\ q.seen = m.seen \cup units
      /\ q.twice = m.twice /\ q.loose = m.loose
  BY <1>1, <1>4 DEF Sums
<1>6. q \in Sums
  BY <1>1, <1>2, <1>3, <1>4, CounterType DEF Sums
<1>7. Bounded(n, s, q.base, q.seen, q.loose)
  BY <1>1, <1>2, <1>5, BasedCovers DEF Known
<1>8. /\ m.twice \subseteq m.loose /\ loose \subseteq m.loose
      /\ \A x \in m.seen : x \in seen \/ x[1] = n
  BY DEF Sound
<1> HIDE DEF q
<1>9. \A x \in q.seen : x \in seen \/ x[1] = n
  BY <1>2, <1>5, <1>8
<1>10. row # NoRow \/ q.base # NoBase => q.row # NoRow
  BY <1>3, <1>5
<1>11. q.twice \subseteq q.loose /\ loose \subseteq q.loose
  BY <1>5, <1>8
<1>12. Sound(n, s, q)
  BY <1>6, <1>7, <1>9, <1>10, <1>11, Zenon DEF Sound
<1> QED  BY <1>12 DEF q

\* Units since the baseline are new, unless the baseline was kept before them.
LEMMA DeltaIs ==
  ASSUME NEW n \in Nodes, NEW s \in Reports, NEW m, Sound(n, s, m)
  PROVE  /\ Delta(n, s, m) \subseteq Units /\ \A x \in Delta(n, s, m) : x[1] = n
         /\ Known(n, Delta(n, s, m), s)
         /\ Delta(n, s, m) \cap m.seen \subseteq m.loose
<1>1. Honest(s) /\ m \in Sums /\ m.seen \subseteq Units
  BY DEF Sound, Bounded, Sums
<1>2. CASE m.base = NoBase
  BY <1>2 DEF Delta, Known
<1>3. CASE m.base # NoBase
  <2>1. m.base \in Counters
    BY <1>1, <1>3 DEF Sums
  <2>2. Delta(n, s, m) = Between(n, s, m.base, Counter(s))
    BY <1>3 DEF Delta
  <2>3. ASSUME NEW x \in Delta(n, s, m), x \in m.seen, x \notin m.loose PROVE FALSE
    <3>1. x[1] = n /\ x \in Units /\ s.off[x[2]] + m.base[x[2]] < x[3]
      BY <1>1, <2>1, <2>2, CounterType, BetweenIs
    <3>2. x[3] <= s.off[x[2]] + m.base[x[2]]
      BY <1>3, <2>3, <3>1 DEF Sound, Bounded, Covered
    <3>3. s.off[x[2]] + m.base[x[2]] \in Nat /\ x[3] \in Nat
      BY <2>1, <3>1 DEF Units, Reports, Counters
    <3> QED  BY <3>1, <3>2, <3>3
  <2> QED  BY <1>1, <2>1, <2>2, <2>3, ShownIsKnown
<1> QED  BY <1>2, <1>3

LEMMA CreditSound ==
  ASSUME NEW n \in Nodes, NEW s \in Reports, NEW frozen \in BOOLEAN, NEW m, Sound(n, s, m),
         m.row # NoRow
  PROVE  Sound(n, s, Credit(n, s, frozen, m))
<1> DEFINE units == Delta(n, s, m)
           kept == frozen /\ m.base # NoBase /\ Dips(s, m.base)
           sum == [m EXCEPT !.row.used = @ \cup units, !.seen = @ \cup units,
                            !.twice = @ \cup (units \cap m.seen),
                            !.loose = IF kept THEN @ \cup units ELSE @]
           q == Credit(n, s, frozen, m)
<1>1. /\ Honest(s) /\ m \in Sums /\ m.seen \subseteq Units /\ Known(n, m.seen, s)
      /\ m.row \in Rows /\ m.row.used \subseteq Units
  BY DEF Sound, Bounded, Sums, Rows
<1>2. /\ units \subseteq Units /\ (\A x \in units : x[1] = n) /\ Known(n, units, s)
      /\ units \cap m.seen \subseteq m.loose
  BY DeltaIs
<1>3. q = IF kept THEN sum ELSE [sum EXCEPT !.base = Counter(s)]
  BY Zenon DEF Credit, Based
<1>4. /\ m.twice \subseteq m.loose /\ loose \subseteq m.loose
      /\ \A x \in m.seen : x \in seen \/ x[1] = n
  BY DEF Sound
<1> HIDE DEF units, kept
<1>5. /\ sum.row = [m.row EXCEPT !.used = @ \cup units] /\ sum.base = m.base
      /\ sum.seen = m.seen \cup units /\ sum.twice = m.twice \cup (units \cap m.seen)
      /\ sum.loose = IF kept THEN m.loose \cup units ELSE m.loose
  BY <1>1 DEF Sums
<1>6. sum.row \in Rows /\ sum.row # NoRow
  BY <1>1, <1>2, <1>5, NoneAssumption DEF Rows
<1>7. sum \in Sums
  <2>1. sum = [row |-> sum.row, base |-> sum.base, seen |-> sum.seen, twice |-> sum.twice,
               loose |-> sum.loose]
    <3> DEFINE r == [row |-> sum.row, base |-> sum.base, seen |-> sum.seen, twice |-> sum.twice,
                     loose |-> sum.loose]
    <3>1. DOMAIN sum = {"row", "base", "seen", "twice", "loose"} /\ DOMAIN r = DOMAIN sum
      BY <1>1 DEF Sums
    <3>2. sum = [x \in DOMAIN sum |-> sum[x]] /\ r = [x \in DOMAIN r |-> r[x]]
      BY <1>1 DEF Sums
    <3>3. \A x \in DOMAIN sum : sum[x] = r[x]
      <4> HIDE DEF sum
      <4> QED  BY <3>1
    <3> QED  BY <3>1, <3>2, <3>3, Zenon
  <2> HIDE DEF sum
  <2>2. sum.base \in Counters \cup {NoBase} /\ sum.seen \subseteq Units
        /\ sum.twice \subseteq Units /\ sum.loose \subseteq Units
    BY <1>1, <1>2, <1>5 DEF Sums
  <2> QED  BY <1>6, <2>1, <2>2 DEF Sums
<1> HIDE DEF sum
<1>8. /\ q \in Sums /\ q.row = sum.row /\ q.seen = sum.seen /\ q.twice = sum.twice
      /\ q.loose = sum.loose /\ q.base = IF kept THEN m.base ELSE Counter(s)
  BY <1>1, <1>3, <1>5, <1>7, CounterType DEF Sums
<1> HIDE DEF q
<1>9. q.twice \subseteq q.loose /\ loose \subseteq q.loose
  BY <1>2, <1>4, <1>5, <1>8
<1>10. \A x \in q.seen : x \in seen \/ x[1] = n
  BY <1>2, <1>4, <1>5, <1>8
<1>11. q.seen \in SUBSET Units /\ Known(n, q.seen, s)
  BY <1>1, <1>2, <1>5, <1>8 DEF Known
<1>12. Bounded(n, s, q.base, q.seen, q.loose)
  <2>1. CASE kept
    <3>1. q.seen \ q.loose \subseteq m.seen \ m.loose /\ q.base = m.base
      BY <1>5, <1>8, <2>1
    <3> QED  BY <1>11, <3>1 DEF Sound, Bounded, Covered
  <2>2. CASE ~kept
    BY <1>1, <1>8, <1>11, <2>2, BasedCovers
  <2> QED  BY <2>1, <2>2
<1>13. Sound(n, s, q)
  BY <1>6, <1>8, <1>9, <1>10, <1>12, Zenon DEF Sound
<1> QED  BY <1>13 DEF q

LEMMA CopySound ==
  ASSUME NEW n \in Nodes, NEW s \in Reports, NEW frozen \in BOOLEAN, NEW new \in BOOLEAN,
         NEW m, Sound(n, s, m)
  PROVE  Sound(n, s, MergeCopy(n, s, frozen, new, m))
BY CreateSound, AdoptTermSound, CreditSound, Zenon DEF MergeCopy

\* What a merge begins with.
Start(n) == [row |-> row, base |-> base[n], seen |-> seen, twice |-> twice, loose |-> loose]

LEMMA MergedSound ==
  ASSUME NEW n \in Nodes, NEW s \in Reports, NEW frozen \in BOOLEAN, NEW new \in BOOLEAN,
         Sound(n, s, Start(n))
  PROVE  Sound(n, s, Merged(n, s, frozen, new))
<1>1. PICK m : /\ Merged(n, s, frozen, new) = m[Copies[n]]
               /\ m = [k \in 0..Copies[n] |->
                     IF k = 0 THEN Start(n) ELSE MergeCopy(n, s, frozen, new, m[k - 1])]
  BY MergedIsChain DEF Start
<1>2. Copies[n] \in Nat
  BY TrafficAssumption
<1> DEFINE T == {k \in 0..Copies[n] : Sound(n, s, m[k])}
<1>3. 0 \in T
  <2>1. m[0] = Start(n)
    BY <1>1, <1>2
  <2> QED  BY <1>2, <2>1
<1>4. ASSUME NEW k \in 0..Copies[n], k \in T, k + 1 \in 0..Copies[n] PROVE k + 1 \in T
  <2>1. m[k + 1] = MergeCopy(n, s, frozen, new, m[(k + 1) - 1])
    BY <1>1, <1>2, <1>4
  <2>2. m[k + 1] = MergeCopy(n, s, frozen, new, m[k])
    BY <2>1, <1>2
  <2> QED  BY <1>4, <2>2, CopySound
<1>5. Copies[n] \in T
  <2> HIDE DEF T
  <2>1. 0..Copies[n] \subseteq T
    BY <1>2, <1>3, <1>4, UpTo
  <2> QED  BY <1>2, <2>1
<1> QED  BY <1>1, <1>5

\* Row r is what a merge of snapshot s made of the row before it.
Term(n, s, frozen, r) ==
  /\ row = NoRow => r = NoRow \/ (~dirty[n] /\ r.home = n /\ r.exp = s.exp)
  /\ row # NoRow =>
       /\ r # NoRow /\ r.home = row.home
       /\ \/ r.exp = row.exp /\ r.count = row.count
          \/ ~frozen /\ r.home = n /\ s.set[1] > row.exp /\ r.exp = s.exp /\ s.exp > row.exp

LEMMA RowAfter ==
  ASSUME NEW n, NEW s, NEW frozen, NEW new, NEW m \in Sums
  PROVE  /\ LET r == Create(n, s, new, m).row IN r.home = n /\ r.exp = s.exp
         /\ LET r == AdoptTerm(n, s, m).row IN r.home = n /\ r.exp = s.exp
         /\ m.row # NoRow =>
              LET r == Credit(n, s, frozen, m).row
              IN r.home = m.row.home /\ r.exp = m.row.exp /\ r.count = m.row.count
<1>1. LET r == Create(n, s, new, m).row IN r.home = n /\ r.exp = s.exp
  BY DEF Create, Based, Sums
<1>2. LET r == AdoptTerm(n, s, m).row IN r.home = n /\ r.exp = s.exp
  BY DEF AdoptTerm, Based, Sums
<1>3. ASSUME m.row # NoRow
      PROVE  LET r == Credit(n, s, frozen, m).row
             IN r.home = m.row.home /\ r.exp = m.row.exp /\ r.count = m.row.count
  <2> DEFINE units == Delta(n, s, m)
             r == [m.row EXCEPT !.used = @ \cup units]
  <2>1. m.row \in Rows
    BY <1>3 DEF Sums
  <2>2. r.home = m.row.home /\ r.exp = m.row.exp /\ r.count = m.row.count
    BY <2>1 DEF Rows
  <2>3. Credit(n, s, frozen, m).row = r
    BY DEF Credit, Based, Sums
  <2> QED  BY <2>2, <2>3
<1> QED  BY <1>1, <1>2, <1>3

LEMMA CopyTerm ==
  ASSUME NEW n \in Nodes, NEW s \in Reports, NEW frozen \in BOOLEAN, NEW new \in BOOLEAN,
         NEW m, Sound(n, s, m), row \in Rows \cup {NoRow}, Term(n, s, frozen, m.row)
  PROVE  Term(n, s, frozen, MergeCopy(n, s, frozen, new, m).row)
<1>1. m \in Sums /\ m.row \in Rows \cup {NoRow} /\ s.exp \in Nat
  BY DEF Sound, Sums, Reports
<1>2. Sound(n, s, MergeCopy(n, s, frozen, new, m))
  BY CopySound
<1>4. CASE m.row = NoRow
  BY <1>1, <1>4, RowAfter DEF MergeCopy, Term
<1>5. CASE m.row # NoRow /\ Renewed(n, s, frozen, m)
  BY <1>1, <1>2, <1>5, RowAfter DEF MergeCopy, Term, Renewed, nodeClientRenewed, Rows, Sound
<1>6. CASE m.row # NoRow /\ ~Renewed(n, s, frozen, m)
  BY <1>1, <1>2, <1>6, RowAfter DEF MergeCopy, Term, Sound
<1> QED  BY <1>4, <1>5, <1>6

LEMMA MergedTerm ==
  ASSUME NEW n \in Nodes, NEW s \in Reports, NEW frozen \in BOOLEAN, NEW new \in BOOLEAN,
         Sound(n, s, Start(n)), row \in Rows \cup {NoRow}
  PROVE  Term(n, s, frozen, Merged(n, s, frozen, new).row)
<1>1. PICK m : /\ Merged(n, s, frozen, new) = m[Copies[n]]
               /\ m = [k \in 0..Copies[n] |->
                     IF k = 0 THEN Start(n) ELSE MergeCopy(n, s, frozen, new, m[k - 1])]
  BY MergedIsChain DEF Start
<1>2. Copies[n] \in Nat
  BY TrafficAssumption
<1> DEFINE T == {k \in 0..Copies[n] : Sound(n, s, m[k]) /\ Term(n, s, frozen, m[k].row)}
<1>3. 0 \in T
  <2>1. m[0] = Start(n)
    BY <1>1, <1>2
  <2>2. Term(n, s, frozen, Start(n).row)
    BY DEF Term, Start
  <2> QED  BY <1>2, <2>1, <2>2
<1>4. ASSUME NEW k \in 0..Copies[n], k \in T, k + 1 \in 0..Copies[n] PROVE k + 1 \in T
  <2>1. m[k + 1] = MergeCopy(n, s, frozen, new, m[(k + 1) - 1])
    BY <1>1, <1>2, <1>4
  <2>2. m[k + 1] = MergeCopy(n, s, frozen, new, m[k])
    BY <2>1, <1>2
  <2>3. Sound(n, s, m[k + 1])
    BY <1>4, <2>2, CopySound
  <2>4. Term(n, s, frozen, m[k + 1].row)
    BY <1>4, <2>2, CopyTerm
  <2> QED  BY <1>4, <2>3, <2>4
<1>5. Copies[n] \in T
  <2> HIDE DEF T
  <2>1. 0..Copies[n] \subseteq T
    BY <1>2, <1>3, <1>4, UpTo
  <2> QED  BY <1>2, <2>1
<1> QED  BY <1>1, <1>5
-----------------------------------------------------------------------------
LEMMA BoundedLater ==
  ASSUME NEW n \in Nodes, NEW s \in Reports, NEW t \in Reports, Before(s, t), Honest(t),
         NEW b \in Counters \cup {NoBase}, NEW us \in SUBSET Units, NEW ls,
         Bounded(n, s, b, us, ls)
  PROVE  Bounded(n, t, b, us, ls)
<1>1. ASSUME NEW x \in us, x[1] = n PROVE x[3] <= t.total[x[2]]
  <2>1. x[2] \in Dirs /\ x[3] \in Nat /\ x[3] <= s.total[x[2]]
    BY <1>1 DEF Units, Bounded, Known
  <2>2. s.total[x[2]] \in Nat /\ t.total[x[2]] \in Nat /\ s.total[x[2]] <= t.total[x[2]]
    BY <2>1 DEF Before, Reports, Counters
  <2> QED  BY <2>1, <2>2
<1>2. ASSUME b # NoBase, NEW x \in us \ ls, x[1] = n PROVE x[3] <= t.off[x[2]] + b[x[2]]
  <2>1. x[2] \in Dirs /\ x[3] \in Nat /\ x[3] <= s.off[x[2]] + b[x[2]]
    BY <1>2 DEF Units, Bounded, Covered
  <2>2. /\ s.off[x[2]] \in Nat /\ t.off[x[2]] \in Nat /\ s.off[x[2]] <= t.off[x[2]]
        /\ b[x[2]] \in Nat
    BY <1>2, <2>1 DEF Before, Reports, Counters
  <2> QED  BY <2>1, <2>2
<1> QED  BY <1>1, <1>2 DEF Bounded, Known, Covered

LEMMA BeforeTrans ==
  ASSUME NEW s \in Reports, NEW t \in Reports, NEW u \in Reports, Before(s, t), Before(t, u)
  PROVE  Before(s, u)
<1> SUFFICES ASSUME NEW d \in Dirs PROVE s.total[d] <= u.total[d] /\ s.off[d] <= u.off[d]
  BY DEF Before
<1>1. /\ {s.total[d], t.total[d], u.total[d], s.off[d], t.off[d], u.off[d]} \subseteq Nat
      /\ s.total[d] <= t.total[d] /\ t.total[d] <= u.total[d]
      /\ s.off[d] <= t.off[d] /\ t.off[d] <= u.off[d]
  BY DEF Reports, Counters, Before
<1> QED  BY <1>1

LEMMA BeforeSelf == ASSUME NEW s \in Reports PROVE Before(s, s)
BY DEF Before, Reports, Counters

LEMMA SnapType ==
  ASSUME TypeOK, NEW n \in Nodes, tick[n].pc = "merge"
  PROVE  tick[n].snap \in Reports /\ tick[n].pushed \in BOOLEAN
<1>1. tick[n] \in Ticks
  BY DEF TypeOK
<1> QED  BY <1>1 DEF Ticks, Idle, Pulling

\* All steps but a merge: nodes count on, baselines stay or are forgotten, and
\* a snapshot is of what the node shows.
LEMMA Advance ==
  ASSUME TypeOK, TrafficInv, TypeOK', UNCHANGED <<seen, twice, loose>>,
         \A m \in Nodes : Honest(node'[m]) /\ Before(node[m], node'[m]),
         \A m \in Nodes : base'[m] = base[m] \/ base'[m] = NoBase,
         \A m \in Nodes : tick'[m].pc = "merge" => tick'[m] = tick[m] \/ tick'[m].snap = node'[m]
  PROVE  TrafficInv'
<1>1. /\ \A m \in Nodes : node[m] \in Reports /\ node'[m] \in Reports
      /\ \A m \in Nodes : base[m] \in Counters \cup {NoBase} /\ base'[m] \in Counters \cup {NoBase}
      /\ seen \subseteq Units
  BY DEF TypeOK, TrafficInv, Histories
<1>2. ASSUME NEW m \in Nodes, NEW s, Bounded(m, s, base[m], seen, loose)
      PROVE  Bounded(m, s, base'[m], seen, loose)
  BY <1>2 DEF Bounded
<1>3. ASSUME NEW m \in Nodes PROVE Bounded(m, node'[m], base'[m], seen', loose')
  <2>1. Bounded(m, node'[m], base[m], seen, loose)
    BY <1>1, BoundedLater DEF TrafficInv, Readings
  <2> QED  BY <1>2, <2>1
<1>4. ASSUME NEW m \in Nodes, tick'[m].pc = "merge"
      PROVE  /\ Before(tick'[m].snap, node'[m])
             /\ Bounded(m, tick'[m].snap, base'[m], seen', loose')
  <2>1. CASE tick'[m] = tick[m]
    <3>1. Before(tick[m].snap, node[m]) /\ Bounded(m, tick[m].snap, base[m], seen, loose)
      BY <1>4, <2>1 DEF TrafficInv, Snapshots
    <3>2. tick[m].snap \in Reports
      BY <1>4, <2>1, SnapType
    <3> QED  BY <1>1, <1>2, <2>1, <3>1, <3>2, BeforeTrans
  <2>2. CASE tick'[m].snap = node'[m]
    BY <1>1, <1>3, <2>2, BeforeSelf
  <2> QED  BY <1>4, <2>1, <2>2
<1> QED  BY <1>3, <1>4 DEF TrafficInv, Readings, Snapshots, Histories, CountedOnce
-----------------------------------------------------------------------------
\* One node moves on.
LEMMA NodeMoves ==
  ASSUME TypeOK, TrafficInv, NEW n \in Nodes, NEW s \in Reports, Honest(s), Before(node[n], s),
         node' = [node EXCEPT ![n] = s]
  PROVE  /\ node' \in [Nodes -> Reports]
         /\ \A m \in Nodes : Honest(node'[m]) /\ Before(node[m], node'[m])
<1>1. node \in [Nodes -> Reports] /\ \A m \in Nodes : Honest(node[m])
  BY DEF TypeOK, TrafficInv, Readings, Bounded
<1>2. \A m \in Nodes : node'[m] = IF m = n THEN s ELSE node[m]
  BY <1>1
<1> QED  BY <1>1, <1>2, BeforeSelf

LEMMA NodeStays ==
  ASSUME TypeOK, TrafficInv, node' = node
  PROVE  \A m \in Nodes : Honest(node'[m]) /\ Before(node[m], node'[m])
BY BeforeSelf DEF TypeOK, TrafficInv, Readings, Bounded

\* Other counters: the units start after what has been used so far.
LEMMA ZeroedIs ==
  ASSUME NEW s \in Reports, Honest(s)
  PROVE  Zeroed(s) \in Reports /\ Honest(Zeroed(s)) /\ Before(s, Zeroed(s))
<1>1. Zeroed(s) \in Reports /\ Zeroed(s).off = s.total /\ Zeroed(s).total = s.total
  BY DEF Zeroed, Reports
<1>2. s.total \in Counters /\ s.off \in Counters
  BY DEF Reports
<1> QED  BY <1>1, <1>2 DEF Honest, Before, Counters

\* A report with other deadlines shows the same units.
LEMMA SameCounters ==
  ASSUME NEW s \in Reports, NEW t \in Reports, Honest(s), t.off = s.off, t.total = s.total
  PROVE  Honest(t) /\ Before(s, t)
BY BeforeSelf DEF Honest, Before

LEMMA UseKeeps ==
  ASSUME TypeOK, TrafficInv, NEW n \in Nodes, NEW d \in Dirs, Use(n, d)
  PROVE  TypeOK' /\ TrafficInv'
<1> DEFINE s == [node[n] EXCEPT !.total[d] = @ + 1]
<1>1. node[n] \in Reports /\ Honest(node[n])
  BY DEF TypeOK, TrafficInv, Readings, Bounded
<1>2. node' = [node EXCEPT ![n] = s]
  BY DEF Use
<1>3. /\ s \in Reports /\ s.off = node[n].off
      /\ s.total = [node[n].total EXCEPT ![d] = @ + 1]
  BY <1>1 DEF Reports, Counters
<1>4. \A e \in Dirs : /\ node[n].off[e] \in Nat /\ node[n].total[e] \in Nat
                        /\ node[n].off[e] <= node[n].total[e]
                        /\ s.total[e] = IF e = d THEN node[n].total[e] + 1 ELSE node[n].total[e]
  BY <1>1, <1>3 DEF Reports, Counters, Honest
<1> HIDE DEF s
<1>5. Honest(s) /\ Before(node[n], s)
  BY <1>3, <1>4 DEF Honest, Before
<1>6. /\ node' \in [Nodes -> Reports]
      /\ \A m \in Nodes : Honest(node'[m]) /\ Before(node[m], node'[m])
  BY <1>2, <1>3, <1>5, NodeMoves
<1>7. TypeOK'
  BY <1>6 DEF Use, history, TypeOK
<1> QED  BY <1>6, <1>7, Advance DEF Use, history

LEMMA NodeResetKeeps ==
  ASSUME TypeOK, TrafficInv, NEW n \in Nodes, NodeReset(n)
  PROVE  TypeOK' /\ TrafficInv'
<1>1. node[n] \in Reports /\ Honest(node[n])
  BY DEF TypeOK, TrafficInv, Readings, Bounded
<1>2. node' = [node EXCEPT ![n] = Zeroed(node[n])]
  BY DEF NodeReset
<1>3. /\ node' \in [Nodes -> Reports]
      /\ \A m \in Nodes : Honest(node'[m]) /\ Before(node[m], node'[m])
  BY <1>1, <1>2, ZeroedIs, NodeMoves
<1>4. TypeOK'
  BY <1>3 DEF NodeReset, Counted, history, TypeOK
<1> QED  BY <1>3, <1>4, Advance DEF NodeReset, history

LEMMA NodeRenewKeeps ==
  ASSUME TypeOK, TrafficInv, NEW n \in Nodes, NodeRenew(n)
  PROVE  TypeOK' /\ TrafficInv'
<1> DEFINE z == Zeroed(node[n])
           s == [z EXCEPT !.exp = @ + 1, !.set = <<z.exp + 1, z.set[2]>>, !.count = @ + 1]
<1>1. node[n] \in Reports /\ Honest(node[n])
  BY DEF TypeOK, TrafficInv, Readings, Bounded
<1>2. z \in Reports /\ Honest(z) /\ Before(node[n], z)
  BY <1>1, ZeroedIs
<1>3. node' = [node EXCEPT ![n] = s]
  BY Zenon DEF NodeRenew
<1> HIDE DEF z
<1>4. s \in Reports /\ s.off = z.off /\ s.total = z.total
  <2>1. z.exp + 1 \in Nat /\ z.count + 1 \in Nat /\ <<z.exp + 1, z.set[2]>> \in Payloads
    BY <1>1, <1>2 DEF Reports, Payloads
  <2>2. z \in [total : Counters, off : Counters, exp : Nat, set : Payloads, count : Nat]
    BY <1>2 DEF Reports
  <2> QED  BY <2>1, <2>2 DEF Reports
<1> HIDE DEF s
<1>5. Honest(s) /\ Before(node[n], s)
  BY <1>1, <1>2, <1>4, SameCounters, BeforeTrans
<1>6. /\ node' \in [Nodes -> Reports]
      /\ \A m \in Nodes : Honest(node'[m]) /\ Before(node[m], node'[m])
  BY <1>3, <1>4, <1>5, NodeMoves
<1>7. owed' \in [Nodes -> BOOLEAN]
  BY DEF NodeRenew, TypeOK
<1>8. TypeOK'
  BY <1>6, <1>7 DEF NodeRenew, Counted, history, TypeOK
<1> QED  BY <1>6, <1>8, Advance DEF NodeRenew, history

LEMMA CatchUpKeeps ==
  ASSUME TypeOK, TrafficInv, NEW n \in Nodes, CatchUp(n)
  PROVE  TypeOK' /\ TrafficInv'
<1> DEFINE s == [node[n] EXCEPT !.exp = node[n].set[1]]
<1>1. node[n] \in Reports /\ Honest(node[n])
  BY DEF TypeOK, TrafficInv, Readings, Bounded
<1>2. node' = [node EXCEPT ![n] = s]
  BY DEF CatchUp
<1>3. s \in Reports /\ s.off = node[n].off /\ s.total = node[n].total
  BY <1>1 DEF Reports, Payloads
<1>4. /\ node' \in [Nodes -> Reports]
      /\ \A m \in Nodes : Honest(node'[m]) /\ Before(node[m], node'[m])
  BY <1>1, <1>2, <1>3, SameCounters, NodeMoves
<1>5. TypeOK'
  BY <1>4 DEF CatchUp, history, TypeOK
<1> QED  BY <1>4, <1>5, Advance DEF CatchUp, history

\* The panel's deadline reaches a node.
LEMMA DeliverMoves ==
  ASSUME TypeOK, TrafficInv, NEW n \in Nodes, NEW p \in Payloads, Deliver(n, p)
  PROVE  /\ node' \in [Nodes -> Reports] /\ owed' \in [Nodes -> BOOLEAN]
         /\ \A m \in Nodes : Honest(node'[m]) /\ Before(node[m], node'[m])
<1> DEFINE s == [node[n] EXCEPT !.set = p]
<1>1. node[n] \in Reports /\ Honest(node[n])
  BY DEF TypeOK, TrafficInv, Readings, Bounded
<1>2. node' = [node EXCEPT ![n] = s]
  BY DEF Deliver
<1>3. s \in Reports /\ s.off = node[n].off /\ s.total = node[n].total
  BY <1>1 DEF Reports
<1>4. owed' \in [Nodes -> BOOLEAN]
  BY DEF Deliver, TypeOK
<1> QED  BY <1>1, <1>2, <1>3, <1>4, SameCounters, NodeMoves

LEMMA SetExpiryKeeps ==
  ASSUME TypeOK, TrafficInv, NEW e \in 1..MaxExpiry, SetExpiry(e)
  PROVE  TypeOK' /\ TrafficInv'
<1>1. e \in Nat
  BY TrafficAssumption
<1>2. row \in Rows /\ row' \in Rows /\ row' # NoRow
  BY <1>1, NoneAssumption DEF SetExpiry, TypeOK, Rows
<1>3. events' \in Nat /\ <<e, events'>> \in Payloads
  BY <1>1 DEF SetExpiry, TypeOK, Counted, Payloads
<1>4. central' \in [Nodes -> Payloads]
  BY <1>3 DEF SetExpiry, TypeOK
<1>5. dirty' \in [Nodes -> BOOLEAN]
  BY DEF SetExpiry, TypeOK
<1>6. pushing' \in [Nodes -> Pushes]
  <2>1. PICK online \in SUBSET {k \in Nodes : adopted[k]} :
          pushing' = [k \in Nodes |-> IF k \in online THEN <<central[k], central'[k]>> ELSE <<>>]
    BY DEF SetExpiry
  <2>2. ASSUME NEW k \in Nodes PROVE <<central[k], central'[k]>> \in Payloads \X Payloads
    BY <1>4 DEF TypeOK
  <2>3. <<>> \in Pushes /\ Payloads \X Payloads \subseteq Pushes
    BY DEF Pushes
  <2> HIDE DEF Pushes
  <2> QED  BY <2>1, <2>2, <2>3
<1>7. TypeOK'
  BY <1>2, <1>3, <1>5, <1>6, <1>4 DEF SetExpiry, history, TypeOK
<1> QED  BY <1>7, NodeStays, Advance DEF SetExpiry, history

LEMMA OtherEditKeeps ==
  ASSUME TypeOK, TrafficInv, NEW n \in Nodes, OtherEdit(n)
  PROVE  TypeOK' /\ TrafficInv'
<1>1. events' \in Nat /\ dirty' \in [Nodes -> BOOLEAN]
  BY DEF OtherEdit, TypeOK, Counted
<1>2. central[n] \in Payloads /\ <<central[n][1], events'>> \in Payloads
  BY <1>1 DEF TypeOK, Payloads
<1>3. central' \in [Nodes -> Payloads]
  BY <1>2 DEF OtherEdit, TypeOK
<1>4. TypeOK'
  BY <1>1, <1>3 DEF OtherEdit, history, TypeOK
<1> QED  BY <1>4, NodeStays, Advance DEF OtherEdit, history

LEMMA PushEditKeeps ==
  ASSUME TypeOK, TrafficInv, NEW n \in Nodes, PushEdit(n)
  PROVE  TypeOK' /\ TrafficInv'
<1>1. pushing[n] \in Payloads \X Payloads
  BY DEF PushEdit, TypeOK, Pushes
<1>2. pushing' \in [Nodes -> Pushes] /\ fp' \in [Nodes -> Payloads]
  BY <1>1 DEF PushEdit, TypeOK, Pushes
<1>3. /\ node' \in [Nodes -> Reports] /\ owed' \in [Nodes -> BOOLEAN]
      /\ \A m \in Nodes : Honest(node'[m]) /\ Before(node[m], node'[m])
  <2>1. CASE Deliver(n, pushing[n][2])
    BY <1>1, <2>1, DeliverMoves
  <2>2. CASE UNCHANGED <<node, owed, fp>>
    BY <2>2, NodeStays DEF TypeOK
  <2> QED  BY <2>1, <2>2 DEF PushEdit
<1>4. TypeOK'
  BY <1>2, <1>3 DEF PushEdit, TypeOK
<1> QED  BY <1>3, <1>4, Advance DEF PushEdit

LEMMA WipedType == TypeOK /\ row # NoRow => Wiped \in Rows /\ Wiped # NoRow
BY NoneAssumption DEF TypeOK, Wiped, Rows

LEMMA BulkResetKeeps ==
  ASSUME TypeOK, TrafficInv, BulkReset
  PROVE  TypeOK' /\ TrafficInv'
<1>1. row' \in Rows /\ row' # NoRow
  BY WipedType DEF BulkReset
<1>2. TypeOK'
  BY <1>1 DEF BulkReset, Counted, history, TypeOK
<1> QED  BY <1>2, NodeStays, Advance DEF BulkReset, history

LEMMA ResetClientTrafficKeeps ==
  ASSUME TypeOK, TrafficInv, NEW n \in Nodes, ResetClientTraffic(n)
  PROVE  TypeOK' /\ TrafficInv'
<1>1. row' \in Rows /\ row' # NoRow
  BY WipedType DEF ResetClientTraffic
<1>2. dirty' \in [Nodes -> BOOLEAN] /\ resetting' \subseteq Nodes
  BY DEF ResetClientTraffic, TypeOK
<1>3. TypeOK'
  BY <1>1, <1>2 DEF ResetClientTraffic, Counted, history, TypeOK
<1> QED  BY <1>3, NodeStays, Advance DEF ResetClientTraffic, history

LEMMA PassResetKeeps ==
  ASSUME TypeOK, TrafficInv, NEW n \in Nodes, PassReset(n)
  PROVE  TypeOK' /\ TrafficInv'
<1>1. node[n] \in Reports /\ Honest(node[n])
  BY DEF TypeOK, TrafficInv, Readings, Bounded
<1>2. /\ node' \in [Nodes -> Reports]
      /\ \A m \in Nodes : Honest(node'[m]) /\ Before(node[m], node'[m])
  <2>1. CASE node' = node
    BY <2>1, NodeStays DEF TypeOK
  <2>2. CASE node' = [node EXCEPT ![n] = Zeroed(node[n])]
    BY <1>1, <2>2, ZeroedIs, NodeMoves
  <2> QED  BY <2>1, <2>2 DEF PassReset
<1>3. /\ resetting' \subseteq Nodes
      /\ UNCHANGED <<row, base, central, fp, adopted, dirty, pushing, tick, events,
                     seen, twice, loose, owed>>
  BY DEF PassReset, history, TypeOK
<1>4. TypeOK'
  BY <1>2, <1>3 DEF TypeOK
<1> QED  BY <1>2, <1>3, <1>4, Advance

LEMMA SnapshotIs ==
  ASSUME TypeOK, NEW n \in Nodes, NEW p \in BOOLEAN, Snapshot(n, p), node' = node
  PROVE  /\ tick' \in [Nodes -> Ticks]
         /\ \A m \in Nodes : tick'[m] = tick[m] \/ tick'[m].snap = node'[m]
<1>1. node[n] \in Reports /\ owed[n] \in BOOLEAN /\ tick \in [Nodes -> Ticks]
  BY DEF TypeOK
<1>2. Merging(p, node[n], owed[n]) \in Ticks /\ Merging(p, node[n], owed[n]).snap = node[n]
  BY <1>1 DEF Merging, Ticks
<1> QED  BY <1>1, <1>2 DEF Snapshot

LEMMA BeginKeeps ==
  ASSUME TypeOK, TrafficInv, NEW n \in Nodes, Begin(n)
  PROVE  TypeOK' /\ TrafficInv'
<1>1. /\ tick' \in [Nodes -> Ticks]
      /\ \A m \in Nodes : tick'[m] = tick[m] \/ tick'[m].snap = node'[m]
  BY SnapshotIs DEF Begin
<1>2. TypeOK'
  BY <1>1 DEF Begin, history, TypeOK
<1> QED  BY <1>1, <1>2, NodeStays, Advance DEF Begin, history

LEMMA FetchKeeps ==
  ASSUME TypeOK, TrafficInv, NEW n \in Nodes, Fetch(n)
  PROVE  TypeOK' /\ TrafficInv'
<1>1. tick[n].pushed \in BOOLEAN
  BY DEF Fetch, TypeOK, Ticks, Idle, Pulling
<1>2. /\ tick' \in [Nodes -> Ticks]
      /\ \A m \in Nodes : tick'[m] = tick[m] \/ tick'[m].snap = node'[m]
  BY <1>1, SnapshotIs DEF Fetch
<1>3. TypeOK'
  BY <1>2 DEF Fetch, history, TypeOK
<1> QED  BY <1>2, <1>3, NodeStays, Advance DEF Fetch, history

LEMMA FetchFailsKeeps ==
  ASSUME TypeOK, TrafficInv, NEW n \in Nodes, FetchFails(n)
  PROVE  TypeOK' /\ TrafficInv'
<1>1. /\ tick' \in [Nodes -> Ticks]
      /\ \A m \in Nodes : tick'[m].pc = "merge" => tick'[m] = tick[m]
  BY DEF FetchFails, TypeOK, Ticks, Idle
<1>2. TypeOK'
  BY <1>1 DEF FetchFails, history, TypeOK
<1> QED  BY <1>1, <1>2, NodeStays, Advance DEF FetchFails, history

LEMMA ReconcileKeeps ==
  ASSUME TypeOK, TrafficInv, NEW n \in Nodes, Reconcile(n)
  PROVE  TypeOK' /\ TrafficInv'
<1>1. PICK ok \in BOOLEAN :
        /\ tick' = [tick EXCEPT ![n] = Pulling(ok)] /\ dirty' = [dirty EXCEPT ![n] = ~ok]
        /\ \/ Deliver(n, central[n]) /\ fp' = [fp EXCEPT ![n] = central[n]]
           \/ UNCHANGED <<node, owed, fp>>
  BY DEF Reconcile
<1>2. /\ tick' \in [Nodes -> Ticks]
      /\ \A m \in Nodes : tick'[m].pc = "merge" => tick'[m] = tick[m]
  BY <1>1 DEF TypeOK, Ticks, Pulling
<1>3. central[n] \in Payloads /\ fp' \in [Nodes -> Payloads] /\ dirty' \in [Nodes -> BOOLEAN]
  BY <1>1 DEF TypeOK
<1>4. /\ node' \in [Nodes -> Reports] /\ owed' \in [Nodes -> BOOLEAN]
      /\ \A m \in Nodes : Honest(node'[m]) /\ Before(node[m], node'[m])
  <2>1. CASE Deliver(n, central[n])
    BY <1>3, <2>1, DeliverMoves
  <2>2. CASE UNCHANGED <<node, owed, fp>>
    BY <2>2, NodeStays DEF TypeOK
  <2> QED  BY <1>1, <2>1, <2>2
<1>5. TypeOK'
  BY <1>2, <1>3, <1>4 DEF Reconcile, TypeOK
<1> QED  BY <1>2, <1>4, <1>5, Advance DEF Reconcile

\* A merge adds units of its own node only.
LEMMA OthersBounded ==
  ASSUME NEW n, NEW k, k # n, NEW t, NEW b, NEW us, NEW ls, Bounded(k, t, b, seen, loose),
         \A x \in us : x \in seen \/ x[1] = n, loose \subseteq ls
  PROVE  Bounded(k, t, b, us, ls)
BY DEF Bounded, Known, Covered

LEMMA StartSound ==
  ASSUME TypeOK, TrafficInv, NEW n \in Nodes, tick[n].pc = "merge"
  PROVE  Sound(n, tick[n].snap, Start(n))
<1>1. /\ Start(n).row = row /\ Start(n).base = base[n] /\ Start(n).seen = seen
      /\ Start(n).twice = twice /\ Start(n).loose = loose
  BY DEF Start
<1>2. Start(n) \in Sums
  BY DEF Start, Sums, TypeOK, TrafficInv, Histories
<1>3. Bounded(n, tick[n].snap, base[n], seen, loose)
  BY DEF TrafficInv, Snapshots
<1>4. row # NoRow \/ base[n] # NoBase => row # NoRow
  BY DEF TypeOK
<1>5. twice \subseteq loose
  BY DEF TrafficInv, CountedOnce
<1> QED  BY <1>1, <1>2, <1>3, <1>4, <1>5 DEF Sound

LEMMA SetRemoteTrafficKeeps ==
  ASSUME TypeOK, TrafficInv, NEW n \in Nodes, SetRemoteTraffic(n)
  PROVE  TypeOK' /\ TrafficInv'
<1>1. /\ tick[n].pc = "merge" /\ tick' = [tick EXCEPT ![n] = Idle]
      /\ UNCHANGED <<node, pushing, resetting, events>>
  BY DEF SetRemoteTraffic
<1>2. /\ tick' \in [Nodes -> Ticks] /\ tick'[n].pc # "merge"
      /\ \A k \in Nodes : tick'[k].pc = "merge" => k # n /\ tick'[k] = tick[k]
  BY <1>1 DEF TypeOK, Ticks, Idle
<1>3. CASE ~adopted[n] /\ dirty[n]
  <2>1. UNCHANGED <<row, base, central, fp, adopted, dirty, history>>
    BY <1>3 DEF SetRemoteTraffic
  <2>2. TypeOK'
    BY <1>1, <1>2, <2>1 DEF TypeOK, history
  <2> QED  BY <1>1, <1>2, <2>1, <2>2, NodeStays, Advance DEF history
<1>4. CASE ~(~adopted[n] /\ dirty[n])
  <2> DEFINE s == tick[n].snap
             new == ~adopted[n]
             frozen == dirty[n] \/ tick[n].pushed
             m == Merged(n, s, frozen, new)
             lift == ~new /\ m.row # NoRow /\ m.row.home = n /\ m.row.exp # s.set[1]
  <2>1. s \in Reports /\ new \in BOOLEAN /\ frozen \in BOOLEAN
    BY <1>1, SnapType DEF TypeOK
  <2>2. Sound(n, s, m)
    BY <1>1, <2>1, StartSound, MergedSound
  <2>3. /\ row' = m.row /\ base' = [base EXCEPT ![n] = m.base]
        /\ seen' = m.seen /\ twice' = m.twice /\ loose' = m.loose
        /\ adopted' = [adopted EXCEPT ![n] = TRUE]
        /\ central' = IF dirty[n] THEN central
                      ELSE [central EXCEPT ![n] = IF lift THEN <<m.row.exp, s.set[2]>>
                                                  ELSE s.set]
        /\ fp' \in {fp, [fp EXCEPT ![n] = s.set]}
        /\ dirty' = [dirty EXCEPT ![n] = dirty[n] \/ lift]
        /\ \E taken \in BOOLEAN : owed' = [owed EXCEPT ![n] = owed[n] /\ ~taken]
    BY <1>4 DEF SetRemoteTraffic
  <2> HIDE DEF m
  <2>4. /\ m.row \in Rows \cup {NoRow} /\ m.base \in Counters \cup {NoBase}
        /\ {m.seen, m.twice, m.loose} \subseteq SUBSET Units /\ m.twice \subseteq m.loose
        /\ (row # NoRow \/ m.base # NoBase => m.row # NoRow)
        /\ Bounded(n, s, m.base, m.seen, m.loose)
        /\ loose \subseteq m.loose /\ \A x \in m.seen : x \in seen \/ x[1] = n
    BY <2>2 DEF Sound, Sums
  <2>5. lift \in BOOLEAN /\ (lift => <<m.row.exp, s.set[2]>> \in Payloads) /\ s.set \in Payloads
    BY <2>1, <2>4 DEF Rows, Reports, Payloads
  <2> HIDE DEF s, new, frozen, lift
  <2>6. TypeOK'
    <3>1. row' \in Rows \cup {NoRow} /\ base' \in [Nodes -> Counters \cup {NoBase}]
      BY <2>3, <2>4 DEF TypeOK
    <3>2. central' \in [Nodes -> Payloads] /\ fp' \in [Nodes -> Payloads]
      BY <2>3, <2>5 DEF TypeOK
    <3>3. /\ adopted' \in [Nodes -> BOOLEAN] /\ dirty' \in [Nodes -> BOOLEAN]
          /\ owed' \in [Nodes -> BOOLEAN]
      BY <2>3, <2>5 DEF TypeOK
    <3>4. ASSUME NEW k \in Nodes, base'[k] # NoBase PROVE row' # NoRow /\ adopted'[k]
      BY <2>3, <2>4, <3>4 DEF TypeOK
    <3> QED  BY <1>1, <1>2, <3>1, <3>2, <3>3, <3>4 DEF TypeOK
  <2>7. \A k \in Nodes : /\ node[k] \in Reports /\ Honest(node[k])
                          /\ Bounded(k, node[k], base[k], seen, loose)
    BY DEF TypeOK, TrafficInv, Readings, Bounded
  <2>8. \A k \in Nodes : base'[k] = IF k = n THEN m.base ELSE base[k]
    BY <2>3 DEF TypeOK
  <2>9. Readings'
    <3>1. Before(s, node[n])
      BY <1>1 DEF s, TrafficInv, Snapshots
    <3>2. Bounded(n, node[n], m.base, m.seen, m.loose)
      BY <2>1, <2>4, <2>7, <3>1, BoundedLater
    <3>3. ASSUME NEW k \in Nodes, k # n PROVE Bounded(k, node[k], base[k], m.seen, m.loose)
      BY <2>4, <2>7, <3>3, OthersBounded
    <3> QED  BY <1>1, <2>3, <2>8, <3>2, <3>3 DEF Readings
  <2>10. Snapshots'
    <3>1. ASSUME NEW k \in Nodes, tick'[k].pc = "merge"
          PROVE  /\ Before(tick[k].snap, node[k])
                 /\ Bounded(k, tick[k].snap, base[k], m.seen, m.loose)
      BY <1>2, <2>4, <3>1, OthersBounded DEF TrafficInv, Snapshots
    <3> QED  BY <1>1, <1>2, <2>3, <2>8, <3>1 DEF Snapshots
  <2>11. Histories' /\ CountedOnce'
    BY <2>3, <2>4 DEF Histories, CountedOnce
  <2> QED  BY <2>6, <2>9, <2>10, <2>11 DEF TrafficInv
<1> QED  BY <1>3, <1>4
-----------------------------------------------------------------------------
(* Deadlines.                                                              *)

\* A step that leaves deadlines, owners and what a node owes as they are.
Undisturbed ==
  /\ row' # NoRow <=> row # NoRow
  /\ row # NoRow => row'.home = row.home /\ row'.exp = row.exp
  /\ UNCHANGED <<fp, adopted, owed>> /\ events <= events'
  /\ \A n \in Nodes :
       /\ pushing'[n] = pushing[n] \/ pushing'[n] = <<>>
       /\ node'[n].set = node[n].set /\ node'[n].count = node[n].count
       /\ node'[n].exp = node[n].exp \/ node'[n].exp = node[n].set[1]
       /\ dirty[n] => dirty'[n]
       /\ \/ central'[n] = central[n]
          \/ central'[n][1] = central[n][1] /\ central'[n][2] = events' /\ events' > events
       /\ tick'[n].pc = "merge" =>
            \/ tick'[n] = tick[n]
            \/ tick'[n].snap = node[n] /\ tick'[n].renewed = owed[n]

LEMMA NodeTypes ==
  ASSUME TypeOK, NEW n \in Nodes
  PROVE  /\ node[n] \in Reports /\ node[n].count \in Nat /\ node[n].exp \in Nat
         /\ \A q \in {node[n].set, fp[n], central[n]} :
              q \in Payloads /\ q[1] \in Nat /\ q[2] \in Nat
         /\ events \in Nat /\ (row # NoRow => row \in Rows /\ row.exp \in Nat)
         /\ pushing[n] # <<>> => /\ pushing[n][2] \in Payloads
                                 /\ pushing[n][2][1] \in Nat /\ pushing[n][2][2] \in Nat
         /\ Merges(n) => /\ tick[n].snap \in Reports /\ tick[n].snap.set \in Payloads
                          /\ tick[n].snap.set[1] \in Nat /\ tick[n].snap.set[2] \in Nat
                          /\ tick[n].snap.exp \in Nat /\ tick[n].snap.count \in Nat
<1>1. node[n] \in Reports /\ fp[n] \in Payloads /\ central[n] \in Payloads /\ events \in Nat
  BY DEF TypeOK
<1>2. row # NoRow => row \in Rows /\ row.exp \in Nat
  BY DEF TypeOK, Rows
<1>3. pushing[n] # <<>> => pushing[n] \in Payloads \X Payloads
  BY DEF TypeOK, Pushes
<1>4. Merges(n) => tick[n].snap \in Reports
  BY SnapType DEF Merges
<1> QED  BY <1>1, <1>2, <1>3, <1>4 DEF Reports, Payloads

LEMMA StampTypes ==
  ASSUME TypeOK, NEW n \in Nodes
  PROVE  /\ events \in Nat /\ fp[n][2] \in Nat /\ central[n][2] \in Nat /\ node[n].set[2] \in Nat
         /\ Merges(n) => tick[n].snap.set[2] \in Nat
         /\ pushing[n] # <<>> => pushing[n][2][2] \in Nat
BY NodeTypes

LEMMA UndisturbedKeeps ==
  ASSUME TypeOK, TypeOK', TermInv, Undisturbed
  PROVE  TermInv'
<1>1. \A n \in Nodes : Owner(n)' <=> Owner(n)
  BY DEF Undisturbed, Owner
<1>2. \A n \in Nodes : Owner(n) => row # NoRow /\ row'.exp = row.exp
  BY DEF Undisturbed, Owner
<1>3. \A n \in Nodes : Merges(n)' =>
        \/ Merges(n) /\ tick'[n] = tick[n]
        \/ tick'[n].snap = node[n] /\ tick'[n].renewed = owed[n]
  BY DEF Undisturbed, Merges
<1>4. /\ UNCHANGED <<fp, adopted, owed>> /\ events <= events' /\ (row' # NoRow <=> row # NoRow)
      /\ \A n \in Nodes :
           /\ pushing'[n] = pushing[n] \/ pushing'[n] = <<>>
           /\ node'[n].set = node[n].set /\ node'[n].count = node[n].count
           /\ node'[n].exp = node[n].exp \/ node'[n].exp = node[n].set[1]
           /\ dirty[n] => dirty'[n]
           /\ central'[n][1] = central[n][1]
           /\ central'[n] = central[n] \/ (central'[n][2] = events' /\ events' > events)
  BY DEF Undisturbed
<1>5. events \in Nat /\ events' \in Nat
  BY DEF TypeOK
<1>a. Adopted'
  BY <1>1, <1>2, <1>4 DEF TermInv, Adopted
<1>b. Pushing'
  BY <1>1, <1>2, <1>4 DEF TermInv, Pushing
<1>c. Unadopted'
  BY <1>3, <1>4 DEF TermInv, Unadopted
<1>d. Stamps'
  BY <1>3, <1>4, <1>5, StampTypes DEF TermInv, Stamps
<1>e. Counts'
  BY <1>3, <1>4, NodeTypes DEF TermInv, Counts
<1>f. Believed'
  <2>1. ASSUME NEW n \in Nodes, fp'[n] = central'[n] PROVE central'[n] = central[n]
    BY <1>4, <1>5, <2>1, StampTypes DEF TermInv, Stamps
  <2> QED  BY <1>1, <1>2, <1>4, <2>1 DEF TermInv, Believed
<1>g. Clean'
  BY <1>1, <1>2, <1>4 DEF TermInv, Clean
<1>h. Fresh'
  BY <1>1, <1>2, <1>3, <1>4 DEF TermInv, Fresh
<1>i. Old'
  BY <1>1, <1>2, <1>3, <1>4 DEF TermInv, Old, Clean
<1> QED  BY <1>a, <1>b, <1>c, <1>d, <1>e, <1>f, <1>g, <1>h, <1>i DEF TermInv

\* The steps that leave deadlines alone.
LEMMA QuietSteps ==
  ASSUME TypeOK, TypeOK', TermInv, NEW n \in Nodes,
         \/ \E d \in Dirs : Use(n, d)
         \/ NodeReset(n) \/ CatchUp(n) \/ OtherEdit(n)
         \/ BulkReset \/ ResetClientTraffic(n) \/ PassReset(n)
         \/ Begin(n) \/ Fetch(n) \/ FetchFails(n) \/ UNCHANGED vars
  PROVE  TermInv'
<1> SUFFICES Undisturbed
  BY UndisturbedKeeps
<1>1. /\ \A k \in Nodes : node[k] \in Reports
      /\ node \in [Nodes -> Reports] /\ tick \in [Nodes -> Ticks] /\ events \in Nat
      /\ dirty \in [Nodes -> BOOLEAN] /\ central \in [Nodes -> Payloads]
      /\ row # NoRow => row \in Rows
  BY DEF TypeOK
<1>2. row # NoRow => Wiped # NoRow /\ Wiped.home = row.home /\ Wiped.exp = row.exp
  <2>1. row # NoRow => Wiped.home = row.home /\ Wiped.exp = row.exp
    BY <1>1 DEF Wiped, Rows
  <2> QED  BY <2>1, WipedType
<1>3. \A k \in Nodes : /\ Zeroed(node[k]).set = node[k].set /\ Zeroed(node[k]).exp = node[k].exp
                        /\ Zeroed(node[k]).count = node[k].count
  BY <1>1 DEF Zeroed, Reports
<1>4. ASSUME NEW d \in Dirs, Use(n, d) PROVE Undisturbed
  BY <1>1, <1>4 DEF Use, Undisturbed, history, Reports
<1>5. CASE NodeReset(n)
  BY <1>1, <1>3, <1>5 DEF NodeReset, Counted, Undisturbed, history
<1>6. CASE CatchUp(n)
  BY <1>1, <1>6 DEF CatchUp, Undisturbed, history, Reports
<1>7. CASE OtherEdit(n)
  BY <1>1, <1>7 DEF OtherEdit, Counted, Undisturbed, history, Payloads
<1>8. CASE BulkReset
  BY <1>1, <1>2, <1>8 DEF BulkReset, Counted, Undisturbed, history
<1>9. CASE ResetClientTraffic(n)
  BY <1>1, <1>2, <1>9 DEF ResetClientTraffic, Counted, Undisturbed, history
<1>10. CASE PassReset(n)
  BY <1>1, <1>3, <1>10 DEF PassReset, Undisturbed, history
<1>11. CASE Begin(n)
  BY <1>1, <1>11 DEF Begin, Snapshot, Merging, Undisturbed, history
<1>12. CASE Fetch(n)
  BY <1>1, <1>12 DEF Fetch, Snapshot, Merging, Undisturbed, history
<1>13. CASE FetchFails(n)
  BY <1>1, <1>13 DEF FetchFails, Idle, Undisturbed, history
<1>14. CASE UNCHANGED vars
  BY <1>1, <1>14 DEF vars, history, Undisturbed
<1> QED
  BY <1>4, <1>5, <1>6, <1>7, <1>8, <1>9, <1>10, <1>11, <1>12, <1>13, <1>14

LEMMA NodeRenewTerms ==
  ASSUME TypeOK, TypeOK', TermInv, NEW n \in Nodes, NodeRenew(n)
  PROVE  TermInv'
<1>1. /\ UNCHANGED <<row, central, fp, adopted, dirty, pushing, tick>>
      /\ owed' = [owed EXCEPT ![n] = TRUE]
      /\ events \in Nat /\ events' \in Nat /\ events <= events'
  BY DEF NodeRenew, Counted, TypeOK
<1>2. /\ node'[n].set[2] = node[n].set[2] /\ node'[n].exp = node'[n].set[1]
      /\ node'[n].count = node[n].count + 1
      /\ \A k \in Nodes : k # n => node'[k] = node[k]
  <2> DEFINE z == Zeroed(node[n])
  <2>0. node[n] \in Reports
    BY DEF TypeOK
  <2>1. z \in Reports /\ z.set = node[n].set /\ z.count = node[n].count
    BY <2>0 DEF Zeroed, Reports
  <2>2. node' = [node EXCEPT ![n] =
                   [z EXCEPT !.exp = @ + 1, !.set = <<z.exp + 1, z.set[2]>>, !.count = @ + 1]]
    BY Zenon DEF NodeRenew
  <2> HIDE DEF z
  <2> QED  BY <2>1, <2>2 DEF TypeOK, Reports
<1>3. /\ owed'[n] /\ \A k \in Nodes : k # n => owed'[k] = owed[k]
  BY <1>1 DEF TypeOK
<1>4. \A k \in Nodes : (Owner(k)' <=> Owner(k)) /\ (Merges(k)' <=> Merges(k))
  BY <1>1 DEF Owner, Merges
<1>a. Adopted' /\ Pushing' /\ Old'
  BY <1>1, <1>4 DEF TermInv, Adopted, Pushing, Old
<1>b. Unadopted'
  BY <1>1, <1>2, <1>4 DEF TermInv, Unadopted
<1>c. Stamps'
  <2>1. \A k \in Nodes : node'[k].set[2] = node[k].set[2]
    BY <1>2
  <2> QED  BY <1>1, <1>4, <2>1, StampTypes DEF TermInv, Stamps
<1>d. Counts'
  <2>1. ASSUME NEW k \in Nodes, Merges(k) PROVE tick[k].snap.count <= node'[k].count
    <3>1. tick[k].snap.count <= node[k].count /\ node[k].count \in Nat /\ tick[k].snap.count \in Nat
      BY <2>1, NodeTypes DEF TermInv, Counts
    <3> QED  BY <1>2, <3>1
  <2> QED  BY <1>1, <1>4, <2>1 DEF Counts
<1>e. Believed' /\ Clean'
  BY <1>1, <1>2, <1>3, <1>4 DEF TermInv, Believed, Clean
<1>f. Fresh'
  <2>1. Merges(n) => tick[n].snap.count # node'[n].count
    BY <1>2, NodeTypes DEF TermInv, Counts
  <2> QED  BY <1>1, <1>2, <1>3, <1>4, <2>1 DEF TermInv, Fresh
<1> QED  BY <1>a, <1>b, <1>c, <1>d, <1>e, <1>f DEF TermInv

LEMMA SetExpiryTerms ==
  ASSUME TypeOK, TypeOK', TermInv, NEW e \in 1..MaxExpiry, SetExpiry(e)
  PROVE  TermInv'
<1>1. /\ row # NoRow /\ row' # NoRow /\ row'.exp = e /\ row'.home = row.home
      /\ UNCHANGED <<node, fp, adopted, tick, owed>>
      /\ events \in Nat /\ events' = events + 1 /\ e \in Nat
  <2>1. row # NoRow /\ row \in Rows /\ row' = [row EXCEPT !.exp = e] /\ e \in Nat
    BY TrafficAssumption DEF SetExpiry, TypeOK
  <2>2. row' \in Rows /\ row'.exp = e /\ row'.home = row.home
    BY <2>1 DEF Rows
  <2> QED  BY <2>1, <2>2, NoneAssumption DEF SetExpiry, Counted, TypeOK, history
<1>2. /\ \A k \in Nodes : central'[k] = IF adopted[k] THEN <<e, events'>> ELSE central[k]
      /\ \A k \in Nodes : adopted[k] => dirty'[k]
      /\ \A k \in Nodes : dirty[k] => dirty'[k]
  BY DEF SetExpiry
<1>3. \A k \in Nodes : pushing'[k] # <<>> => adopted[k] /\ pushing'[k][2] = central'[k]
  <2>1. PICK online \in SUBSET {k \in Nodes : adopted[k]} :
          pushing' = [k \in Nodes |-> IF k \in online THEN <<central[k], central'[k]>> ELSE <<>>]
    BY DEF SetExpiry
  <2> QED  BY <2>1
<1>4. \A k \in Nodes : (Owner(k)' <=> Owner(k)) /\ (Merges(k)' <=> Merges(k))
  BY <1>1 DEF Owner, Merges
<1>5. \A k \in Nodes : Owner(k) => adopted[k] /\ central'[k] = <<e, events'>> /\ dirty'[k]
  BY <1>2 DEF TermInv, Adopted
<1>a. Adopted'
  BY <1>1, <1>4, <1>5 DEF Adopted
<1>b. Pushing'
  BY <1>1, <1>2, <1>3, <1>4 DEF Pushing
<1>c. Unadopted' /\ Counts'
  BY <1>1, <1>4 DEF TermInv, Unadopted, Counts
<1>d. Stamps'
  BY <1>1, <1>2, <1>3, <1>4, StampTypes DEF TermInv, Stamps
<1>e. Believed'
  <2>1. ASSUME NEW k \in Nodes, Owner(k) PROVE fp[k] # central'[k]
    BY <1>1, <1>5, <2>1, StampTypes DEF TermInv, Stamps
  <2> QED  BY <1>1, <1>4, <2>1 DEF Believed
<1>f. Clean' /\ Fresh' /\ Old'
  BY <1>1, <1>4, <1>5 DEF Clean, Fresh, Old
<1> QED  BY <1>a, <1>b, <1>c, <1>d, <1>e, <1>f DEF TermInv

\* Node n has been given settings p.
LEMMA DeliverIs ==
  ASSUME TypeOK, NEW n \in Nodes, NEW p, Deliver(n, p)
  PROVE  /\ node'[n].set = p /\ node'[n].exp = node[n].exp /\ node'[n].count = node[n].count
         /\ ~owed'[n]
         /\ \A k \in Nodes : k # n => node'[k] = node[k] /\ owed'[k] = owed[k]
BY DEF Deliver, TypeOK, Reports

LEMMA PushEditTerms ==
  ASSUME TypeOK, TypeOK', TermInv, NEW n \in Nodes, PushEdit(n)
  PROVE  TermInv'
<1>1. /\ pushing[n] # <<>> /\ pushing'[n] = <<>>
      /\ \A k \in Nodes : k # n => pushing'[k] = pushing[k]
      /\ UNCHANGED <<row, central, adopted, dirty, tick, events>>
  BY DEF PushEdit, TypeOK
<1>2. CASE UNCHANGED <<node, owed, fp>>
  <2>1. events <= events'
    BY <1>1 DEF TypeOK
  <2>2. Undisturbed
    BY <1>1, <1>2, <2>1 DEF Undisturbed
  <2> QED  BY <2>2, UndisturbedKeeps
<1>3. CASE Deliver(n, pushing[n][2]) /\ fp' = [fp EXCEPT ![n] = IF @ = pushing[n][1]
                                                               THEN pushing[n][2] ELSE @]
  <2> DEFINE p == pushing[n][2]
  <2>1. /\ node'[n].set = p /\ node'[n].exp = node[n].exp /\ node'[n].count = node[n].count
        /\ ~owed'[n]
        /\ \A k \in Nodes : k # n => node'[k] = node[k] /\ owed'[k] = owed[k]
    BY <1>3, DeliverIs
  <2>2. /\ fp'[n] = fp[n] \/ fp'[n] = p
        /\ \A k \in Nodes : k # n => fp'[k] = fp[k]
    BY <1>3 DEF TypeOK
  <2>3. /\ row # NoRow /\ adopted[n] /\ (Owner(n) => p[1] <= row.exp) /\ p[2] <= events
    BY <1>1 DEF TermInv, Pushing, Stamps
  <2> HIDE DEF p
  <2>4. \A k \in Nodes : (Owner(k)' <=> Owner(k)) /\ (Merges(k)' <=> Merges(k))
    BY <1>1 DEF Owner, Merges
  <2>a. Adopted' /\ Pushing' /\ Old'
    BY <1>1, <2>1, <2>4 DEF TermInv, Adopted, Pushing, Old
  <2>b. Unadopted' /\ Counts'
    BY <1>1, <2>1, <2>3, <2>4 DEF TermInv, Unadopted, Counts
  <2>c. Stamps'
    BY <1>1, <2>1, <2>2, <2>3, <2>4 DEF TermInv, Stamps
  <2>d. Believed' /\ Clean'
    BY <1>1, <2>1, <2>2, <2>3, <2>4 DEF TermInv, Believed, Clean
  <2>e. Fresh'
    BY <1>1, <2>1, <2>3, <2>4 DEF TermInv, Fresh
  <2> QED  BY <2>a, <2>b, <2>c, <2>d, <2>e DEF TermInv
<1> QED  BY <1>2, <1>3 DEF PushEdit

LEMMA ReconcileTerms ==
  ASSUME TypeOK, TypeOK', TermInv, NEW n \in Nodes, Reconcile(n)
  PROVE  TermInv'
<1>1. PICK ok \in BOOLEAN :
        /\ tick' = [tick EXCEPT ![n] = Pulling(ok)] /\ dirty' = [dirty EXCEPT ![n] = ~ok]
        /\ \/ adopted[n] /\ Deliver(n, central[n]) /\ fp' = [fp EXCEPT ![n] = central[n]]
           \/ /\ ~adopted[n] \/ fp[n] = central[n] \/ ~ok
              /\ UNCHANGED <<node, owed, fp>>
  BY DEF Reconcile
<1>2. UNCHANGED <<row, central, adopted, pushing, events>>
  BY DEF Reconcile
<1>3. /\ dirty'[n] = ~ok /\ ~Merges(n)' /\ (\A k \in Nodes : Owner(k)' <=> Owner(k))
      /\ \A k \in Nodes : k # n => dirty'[k] = dirty[k] /\ tick'[k] = tick[k]
                                     /\ (Merges(k)' <=> Merges(k))
  BY <1>1, <1>2 DEF TypeOK, Pulling, Owner, Merges
<1>a. Adopted' /\ Pushing' /\ Old'
  BY <1>2, <1>3 DEF TermInv, Adopted, Pushing, Old
<1>4. CASE adopted[n] /\ Deliver(n, central[n]) /\ fp' = [fp EXCEPT ![n] = central[n]]
  <2>1. /\ node'[n].set = central[n] /\ node'[n].exp = node[n].exp
        /\ node'[n].count = node[n].count /\ ~owed'[n]
        /\ \A k \in Nodes : k # n => node'[k] = node[k] /\ owed'[k] = owed[k]
    BY <1>4, DeliverIs
  <2>2. fp'[n] = central[n] /\ \A k \in Nodes : k # n => fp'[k] = fp[k]
    BY <1>4 DEF TypeOK
  <2>3. Owner(n) => central[n][1] <= row.exp
    BY NodeTypes DEF TermInv, Adopted, Owner
  <2>b. Unadopted' /\ Counts'
    BY <1>2, <1>3, <1>4, <2>1 DEF TermInv, Unadopted, Counts
  <2>c. Stamps'
    BY <1>2, <1>3, <2>1, <2>2 DEF TermInv, Stamps
  <2>d. Believed' /\ Clean'
    BY <1>2, <1>3, <2>1, <2>2, <2>3 DEF TermInv, Believed, Clean
  <2>e. Fresh'
    BY <1>2, <1>3, <2>1 DEF TermInv, Fresh
  <2> QED  BY <1>a, <2>b, <2>c, <2>d, <2>e DEF TermInv
<1>5. CASE /\ ~adopted[n] \/ fp[n] = central[n] \/ ~ok
           /\ UNCHANGED <<node, owed, fp>>
  <2>b. Unadopted' /\ Counts' /\ Stamps' /\ Believed' /\ Fresh'
    BY <1>2, <1>3, <1>5 DEF TermInv, Unadopted, Counts, Stamps, Believed, Fresh
  <2>c. Clean'
    <3>1. Owner(n) /\ ~dirty'[n] => fp[n] = central[n]
      BY <1>3, <1>5 DEF TermInv, Adopted
    <3> QED  BY <1>2, <1>3, <1>5, <3>1 DEF TermInv, Clean, Believed
  <2> QED  BY <1>a, <2>b, <2>c DEF TermInv
<1> QED  BY <1>1, <1>4, <1>5

LEMMA SetRemoteTrafficTerms ==
  ASSUME TypeOK, TypeOK', TrafficInv, TermInv, NEW n \in Nodes, SetRemoteTraffic(n)
  PROVE  TermInv'
<1>1. /\ Merges(n) /\ ~Merges(n)' /\ UNCHANGED <<node, pushing, events>>
      /\ \A k \in Nodes : k # n => tick'[k] = tick[k] /\ (Merges(k)' <=> Merges(k))
  BY DEF SetRemoteTraffic, Merges, Idle, TypeOK
<1>2. CASE ~adopted[n] /\ dirty[n]
  <2>1. UNCHANGED <<row, central, fp, adopted, dirty, owed>>
    BY <1>2 DEF SetRemoteTraffic, history
  <2>2. \A k \in Nodes : tick'[k].pc = "merge" => tick'[k] = tick[k]
    BY <1>1 DEF Merges
  <2>3. events <= events'
    BY <1>1 DEF TypeOK
  <2> HIDE <1>2
  <2>4. Undisturbed
    BY <1>1, <2>1, <2>2, <2>3 DEF Undisturbed
  <2> QED  BY <2>4, UndisturbedKeeps
<1>3. CASE ~(~adopted[n] /\ dirty[n])
  <2> DEFINE s == tick[n].snap
             new == ~adopted[n]
             frozen == dirty[n] \/ tick[n].pushed
             m == Merged(n, s, frozen, new)
             r == m.row
             taken == /\ r # NoRow /\ (row = NoRow \/ r.count # row.count)
                      /\ s.count = node[n].count
             lift == ~new /\ r # NoRow /\ r.home = n /\ r.exp # s.set[1]
  <2>1. s \in Reports /\ new \in BOOLEAN /\ frozen \in BOOLEAN
    BY <1>1, SnapType DEF TypeOK, Merges
  <2>2. Term(n, s, frozen, r)
    BY <1>1, <2>1, StartSound, MergedTerm DEF Merges, TypeOK
  <2>3. /\ row' = r
        /\ adopted' = [adopted EXCEPT ![n] = TRUE]
        /\ central' = IF dirty[n] THEN central
                      ELSE [central EXCEPT ![n] = IF lift THEN <<r.exp, s.set[2]>> ELSE s.set]
        /\ fp' = IF dirty[n] \/ new \/ ~(lift \/ central[n] # s.set) THEN fp
                 ELSE [fp EXCEPT ![n] = s.set]
        /\ dirty' = [dirty EXCEPT ![n] = dirty[n] \/ lift]
        /\ owed' = [owed EXCEPT ![n] = owed[n] /\ ~taken]
    BY <1>3 DEF SetRemoteTraffic
  <2> HIDE DEF m
  <2>4. /\ central'[n] = IF dirty[n] THEN central[n]
                         ELSE IF lift THEN <<r.exp, s.set[2]>> ELSE s.set
        /\ fp'[n] = IF dirty[n] \/ new \/ ~(lift \/ central[n] # s.set) THEN fp[n] ELSE s.set
        /\ adopted'[n] /\ (dirty'[n] <=> dirty[n] \/ lift) /\ (owed'[n] <=> owed[n] /\ ~taken)
    BY <2>3 DEF TypeOK
  <2>5. \A k \in Nodes : k # n => /\ central'[k] = central[k] /\ fp'[k] = fp[k]
                                  /\ adopted'[k] = adopted[k] /\ dirty'[k] = dirty[k]
                                  /\ owed'[k] = owed[k]
    BY <2>3 DEF TypeOK
  <2>6. /\ row # NoRow => row \in Rows /\ row.exp \in Nat
        /\ s.exp \in Nat /\ s.set \in Payloads /\ s.set[1] \in Nat /\ s.set[2] \in Nat
        /\ s.set[2] <= events /\ s.count <= node[n].count
        /\ new => s.exp = s.set[1]
    <3>1. s.set[2] <= events /\ s.count <= node[n].count /\ (new => s.exp = s.set[1])
      BY <1>1 DEF TermInv, Stamps, Counts, Unadopted
    <3> QED  BY <2>1, <3>1 DEF Reports, Payloads, TypeOK, Rows
  <2> HIDE DEF s, new, frozen, r, lift, taken
  <2>7. Owner(n)' => row = NoRow \/ Owner(n)
    BY <2>2, <2>3 DEF Owner, Term
  \* Another node's row keeps its deadline.
  <2>8. \A k \in Nodes : k # n /\ Owner(k)' => Owner(k) /\ row'.exp = row.exp
    BY <2>2, <2>3 DEF Owner, Term
  <2>9. Owner(n) => /\ ~new /\ Owner(n)' /\ row.exp <= r.exp /\ r.exp \in Nat
                    /\ dirty[n] => r.exp = row.exp /\ ~taken
                    /\ central[n][1] = row.exp
    <3>1. Owner(n) => row # NoRow /\ ~new /\ central[n][1] = row.exp
      BY DEF TermInv, Adopted, Owner, new
    <3> QED  BY <2>2, <2>3, <2>6, <3>1 DEF Owner, Term, taken, frozen
  <2>10. row = NoRow /\ Owner(n)' => ~dirty[n] /\ r.exp = s.exp
    BY <2>2, <2>3 DEF Owner, Term
  \* After a clean merge that lifted nothing the row has the settings' deadline.
  <2>11. Owner(n)' /\ ~dirty[n] /\ ~lift => r.exp = s.set[1]
    BY <2>3, <2>6, <2>7, <2>9, <2>10 DEF lift, Owner
  <2>12. Owner(n)' /\ ~dirty[n] /\ ~lift /\ ~owed'[n] => node[n].set[1] <= row'.exp
    <3> SUFFICES ASSUME Owner(n)', ~dirty[n], ~lift, ~owed'[n]
                 PROVE  node[n].set[1] <= row'.exp
      OBVIOUS
    <3>1. owed[n] => s.count = node[n].count
      BY <2>4 DEF taken
    <3>2. node[n].set = s.set \/ (Owner(n) /\ node[n].set[1] <= row.exp)
      BY <1>1, <2>7, <3>1 DEF s, TermInv, Fresh
    <3>3. r.exp = s.set[1] /\ row' = r /\ node[n].set[1] \in Nat
      BY <2>3, <2>11, NodeTypes
    <3> QED  BY <2>6, <2>9, <3>2, <3>3 DEF Owner
  <2>a. Adopted'
    <3>1. Owner(n)' => central'[n][1] = row'.exp
      BY <2>3, <2>4, <2>7, <2>9, <2>10, <2>11
    <3> QED  BY <2>4, <2>5, <2>8, <3>1 DEF TermInv, Adopted
  <2>b. Pushing'
    <3>1. pushing[n] # <<>> /\ Owner(n)' => pushing[n][2][1] <= row'.exp
      <4>1. pushing[n] # <<>> /\ Owner(n)' => Owner(n) /\ pushing[n][2][1] <= row.exp
        BY <2>7 DEF TermInv, Pushing
      <4> QED  BY <2>3, <2>6, <2>9, <4>1, NodeTypes DEF Owner
    <3>2. row # NoRow => row' # NoRow
      BY <2>2, <2>3 DEF Term
    <3> QED  BY <1>1, <2>4, <2>5, <2>8, <3>1, <3>2 DEF TermInv, Pushing
  <2>c. Unadopted' /\ Counts'
    BY <1>1, <2>4, <2>5 DEF TermInv, Unadopted, Counts
  <2>d. Stamps'
    <3>1. fp'[n][2] <= events /\ central'[n][2] <= events
      BY <2>4, <2>6 DEF TermInv, Stamps
    <3> QED  BY <1>1, <2>5, <3>1 DEF TermInv, Stamps
  <2>e. Believed'
    <3>1. Owner(n)' /\ ~owed'[n] /\ fp'[n] = central'[n] => node[n].set[1] <= row'.exp
      <4>1. CASE dirty[n]
        BY <2>3, <2>4, <2>7, <2>9, <2>10, <4>1 DEF TermInv, Believed
      <4>2. CASE ~dirty[n] /\ lift
        BY <2>4, <4>2 DEF lift
      <4>3. CASE ~dirty[n] /\ ~lift
        BY <2>12, <4>3
      <4> QED  BY <4>1, <4>2, <4>3
    <3> QED  BY <1>1, <2>5, <2>8, <3>1 DEF TermInv, Believed
  <2>f. Clean'
    <3>1. Owner(n)' /\ ~owed'[n] /\ ~dirty'[n] => node[n].set[1] <= row'.exp
      BY <2>4, <2>12
    <3> QED  BY <1>1, <2>5, <2>8, <3>1 DEF TermInv, Clean
  <2>g. Fresh'
    <3>1. \A k \in Nodes : k # n /\ Owner(k) => Owner(k)' /\ row'.exp = row.exp
      BY <2>2, <2>3 DEF Owner, Term
    <3>2. \A k \in Nodes : k # n /\ (row' = NoRow \/ Owner(k)') => row = NoRow \/ Owner(k)
      BY <2>2, <2>3, <2>8 DEF Term
    <3> QED  BY <1>1, <2>5, <3>1, <3>2 DEF TermInv, Fresh
  <2>h. Old'
    BY <1>1, <2>5, <2>8 DEF TermInv, Old
  <2> QED  BY <2>a, <2>b, <2>c, <2>d, <2>e, <2>f, <2>g, <2>h DEF TermInv
<1> QED  BY <1>2, <1>3

\* A merge that moves the row's deadline is of a snapshot that owed a renewal.
LEMMA MergeIsReal ==
  ASSUME TypeOK, TrafficInv, TermInv, NEW n \in Nodes, SetRemoteTraffic(n),
         row # NoRow, row'.exp # row.exp
  PROVE  tick[n].renewed
<1> DEFINE s == tick[n].snap
           new == ~adopted[n]
           frozen == dirty[n] \/ tick[n].pushed
           m == Merged(n, s, frozen, new)
<1>1. ~(~adopted[n] /\ dirty[n]) /\ row' = m.row /\ Merges(n)
  BY DEF SetRemoteTraffic, Merges
<1>2. s \in Reports /\ new \in BOOLEAN /\ frozen \in BOOLEAN
  BY <1>1, SnapType DEF TypeOK, Merges
<1>3. Term(n, s, frozen, m.row)
  BY <1>1, <1>2, StartSound, MergedTerm DEF Merges, TypeOK
<1> HIDE DEF m
<1>4. Owner(n) /\ ~dirty[n] /\ s.set[1] > row.exp
  BY <1>1, <1>3 DEF Term, Owner
<1>5. row.exp \in Nat /\ s.set[1] \in Nat
  BY <1>1, NodeTypes
<1> QED  BY <1>1, <1>4, <1>5 DEF TermInv, Old

-----------------------------------------------------------------------------
(* The invariant.                                                          *)

LEMMA TrafficStart ==
  ASSUME Init
  PROVE  TypeOK /\ TrafficInv
<1>1. \A n \in Nodes : /\ node[n] \in Reports /\ Honest(node[n])
                        /\ tick[n] \in Ticks /\ tick[n].pc # "merge"
  <2> SUFFICES ASSUME NEW n \in Nodes
               PROVE  node[n] \in Reports /\ Honest(node[n]) /\ tick[n] \in Ticks
                      /\ tick[n].pc # "merge"
    OBVIOUS
  <2>1. PICK c \in 0..1 : node[n] = [total |-> Zero, off |-> Zero, exp |-> 2, set |-> <<2, 0>>, count |-> c]
    BY DEF Init
  <2>2. \A d \in Dirs : Zero[d] = 0
    BY DEF Zero
  <2>3. node[n] \in Reports /\ Honest(node[n])
    BY <2>1, <2>2, ZeroType DEF Reports, Honest, Payloads
  <2> QED  BY <2>3 DEF Init, Ticks, Idle
<1>2. TypeOK
  <2>1. node \in [Nodes -> Reports] /\ tick \in [Nodes -> Ticks]
    BY <1>1 DEF Init
  <2>2. row \in Rows \cup {NoRow} /\ base \in [Nodes -> Counters \cup {NoBase}]
    BY DEF Init
  <2>3. {central, fp} \subseteq [Nodes -> Payloads] /\ pushing \in [Nodes -> Pushes]
    BY DEF Init, Pushes, Payloads, Unknown
  <2>4. {adopted, dirty, owed} \subseteq [Nodes -> BOOLEAN] /\ resetting \subseteq Nodes
        /\ events \in Nat
    BY DEF Init
  <2>5. \A n \in Nodes : base[n] = NoBase
    BY DEF Init
  <2> QED  BY <2>1, <2>2, <2>3, <2>4, <2>5 DEF TypeOK
<1>3. seen = {} /\ twice = {} /\ loose = {}
  BY DEF Init
<1>4. TrafficInv
  BY <1>1, <1>3 DEF TrafficInv, Readings, Snapshots, Histories, CountedOnce, Bounded, Known, Covered
<1> QED  BY <1>2, <1>4

LEMMA TrafficStep ==
  ASSUME TypeOK, TrafficInv, [Next]_vars
  PROVE  TypeOK' /\ TrafficInv'
<1>1. CASE UNCHANGED vars
  <2>1. TypeOK'
    BY <1>1 DEF vars, history, TypeOK
  <2> QED  BY <1>1, <2>1, NodeStays, Advance DEF vars, history
<1> QED
  BY <1>1, UseKeeps, NodeResetKeeps, NodeRenewKeeps, CatchUpKeeps, SetExpiryKeeps, OtherEditKeeps,
     PushEditKeeps, BulkResetKeeps, ResetClientTrafficKeeps, PassResetKeeps, BeginKeeps,
     ReconcileKeeps, FetchKeeps, FetchFailsKeeps, SetRemoteTrafficKeeps, Zenon DEF Next

LEMMA TermStart ==
  ASSUME Init
  PROVE  TermInv
<1>1. \A n \in Nodes : /\ node[n].exp = node[n].set[1] /\ node[n].set[2] = 0
                        /\ fp[n][2] = 0 /\ central[n][2] = 0 /\ pushing[n] = <<>> /\ ~Merges(n)
  <2> SUFFICES ASSUME NEW n \in Nodes
               PROVE  node[n].exp = node[n].set[1] /\ node[n].set[2] = 0
    BY DEF Init, Unknown, Idle, Merges
  <2> QED  BY DEF Init
<1>2. events = 0 /\ \A n \in Nodes : ~Owner(n)
  BY DEF Init, Owner
<1> QED
  BY <1>1, <1>2
  DEF TermInv, Adopted, Pushing, Unadopted, Stamps, Counts, Believed, Clean, Fresh, Old

LEMMA TermStep ==
  ASSUME TypeOK, TypeOK', TrafficInv, TermInv, [Next]_vars
  PROVE  TermInv'
<1>1. CASE UNCHANGED vars /\ \E n \in Nodes : TRUE
  BY <1>1, QuietSteps
<1>2. CASE Nodes = {}
  BY <1>2 DEF TermInv, Adopted, Pushing, Unadopted, Stamps, Counts, Believed, Clean, Fresh, Old
<1>3. CASE Next
  BY <1>2, <1>3, QuietSteps, NodeRenewTerms, SetExpiryTerms, PushEditTerms, ReconcileTerms,
     SetRemoteTrafficTerms, Zenon DEF Next
<1> QED  BY <1>1, <1>2, <1>3

\* A merge ends in one action only.
LEMMA MergeEnds ==
  ASSUME TypeOK, [Next]_vars, NEW n \in Nodes, tick[n].pc = "merge", tick'[n].pc = "idle"
  PROVE  SetRemoteTraffic(n)
<1>1. tick'[n] # tick[n] /\ tick \in [Nodes -> Ticks]
  BY DEF TypeOK
<1>2. ASSUME NEW k \in Nodes, k # n PROVE \A q : [tick EXCEPT ![k] = q][n] = tick[n]
  BY <1>1, <1>2
<1>3. ASSUME NEW k \in Nodes, Begin(k) \/ Reconcile(k) \/ Fetch(k) \/ FetchFails(k) PROVE FALSE
  <2>1. k = n => tick[k].pc # "merge"
    BY <1>3 DEF Begin, Reconcile, Fetch, FetchFails
  <2>2. \E q : tick' = [tick EXCEPT ![k] = q]
    BY <1>3 DEF Begin, Reconcile, Fetch, FetchFails, Snapshot
  <2> QED  BY <1>1, <1>2, <2>1, <2>2
<1>4. ASSUME NEW k \in Nodes, SetRemoteTraffic(k) PROVE k = n
  <2>1. tick' = [tick EXCEPT ![k] = Idle]
    BY <1>4 DEF SetRemoteTraffic
  <2> QED  BY <1>1, <1>2, <2>1
<1>5. tick' # tick
  BY <1>1
<1>6. ASSUME NEW k \in Nodes,
             \/ \E d \in Dirs : Use(k, d)
             \/ NodeReset(k) \/ NodeRenew(k) \/ CatchUp(k) \/ OtherEdit(k) \/ PushEdit(k)
             \/ ResetClientTraffic(k) \/ PassReset(k)
      PROVE  FALSE
  BY <1>5, <1>6
  DEF Use, NodeReset, NodeRenew, CatchUp, OtherEdit, PushEdit, ResetClientTraffic, PassReset
<1>7. ~BulkReset /\ ~(\E e \in 1..MaxExpiry : SetExpiry(e)) /\ ~(UNCHANGED vars)
  BY <1>5 DEF BulkReset, SetExpiry, vars
<1> QED  BY <1>3, <1>4, <1>6, <1>7, Zenon DEF Next

LEMMA TrafficInvariant == Spec => [](TypeOK /\ TrafficInv /\ TermInv)
<1>1. TypeOK /\ TrafficInv /\ TermInv /\ [Next]_vars => TypeOK' /\ TrafficInv' /\ TermInv'
  BY TrafficStep, TermStep
<1>2. Init => TypeOK /\ TrafficInv /\ TermInv
  BY TrafficStart, TermStart
<1> QED  BY <1>1, <1>2, PTL DEF Spec

(* For any nodes, directions and numbers of inbounds, reports, baselines and
   flags keep their types, and a node has a baseline only when the panel knows
   its inbounds (setRemoteTrafficLocked). *)
THEOREM TypeCorrect == Spec => []TypeOK
BY TrafficInvariant, PTL

(* However the nodes' counters are reset or renewed, and however late a reading
   is merged, a unit of traffic is added at most once, unless a frozen merge
   kept the baseline before it (setRemoteTrafficLocked, upsertNodeBaseline). *)
THEOREM CountedOnceAlways == Spec => []CountedOnce
<1>1. TrafficInv => CountedOnce
  BY DEF TrafficInv
<1> QED  BY <1>1, TrafficInvariant, PTL

(* A merge moves the row's deadline only for a renewal the node has made and
   the panel has not overridden: however edits, pushes, reconciles and readings
   interleave, a deadline the panel itself delivered is never taken for one
   (nodeClientRenewed and the checks of setRemoteTrafficLocked around it). *)
THEOREM RenewalIsRealAlways == Spec => RenewalIsReal
<1> DEFINE Real == \A n \in Nodes :
              tick[n].pc = "merge" /\ tick'[n].pc = "idle" /\ row # NoRow /\ row'.exp # row.exp
                => tick[n].renewed
<1>1. TypeOK /\ TrafficInv /\ TermInv /\ [Next]_vars => Real
  BY MergeEnds, MergeIsReal
<1>2. Real => [Real]_vars
  OBVIOUS
<1> HIDE DEF Real
<1>3. [][Real]_vars <=> RenewalIsReal
  BY DEF Real, RenewalIsReal
<1> QED  BY <1>1, <1>2, <1>3, TrafficInvariant, PTL DEF Spec
=============================================================================
