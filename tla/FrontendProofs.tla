--------------------------- MODULE FrontendProofs ---------------------------
(***************************************************************************)
(* Proofs about the two modules of the frontend.                           *)
(*                                                                         *)
(* PanelLive, for any handlers, any queue size and any numbers of edits    *)
(* and faults.  The invariant LiveInv follows an edit from the handler to  *)
(* the list: unless a loss was noted since, a list that is behind has, in  *)
(* some place, what will bring it up to date.                              *)
(*                                                                         *)
(* XrayTemplate, for any tags, any shipped or earlier template that is     *)
(* consistent and wired, and tables of any length.  The invariant          *)
(* EditorInv adds to the properties that every hidden rule leads to the    *)
(* balancer its loopback is named for, which each cascade of a deletion or *)
(* of a rename relies on and keeps.                                        *)
(***************************************************************************)
EXTENDS PanelLive, XrayTemplate, FiniteSetTheorems, WellFoundedInduction, TLAPS

Kinds == {"inbound", "toggle", "client", "node", "none"}
Elems(ms) == {ms[i] : i \in DOMAIN ms}

LiveTypes ==
  /\ todo \in [Actors -> [kind : Kinds, rest : Seq(Messages \cup {Read})]]
  /\ pipe \in Seq(Messages)
  /\ budget \in [{"edits", "faults"} -> Nat]
Bounds ==
  /\ budget["edits"] <= MaxEdits
  /\ \A d \in Lists : data[d] <= budget["edits"]
Answered == \A a \in Actors : todo[a].kind = "none" => todo[a].rest = <<>>

\* No list on its way to the tab is newer than the server's.
NotNewer(m) == m.kind = "push" => m.v <= data["inbounds"]
NoneNewer ==
  /\ \A m \in Elems(pipe) : NotNewer(m)
  /\ \A a \in Actors : \A m \in Elems(todo[a].rest) : NotNewer(m)
  /\ \A d \in Lists : query[d].v <= data[d]

\* A message that will bring list d up to date, and every place it may be in.
Tells(m, d) == m.list = d /\ (m.kind = "push" => m.v = data[d])
Told(d, ms) == \E m \in Elems(ms) : Tells(m, d)
OnItsWay(d) ==
  \/ query[d].shown = data[d]
  \/ query[d].fetch = "sent"
  \/ query[d].fetch = "answered" /\ query[d].v = data[d]
  \/ timer = d
  \/ Told(d, pipe)
  \/ \E a \in Actors : Told(d, todo[a].rest)
Tracked == \A d \in Lists : lost[d] \/ OnItsWay(d)

LiveInv == LiveTypes /\ Bounds /\ Answered /\ NoneNewer /\ Tracked
-----------------------------------------------------------------------------
(* Sequences, by the set of their elements.                                *)

\* What is left of a sequence without its first element.
LEMMA ElemsOfTail ==
  ASSUME NEW S, NEW ms \in Seq(S), ms # <<>>
  PROVE  /\ Head(ms) \in S /\ Tail(ms) \in Seq(S)
         /\ Elems(ms) = {Head(ms)} \cup Elems(Tail(ms))
         /\ Len(Tail(ms)) = Len(ms) - 1
<1>1. Len(ms) \in Nat /\ Len(ms) # 0 /\ DOMAIN ms = 1..Len(ms) /\ Head(ms) = ms[1]
  OBVIOUS
<1>2. Head(ms) \in S /\ Tail(ms) \in Seq(S) /\ Len(Tail(ms)) = Len(ms) - 1
      /\ DOMAIN Tail(ms) = 1..(Len(ms) - 1)
      /\ \A i \in 1..(Len(ms) - 1) : Tail(ms)[i] = ms[i + 1]
  BY <1>1
<1>3. ASSUME NEW i \in DOMAIN ms PROVE ms[i] \in {Head(ms)} \cup Elems(Tail(ms))
  <2>1. CASE i = 1
    BY <1>1, <2>1
  <2>2. CASE i # 1
    <3>1. i - 1 \in 1..(Len(ms) - 1) /\ (i - 1) + 1 = i
      BY <1>1, <2>2
    <3> QED  BY <1>2, <3>1 DEF Elems
  <2> QED  BY <2>1, <2>2
<1>4. ASSUME NEW i \in DOMAIN Tail(ms) PROVE Tail(ms)[i] \in Elems(ms)
  <2>1. i + 1 \in DOMAIN ms /\ Tail(ms)[i] = ms[i + 1]
    BY <1>1, <1>2
  <2> QED  BY <2>1 DEF Elems
<1>5. Head(ms) \in Elems(ms)
  BY <1>1 DEF Elems
<1> QED  BY <1>2, <1>3, <1>4, <1>5 DEF Elems

\* An appended element is one more.
LEMMA ElemsOfAppend ==
  ASSUME NEW S, NEW ms \in Seq(S), NEW m \in S
  PROVE  /\ Append(ms, m) \in Seq(S) /\ Len(Append(ms, m)) = Len(ms) + 1
         /\ Elems(Append(ms, m)) = Elems(ms) \cup {m}
<1>1. /\ Len(ms) \in Nat /\ DOMAIN ms = 1..Len(ms)
      /\ DOMAIN Append(ms, m) = 1..(Len(ms) + 1)
      /\ \A i \in 1..Len(ms) : Append(ms, m)[i] = ms[i]
      /\ Append(ms, m)[Len(ms) + 1] = m
  OBVIOUS
<1>2. \A i \in 1..(Len(ms) + 1) : i \in 1..Len(ms) \/ i = Len(ms) + 1
  BY <1>1
<1>3. 1..Len(ms) \subseteq 1..(Len(ms) + 1) /\ Len(ms) + 1 \in 1..(Len(ms) + 1)
  BY <1>1
<1> QED  BY <1>1, <1>2, <1>3 DEF Elems

Prefixed(m, ms) == <<m>> \o ms

\* So is one put in front.
LEMMA ElemsOfCons ==
  ASSUME NEW S, NEW ms \in Seq(S), NEW m \in S
  PROVE  Prefixed(m, ms) \in Seq(S) /\ Elems(Prefixed(m, ms)) = Elems(ms) \cup {m}
<1> DEFINE cs == <<m>> \o ms
<1>1. /\ Len(ms) \in Nat /\ DOMAIN ms = 1..Len(ms)
      /\ cs \in Seq(S) /\ DOMAIN cs = 1..(Len(ms) + 1) /\ cs[1] = m
      /\ \A i \in 1..(Len(ms) + 1) : i # 1 => cs[i] = ms[i - 1]
  OBVIOUS
<1> HIDE DEF cs
<1>2. ASSUME NEW i \in DOMAIN cs PROVE cs[i] \in Elems(ms) \cup {m}
  BY <1>1 DEF Elems
<1>3. ASSUME NEW i \in DOMAIN ms PROVE ms[i] \in Elems(cs)
  <2>1. i + 1 \in 1..(Len(ms) + 1) /\ i + 1 # 1 /\ (i + 1) - 1 = i
    BY <1>1
  <2> QED  BY <1>1, <2>1 DEF Elems
<1>4. m \in Elems(cs)
  BY <1>1 DEF Elems
<1>5. Elems(cs) = Elems(ms) \cup {m}
  BY <1>2, <1>3, <1>4 DEF Elems
<1> QED  BY <1>1, <1>5 DEF cs, Prefixed

\* The elements of short sequences.
LEMMA ElemsOfFew ==
  /\ Elems(<<>>) = {}
  /\ \A m : Elems(<<m>>) = {m}
  /\ \A m, q : Elems(<<m, q>>) = {m, q}
BY DEF Elems

\* The elements of a sequence over S are in S.
LEMMA ElemsAre ==
  ASSUME NEW S, NEW ms \in Seq(S)
  PROVE  Elems(ms) \subseteq S
BY DEF Elems

\* The fields of a message.
LEMMA MessageIs ==
  ASSUME NEW m \in Messages \cup {Read}
  PROVE  /\ m.list \in Lists /\ m.kind \in {"invalidate", "push", "read"}
         /\ m = Read <=> m.kind = "read"
         /\ m # Read => m \in Messages
         /\ m.kind = "push" => m.list = "inbounds" /\ m.v \in 0..MaxEdits /\ m.v \in Nat
<1>1. CASE m = Read
  BY <1>1 DEF Read, Lists
<1>2. ASSUME NEW d \in Lists, m = Invalidate(d)
      PROVE  m.list = d /\ m.kind = "invalidate" /\ m # Read
  BY <1>2 DEF Invalidate, Read
<1>3. ASSUME NEW v \in 0..MaxEdits, m = Push(v)
      PROVE  m.list = "inbounds" /\ m.kind = "push" /\ m # Read /\ m.v = v
  BY <1>3 DEF Push, Read
<1> QED  BY <1>1, <1>2, <1>3 DEF Messages, Lists

\* The types of the fields that the steps compare.
LEMMA StateIs ==
  ASSUME TypeOK, LiveInv
  PROVE  /\ \A d \in Lists :
              /\ data[d] \in Nat /\ data[d] \in 0..MaxEdits
              /\ query[d].shown \in Nat /\ query[d].v \in Nat
              /\ query[d] \in [shown : 0..MaxEdits, fetch : {"none", "sent", "answered"},
                               v : 0..MaxEdits]
         /\ \A a \in Actors : /\ todo[a].kind \in Kinds
                              /\ todo[a].rest \in Seq(Messages \cup {Read})
                              /\ Elems(todo[a].rest) \subseteq Messages \cup {Read}
         /\ Elems(pipe) \subseteq Messages
         /\ QueueSize \in Nat /\ MaxEdits \in Nat
         /\ {"inbounds", "clients"} = Lists
<1>1. QueueSize \in Nat /\ MaxEdits \in Nat
  BY LiveAssumption
<1>2. ASSUME NEW d \in Lists
      PROVE  /\ data[d] \in Nat /\ data[d] \in 0..MaxEdits
             /\ query[d].shown \in Nat /\ query[d].v \in Nat
             /\ query[d] \in [shown : 0..MaxEdits, fetch : {"none", "sent", "answered"},
                              v : 0..MaxEdits]
  BY <1>1 DEF TypeOK
<1>3. ASSUME NEW a \in Actors
      PROVE  todo[a].kind \in Kinds /\ todo[a].rest \in Seq(Messages \cup {Read})
  BY DEF LiveInv, LiveTypes
<1>4. Elems(pipe) \subseteq Messages /\ \A a \in Actors : Elems(todo[a].rest) \subseteq Messages \cup {Read}
  BY <1>3, ElemsAre DEF LiveInv, LiveTypes
<1> QED  BY <1>1, <1>2, <1>3, <1>4 DEF Lists

\* What the types of the queues say of the lists that are named in them.
LEMMA QueueType ==
  ASSUME NEW t \in [Actors -> [kind : Kinds, rest : Seq(Messages \cup {Read})]],
         NEW p \in Seq(Messages)
  PROVE  /\ \A a \in Actors : ListsOf(t[a].rest) \subseteq Lists
         /\ \A i \in DOMAIN p : p[i] \in Messages
<1>1. ASSUME NEW a \in Actors, NEW i \in DOMAIN t[a].rest PROVE t[a].rest[i].list \in Lists
  <2>1. t[a].rest[i] \in Messages \cup {Read}
    OBVIOUS
  <2> QED  BY <2>1, MessageIs
<1> QED  BY <1>1 DEF ListsOf
-----------------------------------------------------------------------------
(* The steps.                                                              *)

\* A step that leaves lists, messages and fetches alone keeps the invariant.
LEMMA QuietKeeps ==
  ASSUME TypeOK, LiveInv, TypeOK', UNCHANGED <<data, todo, pipe, timer, query, lost, budget>>
  PROVE  LiveInv'
BY DEF LiveInv, LiveTypes, Bounds, Answered, NoneNewer, NotNewer, Tracked, OnItsWay, Told, Tells

\* An edit signals every list it changes, and pushes none by itself.
LEMMA SignalsAre ==
  ASSUME NEW kind \in Kinds \ {"none"}
  PROVE  /\ Signals(kind) \in Seq(Messages \cup {Read})
         /\ \A m \in Elems(Signals(kind)) : m.kind # "push"
         /\ \A d \in Changes(kind) : \E m \in Elems(Signals(kind)) : m.list = d
<1>1. Read \in Messages \cup {Read} /\ \A d \in Lists : Invalidate(d) \in Messages \cup {Read}
  BY DEF Messages
<1>2. "inbounds" \in Lists /\ "clients" \in Lists
  BY DEF Lists
<1>3. /\ Read.list = "inbounds" /\ Read.kind # "push"
      /\ \A d \in Lists : Invalidate(d).list = d /\ Invalidate(d).kind # "push"
  BY DEF Read, Invalidate
<1> DEFINE first == IF Pushes THEN Read ELSE Invalidate("inbounds")
           i == Invalidate("inbounds")
           c == Invalidate("clients")
           Good(m) == m \in Messages \cup {Read} /\ m.kind # "push"
<1>4. /\ Good(first) /\ first.list = "inbounds"
      /\ Good(i) /\ i.list = "inbounds" /\ Good(c) /\ c.list = "clients"
  BY <1>1, <1>2, <1>3
<1> HIDE DEF first, i, c
<1>5. \/ Signals(kind) = <<first, c>> /\ Changes(kind) = {"inbounds", "clients"}
      \/ Signals(kind) = <<i>> /\ Changes(kind) = {"inbounds"}
      \/ Signals(kind) = <<c>> /\ Changes(kind) = {"clients"}
      \/ Signals(kind) = <<i, c>> /\ Changes(kind) = {"inbounds", "clients"}
  BY DEF Kinds, Signals, Changes, Lists, first, i, c
<1>6. \A m, q : /\ Good(m) => <<m>> \in Seq(Messages \cup {Read})
                /\ Good(m) /\ Good(q) => <<m, q>> \in Seq(Messages \cup {Read})
  OBVIOUS
<1>7. Signals(kind) \in Seq(Messages \cup {Read})
  <2>1. /\ <<first, c>> \in Seq(Messages \cup {Read}) /\ <<i>> \in Seq(Messages \cup {Read})
        /\ <<c>> \in Seq(Messages \cup {Read}) /\ <<i, c>> \in Seq(Messages \cup {Read})
    BY <1>4, <1>6
  <2> QED  BY <1>5, <2>1
<1>8. \/ Elems(Signals(kind)) = {first, c} /\ Changes(kind) = {"inbounds", "clients"}
      \/ Elems(Signals(kind)) = {i} /\ Changes(kind) = {"inbounds"}
      \/ Elems(Signals(kind)) = {c} /\ Changes(kind) = {"clients"}
      \/ Elems(Signals(kind)) = {i, c} /\ Changes(kind) = {"inbounds", "clients"}
  BY <1>5, ElemsOfFew
<1>9. \A m \in Elems(Signals(kind)) : m.kind # "push"
  BY <1>4, <1>8
<1>10. ASSUME NEW d \in Changes(kind) PROVE \E m \in Elems(Signals(kind)) : m.list = d
  BY <1>4, <1>8
<1> QED  BY <1>7, <1>9, <1>10

\* An edit of a list leaves its handler to tell of it.
LEMMA EditKeeps ==
  ASSUME TypeOK, LiveInv, NEW a \in Actors, NEW kind \in Kinds \ {"none"}, Edit(a, kind)
  PROVE  TypeOK' /\ LiveInv'
<1>1. /\ budget["edits"] < MaxEdits /\ budget' = [budget EXCEPT !["edits"] = @ + 1]
      /\ todo[a].kind = "none" /\ todo' = [todo EXCEPT ![a] = [kind |-> kind, rest |-> Signals(kind)]]
      /\ data' = [d \in Lists |-> IF d \in Changes(kind) THEN data[d] + 1 ELSE data[d]]
      /\ UNCHANGED <<throttled, conn, pipe, timer, recent, query, own, lost>>
  BY DEF Edit, Left, Spend
<1>2. /\ todo' \in [Actors -> [kind : Kinds, rest : Seq(Messages \cup {Read})]]
      /\ todo'[a].kind = kind /\ todo'[a].rest = Signals(kind)
      /\ \A b \in Actors : b # a => todo'[b] = todo[b]
  BY <1>1, SignalsAre DEF LiveInv, LiveTypes
<1>3. /\ budget' \in [{"edits", "faults"} -> Nat] /\ budget'["edits"] = budget["edits"] + 1
      /\ budget["edits"] \in Nat
  BY <1>1 DEF LiveInv, LiveTypes
<1>4. \A d \in Lists : /\ data'[d] = IF d \in Changes(kind) THEN data[d] + 1 ELSE data[d]
                       /\ data[d] \in Nat /\ data[d] <= budget["edits"]
  BY <1>1, StateIs DEF LiveInv, Bounds
<1>5. Bounds'
  BY <1>1, <1>3, <1>4, StateIs DEF Bounds
<1>6. data' \in [Lists -> 0..MaxEdits]
  <2>1. \A d \in Lists : data'[d] \in 0..MaxEdits
    BY <1>1, <1>3, <1>4, StateIs
  <2> QED  BY <1>1, <2>1
<1>7. LiveTypes'
  BY <1>1, <1>2, <1>3 DEF LiveInv, LiveTypes, Messages
<1>8. TypeOK'
  BY <1>1, <1>6, <1>7, QueueType DEF TypeOK, LiveTypes
<1>9. Answered'
  BY <1>2 DEF LiveInv, Answered, Kinds
<1>10. NoneNewer'
  <2>1. \A d \in Lists : data[d] <= data'[d] /\ data'[d] \in Nat
    BY <1>4
  <2>2. ASSUME NEW m \in Messages \cup {Read}, NotNewer(m) PROVE NotNewer(m)'
    BY <2>1, <2>2, MessageIs, StateIs DEF NotNewer
  <2>3. \A m \in Elems(pipe) : NotNewer(m)'
    BY <2>2, StateIs DEF LiveInv, NoneNewer
  <2>4. ASSUME NEW b \in Actors PROVE \A m \in Elems(todo'[b].rest) : NotNewer(m)'
    <3>1. CASE b = a
      BY <1>2, <3>1, SignalsAre DEF NotNewer
    <3>2. CASE b # a
      BY <1>2, <2>2, <3>2, StateIs DEF LiveInv, NoneNewer
    <3> QED  BY <3>1, <3>2
  <2>5. \A d \in Lists : query[d].v <= data'[d]
    BY <2>1, StateIs DEF LiveInv, NoneNewer
  <2> QED  BY <1>1, <2>3, <2>4, <2>5 DEF NoneNewer
<1>11. Tracked'
  <2> SUFFICES ASSUME NEW d \in Lists, ~lost[d] PROVE OnItsWay(d)'
    BY <1>1 DEF Tracked
  <2>1. CASE d \in Changes(kind)
    <3>1. PICK m \in Elems(Signals(kind)) : m.list = d /\ m.kind # "push"
      BY <2>1, SignalsAre
    <3>2. Told(d, todo[a].rest)'
      BY <1>2, <3>1 DEF Told, Tells
    <3> QED  BY <3>2 DEF OnItsWay
  <2>2. CASE d \notin Changes(kind)
    <3>1. data'[d] = data[d] /\ OnItsWay(d)
      BY <1>4, <2>2 DEF LiveInv, Tracked
    <3>2. \A ms : Told(d, ms) => Told(d, ms)'
      BY <3>1 DEF Told, Tells
    <3>3. \A b \in Actors : Told(d, todo[b].rest) => todo'[b] = todo[b]
      <4>1. ~Told(d, todo[a].rest)
        BY <1>1, ElemsOfFew DEF LiveInv, Answered, Told
      <4> QED  BY <1>2, <4>1
    <3>4. \A b \in Actors : Told(d, todo[b].rest) => Told(d, todo[b].rest)'
      BY <3>1, <3>3 DEF Told, Tells
    <3> QED  BY <1>1, <3>1, <3>2, <3>4 DEF OnItsWay
  <2> QED  BY <2>1, <2>2
<1> QED  BY <1>5, <1>7, <1>8, <1>9, <1>10, <1>11 DEF LiveInv

\* Steps that edit nothing: what is left to show of them.
Queues == [Lists -> [shown : 0..MaxEdits, fetch : {"none", "sent", "answered"}, v : 0..MaxEdits]]

\* What a step must see to for the invariant to be kept.
LEMMA StepKeeps ==
  ASSUME TypeOK, LiveInv, data' = data, LiveTypes', budget'["edits"] = budget["edits"], Answered',
         throttled' \in BOOLEAN, recent' \in BOOLEAN,
         conn' \in {"closed", "open", "joined", "evicted"},
         Len(pipe') <= QueueSize, conn' \in {"closed", "open"} => pipe' = <<>>,
         timer' \in Lists \cup {"none"}, query' \in Queues, lost' \in [Lists -> BOOLEAN],
         \A m \in Elems(pipe') : NotNewer(m),
         \A a \in Actors : \A m \in Elems(todo'[a].rest) : NotNewer(m),
         \A d \in Lists : query'[d].v <= data[d],
         \A d \in Lists : lost'[d] \/ OnItsWay(d)'
  PROVE  TypeOK' /\ LiveInv'
<1>1. TypeOK'
  BY QueueType DEF TypeOK, LiveTypes, Queues
<1>2. Bounds'
  BY DEF LiveInv, Bounds
<1>3. NoneNewer' /\ Tracked'
  BY DEF NoneNewer, NotNewer, Tracked
<1> QED  BY <1>1, <1>2, <1>3 DEF LiveInv

\* A list stays on its way when its query and timer stay, and no message is lost.
LEMMA StillOnItsWay ==
  ASSUME NEW d \in Lists, OnItsWay(d), data' = data, query'[d] = query[d],
         timer = d => timer' = d,
         \A m \in Elems(pipe) : Tells(m, d) =>
           m \in Elems(pipe') \/ \E a \in Actors : m \in Elems(todo'[a].rest),
         \A a \in Actors : \A m \in Elems(todo[a].rest) : Tells(m, d) =>
           \/ \E q \in Elems(pipe') : Tells(q, d)
           \/ \E b \in Actors : \E q \in Elems(todo'[b].rest) : Tells(q, d)
  PROVE  OnItsWay(d)'
<1>1. \A m : Tells(m, d)' <=> Tells(m, d)
  BY DEF Tells
<1>2. (\E m \in Elems(pipe') : Tells(m, d)) => OnItsWay(d)'
  BY <1>1 DEF OnItsWay, Told
<1>3. (\E a \in Actors : \E m \in Elems(todo'[a].rest) : Tells(m, d)) => OnItsWay(d)'
  BY <1>1 DEF OnItsWay, Told
<1>4. CASE query[d].shown = data[d] \/ query[d].fetch = "sent"
           \/ (query[d].fetch = "answered" /\ query[d].v = data[d]) \/ timer = d
  BY <1>4 DEF OnItsWay
<1>5. CASE Told(d, pipe)
  BY <1>2, <1>3, <1>5 DEF Told
<1>6. CASE \E a \in Actors : Told(d, todo[a].rest)
  BY <1>2, <1>3, <1>6 DEF Told
<1> QED  BY <1>4, <1>5, <1>6 DEF OnItsWay

\* A handler that has something to send.
LEMMA Sending ==
  ASSUME TypeOK, LiveInv, NEW a \in Actors, todo[a].rest # <<>>
  PROVE  LET rest == todo[a].rest
         IN /\ Head(rest) \in Messages \cup {Read} /\ NotNewer(Head(rest))
            /\ Tail(rest) \in Seq(Messages \cup {Read})
            /\ Elems(rest) = {Head(rest)} \cup Elems(Tail(rest))
            /\ todo[a].kind # "none" /\ todo[a].kind \in Kinds
<1> DEFINE rest == todo[a].rest
<1>1. rest \in Seq(Messages \cup {Read}) /\ todo[a].kind \in Kinds
  BY StateIs
<1>2. /\ Head(rest) \in Messages \cup {Read} /\ Tail(rest) \in Seq(Messages \cup {Read})
      /\ Elems(rest) = {Head(rest)} \cup Elems(Tail(rest))
  BY <1>1, ElemsOfTail
<1>3. \A m \in Elems(rest) : NotNewer(m)
  BY DEF LiveInv, NoneNewer
<1>4. todo[a].kind # "none"
  BY DEF LiveInv, Answered
<1> QED  BY <1>1, <1>2, <1>3, <1>4

\* A handler that reads the list to push it keeps the invariant.
LEMMA ReadListKeeps ==
  ASSUME TypeOK, LiveInv, NEW a \in Actors, ReadList(a)
  PROVE  TypeOK' /\ LiveInv'
<1> DEFINE rest == todo[a].rest
           p == Push(data["inbounds"])
<1>1. /\ rest # <<>> /\ Head(rest) = Read
      /\ todo' = [todo EXCEPT ![a].rest = <<p>> \o Tail(rest)]
      /\ UNCHANGED <<data, throttled, conn, pipe, timer, recent, query, own, lost, budget>>
  BY DEF ReadList
<1>2. p \in Messages /\ NotNewer(p) /\ \A d \in Lists : Tells(Read, d) => Tells(p, d)
  <2>1. data["inbounds"] \in 0..MaxEdits /\ data["inbounds"] \in Nat
    BY StateIs
  <2>2. p.v = data["inbounds"] /\ p.list = "inbounds" /\ Read.list = "inbounds"
    BY DEF Push, Read
  <2> QED  BY <2>1, <2>2 DEF Messages, NotNewer, Tells
<1>3. /\ Elems(rest) = {Read} \cup Elems(Tail(rest)) /\ Tail(rest) \in Seq(Messages \cup {Read})
      /\ todo[a].kind # "none" /\ todo[a].kind \in Kinds
  BY <1>1, Sending
<1> HIDE DEF p, rest
<1>4. <<p>> \o Tail(rest) \in Seq(Messages \cup {Read})
      /\ Elems(<<p>> \o Tail(rest)) = Elems(Tail(rest)) \cup {p}
  <2>1. p \in Messages \cup {Read}
    BY <1>2
  <2> DEFINE S == Messages \cup {Read}
             t == Tail(rest)
  <2>2. t \in Seq(S) /\ p \in S
    BY <1>3, <2>1
  <2> HIDE DEF S, t
  <2>3. Prefixed(p, t) \in Seq(S) /\ Elems(Prefixed(p, t)) = Elems(t) \cup {p}
    BY <2>2, ElemsOfCons
  <2> QED  BY <2>3 DEF S, t, Prefixed
<1>5. /\ todo' \in [Actors -> [kind : Kinds, rest : Seq(Messages \cup {Read})]]
      /\ todo'[a].rest = <<p>> \o Tail(rest) /\ todo'[a].kind = todo[a].kind
      /\ \A b \in Actors : b # a => todo'[b] = todo[b]
  BY <1>1, <1>3, <1>4 DEF LiveInv, LiveTypes
<1>6. LiveTypes' /\ Answered'
  BY <1>1, <1>3, <1>5 DEF LiveInv, LiveTypes, Answered
<1>7. \A b \in Actors : \A m \in Elems(todo'[b].rest) : NotNewer(m)
  BY <1>2, <1>3, <1>4, <1>5 DEF LiveInv, NoneNewer, rest
<1>8. ASSUME NEW d \in Lists, ~lost'[d] PROVE OnItsWay(d)'
  <2>1. OnItsWay(d)
    BY <1>1, <1>8 DEF LiveInv, Tracked
  <2>2. ASSUME NEW b \in Actors, NEW m \in Elems(todo[b].rest), Tells(m, d)
        PROVE  \E q \in Elems(todo'[b].rest) : Tells(q, d)
    <3>1. CASE b # a
      BY <1>5, <2>2, <3>1
    <3>2. CASE b = a
      <4>1. m = Read \/ m \in Elems(Tail(rest))
        BY <1>3, <2>2, <3>2 DEF rest
      <4> QED  BY <1>2, <1>4, <1>5, <2>2, <3>2, <4>1
    <3> QED  BY <3>1, <3>2
  <2> QED  BY <1>1, <2>1, <2>2, StillOnItsWay
<1> QED
  BY <1>1, <1>6, <1>7, <1>8, StepKeeps DEF TypeOK, LiveInv, NoneNewer, Queues

\* So does one whose message enters the hub or is dropped there.
LEMMA SignalKeeps ==
  ASSUME TypeOK, LiveInv, NEW a \in Actors, Signal(a)
  PROVE  TypeOK' /\ LiveInv'
<1> DEFINE rest == todo[a].rest
           m == Head(rest)
<1>1. /\ rest # <<>> /\ m # Read
      /\ todo' = [todo EXCEPT ![a].rest = Tail(@)]
      /\ UNCHANGED <<data, timer, recent, query, own, budget>>
  BY DEF Signal, Sent
<1>2. \/ Lose({m.list}) /\ UNCHANGED <<throttled, conn, pipe>>
      \/ /\ conn = "joined" /\ Len(pipe) < QueueSize
         /\ throttled' = (throttled \/ m.kind = "push")
         /\ pipe' = Append(pipe, m)
         /\ UNCHANGED <<conn, lost>>
      \/ /\ throttled' = (throttled \/ m.kind = "push")
         /\ conn' = "evicted" /\ Lose({m.list}) /\ UNCHANGED pipe
  BY DEF Signal
<1>3. /\ m \in Messages /\ NotNewer(m)
      /\ Elems(rest) = {m} \cup Elems(Tail(rest)) /\ Tail(rest) \in Seq(Messages \cup {Read})
      /\ todo[a].kind # "none" /\ todo[a].kind \in Kinds
  BY <1>1, Sending, MessageIs
<1>4. /\ todo' \in [Actors -> [kind : Kinds, rest : Seq(Messages \cup {Read})]]
      /\ todo'[a].rest = Tail(rest) /\ todo'[a].kind = todo[a].kind
      /\ \A b \in Actors : b # a => todo'[b] = todo[b]
  BY <1>1, <1>3 DEF LiveInv, LiveTypes
<1> HIDE DEF m, rest
<1>5. Answered' /\ \A b \in Actors : \A q \in Elems(todo'[b].rest) : NotNewer(q)
  BY <1>3, <1>4 DEF LiveInv, Answered, NoneNewer, rest
<1>6. /\ pipe' \in Seq(Messages) /\ Len(pipe') <= QueueSize
      /\ Elems(pipe) \subseteq Elems(pipe') /\ Elems(pipe') \subseteq Elems(pipe) \cup {m}
      /\ throttled' \in BOOLEAN /\ conn' \in {"closed", "open", "joined", "evicted"}
      /\ conn' \in {"closed", "open"} => pipe' = <<>>
      /\ lost' \in [Lists -> BOOLEAN]
      /\ \A d \in Lists : lost[d] => lost'[d]
      /\ m \in Elems(pipe') \/ lost'[m.list]
  <2>1. pipe \in Seq(Messages) /\ Len(pipe) \in Nat /\ QueueSize \in Nat /\ m.list \in Lists
    BY <1>3, LiveAssumption, MessageIs DEF LiveInv, LiveTypes
  <2>2. CASE pipe' = Append(pipe, m) /\ conn = "joined" /\ Len(pipe) < QueueSize
             /\ throttled' = (throttled \/ m.kind = "push") /\ UNCHANGED <<conn, lost>>
    <3>1. pipe' \in Seq(Messages) /\ Len(pipe') = Len(pipe) + 1 /\ Elems(pipe') = Elems(pipe) \cup {m}
      BY <1>3, <2>1, <2>2, ElemsOfAppend
    <3> QED  BY <2>1, <2>2, <3>1 DEF TypeOK
  <2>3. CASE /\ Lose({m.list}) /\ UNCHANGED pipe
             /\ \/ UNCHANGED <<throttled, conn>>
                \/ throttled' = (throttled \/ m.kind = "push") /\ conn' = "evicted"
    BY <2>1, <2>3 DEF TypeOK, Lose
  <2> QED  BY <1>2, <2>2, <2>3
<1>7. ASSUME NEW d \in Lists, ~lost'[d] PROVE OnItsWay(d)'
  <2>1. OnItsWay(d)
    BY <1>6, <1>7 DEF LiveInv, Tracked
  <2>2. ASSUME NEW b \in Actors, NEW q \in Elems(todo[b].rest), Tells(q, d)
        PROVE  q \in Elems(pipe') \/ q \in Elems(todo'[b].rest)
    <3>1. CASE b # a
      BY <1>4, <2>2, <3>1
    <3>2. CASE b = a /\ q \in Elems(Tail(rest))
      BY <1>4, <3>2
    <3>3. CASE q = m
      BY <1>6, <1>7, <2>2, <3>3 DEF Tells
    <3> QED  BY <1>3, <2>2, <3>1, <3>2, <3>3 DEF rest
  <2> QED  BY <1>1, <1>6, <2>1, <2>2, StillOnItsWay
<1>8. LiveTypes'
  BY <1>1, <1>4, <1>6 DEF LiveInv, LiveTypes
<1>9. \A q \in Elems(pipe') : NotNewer(q)
  BY <1>3, <1>6 DEF LiveInv, NoneNewer
<1> QED
  BY <1>1, <1>5, <1>6, <1>7, <1>8, <1>9, StepKeeps DEF TypeOK, LiveInv, NoneNewer, Queues

\* A connection that closes notes what was in it as lost.
LEMMA CloseKeeps ==
  ASSUME TypeOK, LiveInv, Close
  PROVE  TypeOK' /\ LiveInv'
<1>1. /\ conn' = "closed" /\ pipe' = <<>> /\ Lose(ListsOf(pipe))
      /\ UNCHANGED <<data, todo, throttled, timer, recent, query, own>>
      /\ budget' = budget \/ budget' = [budget EXCEPT !["faults"] = @ + 1]
  BY DEF Close, Spend
<1>2. budget' \in [{"edits", "faults"} -> Nat] /\ budget'["edits"] = budget["edits"]
  BY <1>1 DEF LiveInv, LiveTypes
<1>3. LiveTypes' /\ Answered' /\ Len(pipe') <= QueueSize /\ Elems(pipe') = {}
  BY <1>1, <1>2, LiveAssumption, ElemsOfFew DEF LiveInv, LiveTypes, Answered
<1>4. lost' \in [Lists -> BOOLEAN] /\ \A d \in Lists : lost[d] \/ d \in ListsOf(pipe) => lost'[d]
  BY <1>1 DEF Lose, TypeOK
<1>5. ASSUME NEW d \in Lists, ~lost'[d] PROVE OnItsWay(d)'
  <2>1. OnItsWay(d) /\ d \notin ListsOf(pipe)
    BY <1>4, <1>5 DEF LiveInv, Tracked
  <2>2. \A m \in Elems(pipe) : ~Tells(m, d)
    BY <2>1 DEF Tells, Elems, ListsOf
  <2> QED  BY <1>1, <2>1, <2>2, StillOnItsWay
<1> QED
  BY <1>1, <1>2, <1>3, <1>4, <1>5, StepKeeps DEF TypeOK, LiveInv, NoneNewer, Queues

\* A message that is delivered moves into the tab.
LEMMA DeliverKeeps ==
  ASSUME TypeOK, LiveInv, Deliver
  PROVE  TypeOK' /\ LiveInv'
<1> DEFINE m == Head(pipe)
<1>1. /\ pipe # <<>> /\ pipe' = Tail(pipe)
      /\ UNCHANGED <<data, todo, throttled, conn, recent, own, budget>>
      /\ \/ /\ m.kind = "push" /\ Show("inbounds", m.v) /\ GoesBack("inbounds", m.v)
            /\ UNCHANGED timer
         \/ /\ m.kind = "invalidate" /\ timer' = m.list /\ Lose({timer} \ {m.list})
            /\ UNCHANGED query
  BY DEF Deliver
<1>2. /\ m \in Messages /\ Tail(pipe) \in Seq(Messages)
      /\ Elems(pipe) = {m} \cup Elems(Tail(pipe)) /\ Len(pipe') = Len(pipe) - 1
  BY <1>1, ElemsOfTail DEF LiveInv, LiveTypes
<1> HIDE DEF m
<1>3. /\ NotNewer(m) /\ m.list \in Lists
      /\ m.kind = "push" => m.list = "inbounds" /\ m.v \in 0..MaxEdits /\ m.v \in Nat
  BY <1>2, MessageIs DEF LiveInv, NoneNewer
<1>4. LiveTypes' /\ Answered' /\ Len(pipe') <= QueueSize
      /\ \A q \in Elems(pipe') : NotNewer(q)
  <2>1. pipe \in Seq(Messages) /\ Len(pipe) \in Nat /\ QueueSize \in Nat /\ Len(pipe) <= QueueSize
    BY LiveAssumption DEF LiveInv, LiveTypes, TypeOK
  <2> QED  BY <1>1, <1>2, <2>1 DEF LiveInv, LiveTypes, Answered, NoneNewer
<1>5. conn' \in {"closed", "open"} => pipe' = <<>>
  BY <1>1 DEF TypeOK
<1>6. CASE m.kind = "push" /\ Show("inbounds", m.v) /\ GoesBack("inbounds", m.v) /\ UNCHANGED timer
  <2>1. /\ query' \in Queues /\ query'["inbounds"].shown = m.v
        /\ query'["inbounds"].fetch = query["inbounds"].fetch
        /\ query'["inbounds"].v = query["inbounds"].v
        /\ \A d \in Lists : d # "inbounds" => query'[d] = query[d]
    BY <1>3, <1>6 DEF Show, TypeOK, Queues, Lists
  <2>2. /\ lost' \in [Lists -> BOOLEAN] /\ \A d \in Lists : lost[d] => lost'[d]
        /\ m.v < query["inbounds"].shown => lost'["inbounds"]
    BY <1>6 DEF GoesBack, Lose, TypeOK, Lists
  <2>3. \A d \in Lists : query'[d].v <= data[d]
    BY <2>1 DEF LiveInv, NoneNewer
  <2>4. ASSUME NEW d \in Lists, ~lost'[d] PROVE OnItsWay(d)'
    <3>1. OnItsWay(d)
      BY <2>2, <2>4 DEF LiveInv, Tracked
    <3>2. CASE d # "inbounds"
      <4>1. ~Tells(m, d)
        BY <1>3, <1>6, <3>2 DEF Tells
      <4> QED  BY <1>1, <1>2, <1>6, <2>1, <3>1, <3>2, <4>1, StillOnItsWay
    <3>3. CASE d = "inbounds"
      <4>1. query[d].shown \in Nat /\ data[d] \in Nat /\ ~(m.v < query[d].shown) /\ m.v <= data[d]
        BY <1>3, <1>6, <2>2, <2>4, <3>3, StateIs DEF NotNewer
      <4>2. query[d].shown = data[d] \/ Tells(m, d) => m.v = data[d]
        BY <1>3, <1>6, <4>1 DEF Tells
      <4>3. CASE m.v = data[d]
        BY <1>1, <2>1, <3>3, <4>3 DEF OnItsWay
      <4>4. CASE m.v # data[d]
        <5>1. Told(d, pipe) => Told(d, pipe)'
          BY <1>1, <1>2, <4>2, <4>4 DEF Told, Tells
        <5>2. \A a \in Actors : Told(d, todo[a].rest) => Told(d, todo[a].rest)'
          BY <1>1 DEF Told, Tells
        <5> QED  BY <1>1, <1>6, <2>1, <3>1, <3>3, <4>2, <4>4, <5>1, <5>2 DEF OnItsWay
      <4> QED  BY <4>3, <4>4
    <3> QED  BY <3>2, <3>3
  <2> QED
    BY <1>1, <1>4, <1>5, <1>6, <2>1, <2>2, <2>3, <2>4, StepKeeps DEF TypeOK, LiveInv, NoneNewer
<1>7. CASE m.kind = "invalidate" /\ timer' = m.list /\ Lose({timer} \ {m.list}) /\ UNCHANGED query
  <2>1. /\ lost' \in [Lists -> BOOLEAN] /\ \A d \in Lists : lost[d] => lost'[d]
        /\ \A d \in Lists : timer = d /\ d # m.list => lost'[d]
    BY <1>7 DEF Lose, TypeOK
  <2>2. ASSUME NEW d \in Lists, ~lost'[d] PROVE OnItsWay(d)'
    <3>1. OnItsWay(d)
      BY <2>1, <2>2 DEF LiveInv, Tracked
    <3>2. CASE d = m.list
      BY <1>7, <3>2 DEF OnItsWay
    <3>3. CASE d # m.list
      <4>1. ~Tells(m, d) /\ timer # d
        BY <2>1, <2>2, <3>3 DEF Tells
      <4> QED  BY <1>1, <1>2, <1>7, <3>1, <4>1, StillOnItsWay
    <3> QED  BY <3>2, <3>3
  <2> QED
    BY <1>1, <1>3, <1>4, <1>5, <1>7, <2>1, <2>2, StepKeeps DEF TypeOK, LiveInv, NoneNewer, Queues
<1> QED  BY <1>1, <1>6, <1>7

\* What a refetch does to the queries.
LEMMA RefetchIs ==
  ASSUME TypeOK, LiveInv, NEW ds
  PROVE  /\ Refetch(ds) \in Queues
         /\ \A d \in Lists : /\ Refetch(ds)[d].v = query[d].v
                             /\ d \in ds => Refetch(ds)[d].fetch = "sent"
                             /\ d \notin ds => Refetch(ds)[d] = query[d]
         /\ \A d \in Lists : Refetch(ds)[d].v <= data[d]
<1>1. ASSUME NEW d \in Lists
      PROVE  LET q == [query[d] EXCEPT !.fetch = "sent"]
             IN /\ q \in [shown : 0..MaxEdits, fetch : {"none", "sent", "answered"}, v : 0..MaxEdits]
                /\ q.v = query[d].v /\ q.fetch = "sent"
  BY StateIs
<1>2. /\ Refetch(ds) \in Queues
      /\ \A d \in Lists : /\ Refetch(ds)[d].v = query[d].v
                          /\ d \in ds => Refetch(ds)[d].fetch = "sent"
                          /\ d \notin ds => Refetch(ds)[d] = query[d]
  BY <1>1, StateIs DEF Refetch, Queues
<1> QED  BY <1>2 DEF LiveInv, NoneNewer

\* A step that begins fetches of the lists ds, and otherwise loses what it takes.
LEMMA FetchingKeeps ==
  ASSUME TypeOK, LiveInv, NEW ds, query' = Refetch(ds), UNCHANGED <<data, conn, pipe, lost, budget>>,
         throttled' = throttled, recent' \in BOOLEAN, timer' \in Lists \cup {"none"},
         \A d \in Lists : timer = d => d \in ds \/ timer' = d,
         todo' \in [Actors -> [kind : Kinds, rest : Seq(Messages \cup {Read})]],
         \A a \in Actors : todo'[a].rest = todo[a].rest, Answered'
  PROVE  TypeOK' /\ LiveInv'
<1>1. LiveTypes'
  BY DEF LiveInv, LiveTypes
<1>2. ASSUME NEW d \in Lists, ~lost'[d] PROVE OnItsWay(d)'
  <2>1. OnItsWay(d)
    BY <1>2 DEF LiveInv, Tracked
  <2>2. CASE d \in ds
    BY <2>2, RefetchIs DEF OnItsWay
  <2>3. CASE d \notin ds
    <3>1. query'[d] = query[d] /\ (timer = d => timer' = d)
      BY <2>3, RefetchIs
    <3> QED  BY <2>1, <3>1, StillOnItsWay
  <2> QED  BY <2>2, <2>3
<1> QED  BY <1>1, <1>2, RefetchIs, StepKeeps DEF TypeOK, LiveInv, NoneNewer

\* A timer that fires starts the fetch it was set for.
LEMMA FireKeeps ==
  ASSUME TypeOK, LiveInv, Fire
  PROVE  TypeOK' /\ LiveInv'
<1>1. /\ timer # "none" /\ timer' = "none"
      /\ UNCHANGED <<data, todo, throttled, conn, pipe, recent, own, budget>>
  BY DEF Fire
<1>2. CASE recent
  <2>1. Lose({timer}) /\ UNCHANGED query
    BY <1>2 DEF Fire
  <2>2. /\ lost' \in [Lists -> BOOLEAN] /\ \A d \in Lists : lost[d] \/ timer = d => lost'[d]
    BY <2>1 DEF Lose, TypeOK
  <2>3. ASSUME NEW d \in Lists, ~lost'[d] PROVE OnItsWay(d)'
    <3>1. OnItsWay(d) /\ timer # d
      BY <2>2, <2>3 DEF LiveInv, Tracked
    <3> QED  BY <1>1, <2>1, <3>1, StillOnItsWay
  <2>4. LiveTypes' /\ Answered'
    BY <1>1 DEF LiveInv, LiveTypes, Answered
  <2> QED
    BY <1>1, <2>1, <2>2, <2>3, <2>4, StepKeeps DEF TypeOK, LiveInv, NoneNewer, Queues
<1>3. CASE ~recent
  <2>1. query' = Refetch({timer}) /\ UNCHANGED lost
    BY <1>3 DEF Fire
  <2>2. Answered' /\ todo' \in [Actors -> [kind : Kinds, rest : Seq(Messages \cup {Read})]]
    BY <1>1 DEF LiveInv, LiveTypes, Answered
  <2> QED  BY <1>1, <2>1, <2>2, FetchingKeeps DEF TypeOK
<1> QED  BY <1>2, <1>3

\* A poll starts a fetch.
LEMMA PollKeeps ==
  ASSUME TypeOK, LiveInv, Poll
  PROVE  TypeOK' /\ LiveInv'
<1>1. /\ query' = Refetch({"clients"})
      /\ UNCHANGED <<data, todo, throttled, conn, pipe, timer, recent, own, lost, budget>>
  BY DEF Poll
<1>2. Answered' /\ todo' \in [Actors -> [kind : Kinds, rest : Seq(Messages \cup {Read})]]
  BY <1>1 DEF LiveInv, LiveTypes, Answered
<1> QED  BY <1>1, <1>2, FetchingKeeps DEF TypeOK

\* A handler that has told everything is done.
LEMMA DoneKeeps ==
  ASSUME TypeOK, LiveInv, NEW a \in Actors, Done(a)
  PROVE  TypeOK' /\ LiveInv'
<1>1. /\ todo[a].rest = <<>> /\ todo' = [todo EXCEPT ![a].kind = "none"]
      /\ UNCHANGED <<data, throttled, conn, pipe, timer, lost, budget>>
  BY DEF Done
<1>2. /\ todo' \in [Actors -> [kind : Kinds, rest : Seq(Messages \cup {Read})]]
      /\ \A b \in Actors : todo'[b].rest = todo[b].rest
      /\ \A b \in Actors : b # a => todo'[b] = todo[b]
  BY <1>1 DEF LiveInv, LiveTypes, Kinds
<1>3. Answered'
  BY <1>1, <1>2 DEF LiveInv, Answered
<1>4. \/ UNCHANGED <<query, recent>>
      \/ /\ query' = Refetch(IF todo[a].kind = "client" THEN Lists ELSE {"inbounds"})
         /\ recent' = (recent \/ todo[a].kind = "client")
  BY DEF Done
<1>5. CASE UNCHANGED <<query, recent>>
  <2>1. query' = Refetch({})
    <3>1. Refetch({}) = [d \in Lists |-> query[d]]
      BY DEF Refetch
    <3> QED  BY <1>5, <3>1 DEF TypeOK
  <2> QED  BY <1>1, <1>2, <1>3, <1>5, <2>1, FetchingKeeps DEF TypeOK
<1>6. CASE /\ query' = Refetch(IF todo[a].kind = "client" THEN Lists ELSE {"inbounds"})
           /\ recent' = (recent \/ todo[a].kind = "client")
  <2> DEFINE ds == IF todo[a].kind = "client" THEN Lists ELSE {"inbounds"}
  <2>1. query' = Refetch(ds) /\ recent' \in BOOLEAN
    BY <1>6 DEF TypeOK
  <2> HIDE DEF ds
  <2> QED  BY <1>1, <1>2, <1>3, <2>1, FetchingKeeps DEF TypeOK
<1> QED  BY <1>4, <1>5, <1>6

\* Steps of the query of list d alone.
LEMMA QueryKeeps ==
  ASSUME TypeOK, LiveInv, NEW d \in Lists,
         NEW q \in [shown : 0..MaxEdits, fetch : {"none", "sent", "answered"}, v : 0..MaxEdits],
         query' = [query EXCEPT ![d] = q], q.v <= data[d],
         UNCHANGED <<data, todo, throttled, conn, pipe, timer, recent>>,
         budget' \in [{"edits", "faults"} -> Nat], budget'["edits"] = budget["edits"],
         lost' \in [Lists -> BOOLEAN], \A e \in Lists : e # d /\ lost[e] => lost'[e],
         lost'[d] \/ OnItsWay(d)'
  PROVE  TypeOK' /\ LiveInv'
<1>1. /\ query' \in Queues /\ query'[d] = q
      /\ \A e \in Lists : e # d => query'[e] = query[e]
  BY DEF TypeOK, Queues
<1>2. ASSUME NEW e \in Lists, e # d PROVE lost'[e] \/ OnItsWay(e)'
  <2>1. lost[e] \/ OnItsWay(e)
    BY DEF LiveInv, Tracked
  <2> QED  BY <1>1, <1>2, <2>1, StillOnItsWay
<1>3. LiveTypes' /\ Answered'
  BY DEF LiveInv, LiveTypes, Answered
<1>4. \A e \in Lists : query'[e].v <= data[e]
  BY <1>1 DEF LiveInv, NoneNewer
<1> QED  BY <1>1, <1>2, <1>3, <1>4, StepKeeps DEF TypeOK, LiveInv, NoneNewer

\* A query that is given another fetch.
Cached == [shown : 0..MaxEdits, fetch : {"none", "sent", "answered"}, v : 0..MaxEdits]

Fetched(o, f, n) == [o EXCEPT !.fetch = f, !.v = n]

\* The record of a fetch.
LEMMA FetchSet ==
  ASSUME NEW o \in Cached, NEW f \in {"none", "sent", "answered"}, NEW n \in 0..MaxEdits
  PROVE  Fetched(o, f, n) \in Cached /\ Fetched(o, f, n).fetch = f /\ Fetched(o, f, n).v = n
BY DEF Cached, Fetched

\* The server answers with the list it has.
LEMMA AnswerKeeps ==
  ASSUME TypeOK, LiveInv, NEW d \in Lists, Answer(d)
  PROVE  TypeOK' /\ LiveInv'
<1> DEFINE q == Fetched(query[d], "answered", data[d])
<1>1. /\ query' = [query EXCEPT ![d] = q] /\ lost' = [lost EXCEPT ![d] = FALSE]
      /\ UNCHANGED <<data, todo, throttled, conn, pipe, timer, recent, own, budget>>
  BY DEF Answer, Fetched
<1>2. /\ q \in [shown : 0..MaxEdits, fetch : {"none", "sent", "answered"}, v : 0..MaxEdits]
      /\ q.fetch = "answered" /\ q.v = data[d] /\ q.v <= data[d]
  <2>1. query[d] \in Cached /\ data[d] \in 0..MaxEdits /\ data[d] \in Nat
    BY StateIs DEF Cached
  <2>2. q \in Cached /\ q.fetch = "answered" /\ q.v = data[d]
    BY <2>1, FetchSet, SMTT(30)
  <2> HIDE DEF q
  <2> QED  BY <2>1, <2>2 DEF Cached
<1> HIDE DEF q
<1>3. query'[d] = q
  BY <1>1 DEF TypeOK
<1>4. OnItsWay(d)'
  BY <1>1, <1>2, <1>3 DEF OnItsWay
<1>5. lost' \in [Lists -> BOOLEAN] /\ \A e \in Lists : e # d => lost'[e] = lost[e]
  BY <1>1 DEF TypeOK
<1> QED  BY <1>1, <1>2, <1>4, <1>5, QueryKeeps DEF LiveInv, LiveTypes

\* An answer that arrives is shown.
LEMMA ArriveKeeps ==
  ASSUME TypeOK, LiveInv, NEW d \in Lists, Arrive(d)
  PROVE  TypeOK' /\ LiveInv'
<1> DEFINE q == [shown |-> query[d].v, fetch |-> "none", v |-> 0]
<1>1. /\ query[d].fetch = "answered" /\ query' = [query EXCEPT ![d] = q]
      /\ GoesBack(d, query[d].v)
      /\ UNCHANGED <<data, todo, throttled, conn, pipe, timer, recent, budget>>
  BY DEF Arrive
<1>2. /\ q \in [shown : 0..MaxEdits, fetch : {"none", "sent", "answered"}, v : 0..MaxEdits]
      /\ q.v <= data[d] /\ q.shown = query[d].v
  BY StateIs
<1> HIDE DEF q
<1>3. query'[d] = q
  BY <1>1 DEF TypeOK
<1>4. /\ lost' \in [Lists -> BOOLEAN] /\ \A e \in Lists : lost[e] => lost'[e]
      /\ query[d].v < query[d].shown => lost'[d]
  BY <1>1 DEF GoesBack, Lose, TypeOK
<1>5. ASSUME ~lost'[d] PROVE OnItsWay(d)'
  <2>1. OnItsWay(d)
    BY <1>4, <1>5 DEF LiveInv, Tracked
  <2>2. query[d].v <= data[d] /\ query[d].v \in Nat /\ query[d].shown \in Nat /\ data[d] \in Nat
    BY StateIs DEF LiveInv, NoneNewer
  <2>3. CASE query[d].v = data[d]
    BY <1>1, <1>2, <1>3, <2>3 DEF OnItsWay
  <2>4. CASE query[d].v # data[d]
    <3>1. query[d].shown # data[d]
      BY <1>4, <1>5, <2>2, <2>4
    <3>2. Told(d, pipe) => Told(d, pipe)'
      BY <1>1 DEF Told, Tells
    <3>3. \A a \in Actors : Told(d, todo[a].rest) => Told(d, todo[a].rest)'
      BY <1>1 DEF Told, Tells
    <3> QED  BY <1>1, <2>1, <2>4, <3>1, <3>2, <3>3 DEF OnItsWay
  <2> QED  BY <2>3, <2>4
<1> QED  BY <1>1, <1>2, <1>4, <1>5, QueryKeeps DEF LiveInv, LiveTypes

\* A fetch that fails is noted as a loss.
LEMMA FetchFailsKeeps ==
  ASSUME TypeOK, LiveInv, NEW d \in Lists, FetchFails(d)
  PROVE  TypeOK' /\ LiveInv'
<1> DEFINE q == Fetched(query[d], "none", 0)
<1>1. /\ query' = [query EXCEPT ![d] = q] /\ Lose({d})
      /\ budget' = [budget EXCEPT !["faults"] = @ + 1]
      /\ UNCHANGED <<data, todo, throttled, conn, pipe, timer, recent>>
  BY DEF FetchFails, Spend, Fetched
<1>2. /\ q \in [shown : 0..MaxEdits, fetch : {"none", "sent", "answered"}, v : 0..MaxEdits]
      /\ q.v <= data[d]
  <2>1. query[d] \in Cached /\ data[d] \in Nat /\ 0 \in 0..MaxEdits
    BY StateIs DEF Cached
  <2>2. q \in Cached /\ q.v = 0
    BY <2>1, FetchSet, SMTT(30)
  <2> HIDE DEF q
  <2> QED  BY <2>1, <2>2 DEF Cached
<1> HIDE DEF q
<1>3. /\ lost' \in [Lists -> BOOLEAN] /\ lost'[d] /\ \A e \in Lists : lost[e] => lost'[e]
  BY <1>1 DEF Lose, TypeOK
<1>4. budget' \in [{"edits", "faults"} -> Nat] /\ budget'["edits"] = budget["edits"]
  BY <1>1 DEF LiveInv, LiveTypes
<1> QED  BY <1>1, <1>2, <1>3, <1>4, QueryKeeps
-----------------------------------------------------------------------------
(* The invariant.                                                          *)

\* The invariant holds at first.
LEMMA LiveStart ==
  ASSUME Init
  PROVE  TypeOK /\ LiveInv
<1>1. /\ pipe = <<>> /\ pipe \in Seq(Messages) /\ Elems(pipe) = {} /\ Len(pipe) = 0
      /\ \A a \in Actors : todo[a].rest = <<>> /\ Elems(todo[a].rest) = {}
      /\ todo \in [Actors -> [kind : Kinds, rest : Seq(Messages \cup {Read})]]
      /\ \A d \in Lists : query[d].shown = 0 /\ query[d].v = 0 /\ data[d] = 0
      /\ budget \in [{"edits", "faults"} -> Nat] /\ budget["edits"] = 0
  BY ElemsOfFew DEF Init, Kinds
<1>2. QueueSize \in Nat /\ MaxEdits \in Nat /\ 0 \in 0..MaxEdits
  BY LiveAssumption
<1>3. LiveTypes /\ Bounds /\ Answered /\ NoneNewer
  BY <1>1, <1>2 DEF LiveTypes, Bounds, Answered, NoneNewer
<1>4. Tracked
  BY <1>1 DEF Tracked, OnItsWay
<1>5. /\ data \in [Lists -> 0..MaxEdits] /\ throttled \in BOOLEAN /\ recent \in BOOLEAN
      /\ conn = "joined" /\ timer = "none" /\ lost \in [Lists -> BOOLEAN]
      /\ query \in [Lists -> [shown : 0..MaxEdits, fetch : {"none", "sent", "answered"},
                              v : 0..MaxEdits]]
  BY <1>2 DEF Init
<1>6. TypeOK
  BY <1>1, <1>2, <1>3, <1>5, QueueType DEF TypeOK, LiveTypes
<1> QED  BY <1>3, <1>4, <1>6 DEF LiveInv

\* Every step keeps it.
LEMMA LiveStep ==
  ASSUME TypeOK, LiveInv, [Next]_vars
  PROVE  TypeOK' /\ LiveInv'
<1>1. CASE Reconnect \/ Register \/ ThrottleEnds \/ RecentEnds \/ UNCHANGED vars
  <2>1. /\ UNCHANGED <<data, todo, pipe, timer, query, lost, budget>>
        /\ throttled' \in BOOLEAN /\ recent' \in BOOLEAN
        /\ \/ conn' = conn \/ (conn' = "open" /\ conn = "closed") \/ conn' = "joined"
    BY <1>1 DEF Reconnect, Register, ThrottleEnds, RecentEnds, vars, TypeOK
  <2>2. TypeOK'
    BY <2>1 DEF TypeOK
  <2> QED  BY <2>1, <2>2, QuietKeeps
<1>2. \A kind \in {"inbound", "toggle", "client", "node"} : kind \in Kinds \ {"none"}
  BY DEF Kinds
<1> QED
  BY <1>1, <1>2, EditKeeps, ReadListKeeps, SignalKeeps, DoneKeeps, CloseKeeps, DeliverKeeps,
     FireKeeps, PollKeeps, AnswerKeeps, ArriveKeeps, FetchFailsKeeps
  DEF Next, Server, Network, Tab

\* So it holds always.
LEMMA LiveInvariant == Spec => [](TypeOK /\ LiveInv)
<1>1. TypeOK /\ LiveInv /\ [Next]_vars => TypeOK' /\ LiveInv'
  BY LiveStep
<1> QED  BY <1>1, LiveStart, PTL DEF Spec

(* For any handlers, queue size and bounds: lists, queues and queries keep
   their types, a queue never exceeds its size, and a closed connection has
   nothing on its way (the hub's Client.send, evict). *)
THEOREM TypeCorrect == Spec => []TypeOK
BY LiveInvariant, PTL

(* When nothing is on its way to the tab any more, a list that is behind the
   server's is one whose update is known to have been lost since it was last
   fetched: there is no further way to go stale (websocketBridge, the hub's
   throttle and queues, the query cache). *)
THEOREM StaleIsKnown == Spec => []StaleOnlyIfLost
<1>1. TypeOK /\ LiveInv => StaleOnlyIfLost
  <2> SUFFICES ASSUME TypeOK, LiveInv, NEW d \in Lists, Settled(d), ~lost[d]
               PROVE  query[d].shown = data[d]
    BY DEF StaleOnlyIfLost
  <2>1. OnItsWay(d)
    BY DEF LiveInv, Tracked
  <2>2. /\ ~Told(d, pipe) /\ \A a \in Actors : ~Told(d, todo[a].rest)
    BY ElemsOfFew DEF Settled, Told, LiveInv, Answered
  <2>3. timer # d
    BY DEF Settled, Lists
  <2> QED  BY <2>1, <2>2, <2>3 DEF OnItsWay, Settled
<1> QED  BY <1>1, LiveInvariant, PTL

-----------------------------------------------------------------------------
(* Counting up, and chains.                                                *)

\* Among natural numbers there is a least one.
LEMMA LeastNumber ==
  ASSUME NEW Z, Z \subseteq Nat, Z # {}
  PROVE  \E x \in Z : \A y \in Z : x <= y
<1>1. IsWellFoundedOn(OpToRel(<, Nat), Nat)
  BY NatLessThanWellFounded
<1>2. PICK x \in Z : \A y \in Z : ~ (<<y, x>> \in OpToRel(<, Nat))
  BY <1>1, WFMin
<1>3. ASSUME NEW y \in Z PROVE x <= y
  <2>1. ~(y < x)
    BY <1>2 DEF OpToRel
  <2> QED  BY <2>1
<1> QED  BY <1>3

\* What holds at 0 and passes from each number to the next holds up to N.
LEMMA UpTo ==
  ASSUME NEW N \in Nat, NEW G, 0 \in G, \A k \in 0..N : k \in G /\ k + 1 \in 0..N => k + 1 \in G
  PROVE  0..N \subseteq G
<1> SUFFICES ASSUME ~(0..N \subseteq G) PROVE FALSE
  OBVIOUS
<1> DEFINE Z == {k \in 0..N : k \notin G}
<1>1. Z \subseteq Nat /\ Z # {}
  OBVIOUS
<1>2. PICK x \in Z : \A y \in Z : x <= y
  BY <1>1, LeastNumber
<1>3. x # 0 /\ x - 1 \in 0..N /\ x - 1 \notin Z
  BY <1>2
<1>4. x - 1 \in G /\ (x - 1) + 1 = x
  BY <1>2, <1>3
<1> QED  BY <1>2, <1>3, <1>4

\* g carries A from each number to the next.
Carries(g, N, V, A, F) ==
  g \in [0..N -> V] /\ g[0] = A /\ \A k \in 1..N : g[k] = F[k][g[k - 1]]

\* Applying one function after another from A leaves a sequence of values in V.
LEMMA Chain ==
  ASSUME NEW N \in Nat, NEW V, NEW A \in V, NEW F, \A k \in 1..N : \A x \in V : F[k][x] \in V
  PROVE  \E g : Carries(g, N, V, A, F)
<1> DEFINE Is(g, n) == /\ g \in [0..n -> V]
                       /\ g = [k \in 0..n |-> IF k = 0 THEN A ELSE F[k][g[k - 1]]]
           G == {n \in 0..N : \E g : Is(g, n)}
<1>1. 0 \in G
  <2>1. \E g : Is(g, 0)
    <3>1. Is([k \in 0..0 |-> A], 0)
      OBVIOUS
    <3> HIDE DEF Is
    <3> QED  BY <3>1
  <2> HIDE DEF Is
  <2> QED  BY <2>1
<1>2. ASSUME NEW n \in 0..N, n \in G, n + 1 \in 0..N PROVE n + 1 \in G
  <2>1. PICK g : Is(g, n)
    BY <1>2
  <2> DEFINE h == [k \in 0..(n + 1) |-> IF k = 0 THEN A ELSE F[k][g[k - 1]]]
  <2>2. ASSUME NEW k \in 0..n PROVE h[k] = g[k]
    BY <2>1
  <2>3. ASSUME NEW k \in 0..(n + 1), k # 0 PROVE k - 1 \in 0..n /\ k \in 1..N
    BY <1>2, <2>3
  <2>4. ASSUME NEW k \in 0..(n + 1) PROVE h[k] = IF k = 0 THEN A ELSE F[k][h[k - 1]]
    BY <2>2, <2>3
  <2>5. h = [k \in 0..(n + 1) |-> IF k = 0 THEN A ELSE F[k][h[k - 1]]]
    BY <2>4
  <2>6. ASSUME NEW k \in 0..(n + 1) PROVE h[k] \in V
    BY <2>1, <2>3
  <2>7. h \in [0..(n + 1) -> V]
    BY <2>6
  <2> QED  BY <1>2, <2>5, <2>7
<1>3. N \in G
  <2> HIDE DEF G
  <2>1. 0..N \subseteq G
    BY <1>1, <1>2, UpTo
  <2> QED  BY <2>1
<1>4. PICK g : Is(g, N)
  BY <1>3
<1>5. Carries(g, N, V, A, F)
  BY <1>4 DEF Carries
<1> QED  BY <1>5

-----------------------------------------------------------------------------
(* Sequences.                                                              *)

\* d is s at the positions K, in their order; h says where each comes from.
Picks(d, s, h, K) ==
  /\ h \in [DOMAIN d -> K]
  /\ \A k \in DOMAIN d : d[k] = s[h[k]]
  /\ \A j, k \in DOMAIN d : j < k => h[j] < h[k]
  /\ \A i \in K : \E k \in DOMAIN d : h[k] = i

\* The empty sequence picks nothing.
LEMMA PickNone == ASSUME NEW s PROVE \E h : Picks(<<>>, s, h, {})
<1>1. Picks(<<>>, s, [k \in {} |-> k], {})
  BY DEF Picks
<1> QED  BY <1>1

\* Appending the next element picks one position more.
LEMMA PickMore ==
  ASSUME NEW S, NEW s \in Seq(S), NEW d \in Seq(S), NEW n \in Nat, n + 1 \in DOMAIN s,
         NEW K, K \subseteq 1..n, NEW h, Picks(d, s, h, K)
  PROVE  /\ Append(d, s[n + 1]) \in Seq(S)
         /\ \E g : Picks(Append(d, s[n + 1]), s, g, K \cup {n + 1})
<1> DEFINE e == Append(d, s[n + 1])
           g == [k \in DOMAIN e |-> IF k \in DOMAIN d THEN h[k] ELSE n + 1]
<1>1. /\ e \in Seq(S) /\ Len(d) \in Nat /\ DOMAIN d = 1..Len(d) /\ DOMAIN e = 1..(Len(d) + 1)
      /\ \A k \in DOMAIN d : e[k] = d[k]
      /\ e[Len(d) + 1] = s[n + 1]
  OBVIOUS
<1> HIDE DEF e
<1>2. ASSUME NEW k \in DOMAIN e
      PROVE  /\ k \in DOMAIN d => g[k] = h[k] /\ h[k] \in K
             /\ k \notin DOMAIN d => g[k] = n + 1 /\ k = Len(d) + 1
  BY <1>1 DEF Picks
<1>3. g \in [DOMAIN e -> K \cup {n + 1}]
  BY <1>2
<1>4. \A k \in DOMAIN e : e[k] = s[g[k]]
  BY <1>1, <1>2 DEF Picks
<1>5. ASSUME NEW j \in DOMAIN e, NEW k \in DOMAIN e, j < k PROVE g[j] < g[k]
  <2>1. j \in DOMAIN d
    BY <1>1, <1>5
  <2>2. g[j] = h[j] /\ g[j] \in 1..n
    BY <1>2, <2>1
  <2>3. CASE k \in DOMAIN d
    BY <1>2, <1>5, <2>1, <2>3 DEF Picks
  <2>4. CASE k \notin DOMAIN d
    BY <1>2, <2>2, <2>4
  <2> QED  BY <2>3, <2>4
<1>6. ASSUME NEW i \in K \cup {n + 1} PROVE \E k \in DOMAIN e : g[k] = i
  <2>1. CASE i \in K
    BY <1>1, <1>2, <2>1 DEF Picks
  <2>2. CASE i = n + 1
    BY <1>1, <1>2, <2>2
  <2> QED  BY <2>1, <2>2
<1> HIDE DEF g
<1>7. Picks(e, s, g, K \cup {n + 1})
  BY <1>3, <1>4, <1>5, <1>6 DEF Picks
<1> QED  BY <1>1, <1>7 DEF e

\* What is left when the positions gone are dropped.
LEMMA DropIs ==
  ASSUME NEW S, NEW s \in Seq(S), NEW gone
  PROVE  /\ DropAt(s, gone) \in Seq(S)
         /\ \E h : Picks(DropAt(s, gone), s, h, DOMAIN s \ gone)
<1> DEFINE N == Len(s)
           F == [n \in 1..N |-> [d \in Seq(S) |-> IF n \in gone THEN d ELSE Append(d, s[n])]]
           Is(g) == g = [n \in 0..N |-> IF n = 0 THEN <<>> ELSE
                           IF n \in gone THEN g[n - 1] ELSE Append(g[n - 1], s[n])]
<1>1. N \in Nat /\ DOMAIN s = 1..N
  OBVIOUS
<1>2. \A n \in 1..N : \A d \in Seq(S) : F[n][d] \in Seq(S)
  <2>1. ASSUME NEW n \in 1..N, NEW d \in Seq(S) PROVE Append(d, s[n]) \in Seq(S)
    OBVIOUS
  <2> QED  BY <2>1
<1>3. PICK g0 : Carries(g0, N, Seq(S), <<>>, F)
  <2>1. <<>> \in Seq(S)
    OBVIOUS
  <2> HIDE DEF F, N
  <2> QED  BY <1>1, <1>2, <2>1, Chain
<1>4. Is(g0)
  <2>1. ASSUME NEW n \in 1..N PROVE n - 1 \in 0..N /\ g0[n - 1] \in Seq(S)
    BY <1>1, <1>3 DEF Carries
  <2>2. ASSUME NEW n \in 0..N
        PROVE  g0[n] = IF n = 0 THEN <<>> ELSE
                         IF n \in gone THEN g0[n - 1] ELSE Append(g0[n - 1], s[n])
    <3>1. CASE n = 0
      BY <1>3, <3>1 DEF Carries
    <3>2. CASE n # 0
      <4> HIDE DEF F
      <4>1. n \in 1..N /\ g0[n] = F[n][g0[n - 1]]
        BY <1>1, <1>3, <3>2 DEF Carries
      <4> USE DEF F
      <4> QED  BY <2>1, <3>2, <4>1
    <3> QED  BY <3>1, <3>2
  <2>3. g0 = [n \in 0..N |-> g0[n]]
    BY <1>3 DEF Carries
  <2> QED  BY <2>2, <2>3
<1> DEFINE g == CHOOSE x : Is(x)
<1>5. Is(g)
  BY <1>4, Zenon
<1>6. DropAt(s, gone) = g[N]
  BY Zenon DEF DropAt
<1> DEFINE K(n) == (1..n) \ gone
           P(n) == g[n] \in Seq(S) /\ \E h : Picks(g[n], s, h, K(n))
           G == {n \in 0..N : P(n)}
<1> HIDE DEF g, F
<1>7. 0 \in G
  <2>1. g[0] = <<>> /\ K(0) = {} /\ <<>> \in Seq(S)
    BY <1>5, <1>1
  <2>2. \E h : Picks(g[0], s, h, K(0))
    BY <2>1, PickNone
  <2>3. P(0) /\ 0 \in 0..N
    BY <1>1, <2>1, <2>2
  <2> HIDE DEF P
  <2> QED  BY <2>3
<1>8. ASSUME NEW n \in 0..N, n \in G, n + 1 \in 0..N PROVE n + 1 \in G
  <2>1. n + 1 # 0 /\ n + 1 \in DOMAIN s /\ (n + 1) - 1 = n
    BY <1>1, <1>8
  <2>2. g[n + 1] = IF n + 1 \in gone THEN g[n] ELSE Append(g[n], s[n + 1])
    BY <1>5, <1>8, <2>1
  <2>3. g[n] \in Seq(S) /\ \E h : Picks(g[n], s, h, K(n))
    BY <1>8
  <2>4. CASE n + 1 \in gone
    <3>1. K(n + 1) = K(n)
      BY <1>1, <2>4
    <3> QED  BY <1>8, <2>2, <2>4, <3>1
  <2>5. CASE n + 1 \notin gone
    <3>1. K(n + 1) = K(n) \cup {n + 1} /\ K(n) \subseteq 1..n /\ n \in Nat
      BY <1>1, <2>5
    <3>2. g[n + 1] = Append(g[n], s[n + 1])
      BY <2>2, <2>5
    <3> HIDE DEF K
    <3>3. PICK h : Picks(g[n], s, h, K(n))
      BY <2>3
    <3>4. /\ Append(g[n], s[n + 1]) \in Seq(S)
          /\ \E h1 : Picks(Append(g[n], s[n + 1]), s, h1, K(n) \cup {n + 1})
      BY <2>1, <2>3, <3>1, <3>3, PickMore
    <3>5. P(n + 1)
      BY <3>1, <3>2, <3>4
    <3> QED  BY <1>8, <3>5
  <2> QED  BY <2>4, <2>5
<1>9. N \in G
  <2> HIDE DEF G
  <2>1. 0..N \subseteq G
    BY <1>1, <1>7, <1>8, UpTo
  <2> QED  BY <1>1, <2>1
<1> QED  BY <1>1, <1>6, <1>9

\* Only what is dropped is missing.
LEMMA PicksRange ==
  ASSUME NEW s, NEW d, NEW K, NEW h, Picks(d, s, h, K)
  PROVE  Range(d) = {s[i] : i \in K}
  BY DEF Picks, Range

\* No position is picked twice.
LEMMA PicksInjective ==
  ASSUME NEW S, NEW s, NEW d \in Seq(S), NEW K, K \subseteq Nat, NEW h, Picks(d, s, h, K)
  PROVE  /\ \A j, k \in DOMAIN d : h[j] = h[k] => j = k
         /\ h \in Injection(DOMAIN d, K)
<1>1. ASSUME NEW j \in DOMAIN d, NEW k \in DOMAIN d, h[j] = h[k] PROVE j = k
  <2>1. j \in Nat /\ k \in Nat
    OBVIOUS
  <2>2. h[j] \in Nat /\ h[k] \in Nat
    BY DEF Picks
  <2>3. ~(j < k) /\ ~(k < j)
    BY <1>1, <2>2 DEF Picks
  <2> QED  BY <2>1, <2>3
<1> QED  BY <1>1 DEF Picks, Injection, IsInjective

\* A sequence has as many positions as its length.
LEMMA SeqDomain ==
  ASSUME NEW S, NEW s \in Seq(S)
  PROVE  /\ DOMAIN s = 1..Len(s) /\ Len(s) \in Nat
         /\ IsFiniteSet(DOMAIN s) /\ Cardinality(DOMAIN s) = Len(s)
         /\ \A i \in DOMAIN s : s[i] \in S
<1>1. DOMAIN s = 1..Len(s) /\ Len(s) \in Nat /\ \A i \in DOMAIN s : s[i] \in S
  OBVIOUS
<1>2. IsFiniteSet(1..Len(s)) /\ Cardinality(1..Len(s)) = Len(s)
  BY <1>1, FS_Interval
<1> QED  BY <1>1, <1>2

\* Nothing grows by dropping; what keeps its length is unchanged.
LEMMA PicksLength ==
  ASSUME NEW S, NEW s \in Seq(S), NEW d \in Seq(S), NEW K, K \subseteq DOMAIN s,
         NEW h, Picks(d, s, h, K)
  PROVE  /\ Len(d) <= Len(s)
         /\ Len(d) = Len(s) => d = s
<1>1. /\ DOMAIN s = 1..Len(s) /\ Len(s) \in Nat /\ DOMAIN d = 1..Len(d) /\ Len(d) \in Nat
      /\ IsFiniteSet(DOMAIN s) /\ Cardinality(DOMAIN s) = Len(s) /\ Cardinality(DOMAIN d) = Len(d)
  BY SeqDomain
<1>2. IsFiniteSet(K) /\ Cardinality(K) <= Len(s) /\ (Cardinality(K) = Len(s) => K = DOMAIN s)
      /\ Cardinality(K) \in Nat
  BY <1>1, FS_Subset, FS_CardinalityType
<1>3. Len(d) <= Cardinality(K)
  <2>0. K \subseteq Nat
    BY <1>1
  <2>1. h \in Injection(DOMAIN d, K)
    BY <2>0, PicksInjective
  <2> QED  BY <1>1, <1>2, <2>1, FS_Injection
<1>4. ASSUME Len(d) = Len(s) PROVE d = s
  <2>1. K = 1..Len(s) /\ DOMAIN d = K
    BY <1>1, <1>2, <1>3, <1>4
  <2> DEFINE Z == {k \in K : h[k] # k}
  <2>2. ASSUME Z # {} PROVE FALSE
    <3>1. Z \subseteq Nat
      BY <2>1
    <3>2. PICK x \in Z : \A y \in Z : x <= y
      BY <2>2, <3>1, LeastNumber
    <3>3. x \in K /\ h[x] # x /\ h[x] \in K /\ \A y \in K : y < x => h[y] = y
      BY <2>1, <3>2 DEF Picks
    <3>4. h[x] > x
      <4>1. h[x] < x => h[h[x]] = h[x]
        BY <3>3
      <4>2. h[x] < x => h[h[x]] < h[x]
        BY <2>1, <3>3 DEF Picks
      <4> QED  BY <2>1, <3>3, <4>1, <4>2
    <3>5. PICK k \in K : h[k] = x
      BY <2>1, <3>3 DEF Picks
    <3>6. k < x => FALSE
      BY <2>1, <3>3, <3>5
    <3>7. k > x => FALSE
      BY <2>1, <3>3, <3>4, <3>5 DEF Picks
    <3> QED  BY <2>1, <3>3, <3>5, <3>6, <3>7
  <2>3. \A k \in 1..Len(s) : d[k] = s[k]
    BY <2>1, <2>2 DEF Picks
  <2> QED  BY <1>1, <1>4, <2>3
<1>5. Len(d) <= Len(s)
  BY <1>1, <1>2, <1>3
<1> QED  BY <1>4, <1>5

\* What a concatenation holds at each place.
LEMMA ConcatIs ==
  ASSUME NEW S, NEW a \in Seq(S), NEW b \in Seq(S)
  PROVE  /\ a \o b \in Seq(S) /\ Len(a \o b) = Len(a) + Len(b)
         /\ \A k \in 1..Len(a) : (a \o b)[k] = a[k]
         /\ \A k \in 1..Len(b) : (a \o b)[Len(a) + k] = b[k]
  OBVIOUS

\* What is left when one position is taken out.
LEMMA RemoveIs ==
  ASSUME NEW S, NEW s \in Seq(S), NEW i \in DOMAIN s
  PROVE  LET d == RemoveAt(s, i) IN
         /\ d \in Seq(S) /\ Len(d) = Len(s) - 1
         /\ \A k \in 1..(Len(s) - 1) : d[k] = IF k < i THEN s[k] ELSE s[k + 1]
<1> DEFINE a == SubSeq(s, 1, i - 1)
           b == SubSeq(s, i + 1, Len(s))
<1>1. Len(s) \in Nat /\ i \in 1..Len(s) /\ \A k \in 1..Len(s) : s[k] \in S
  OBVIOUS
<1>2. a \in Seq(S) /\ Len(a) = i - 1 /\ \A k \in 1..(i - 1) : a[k] = s[k]
  BY <1>1
<1>3. b \in Seq(S) /\ Len(b) = Len(s) - i /\ \A k \in 1..(Len(s) - i) : b[k] = s[i + k]
  BY <1>1
<1>4. RemoveAt(s, i) = a \o b
  BY DEF RemoveAt
<1> HIDE DEF a, b
<1>5. /\ a \o b \in Seq(S) /\ Len(a \o b) = Len(s) - 1
      /\ \A k \in 1..(i - 1) : (a \o b)[k] = s[k]
      /\ \A k \in 1..(Len(s) - i) : (a \o b)[i - 1 + k] = s[i + k]
  BY <1>1, <1>2, <1>3, ConcatIs
<1> DEFINE d == a \o b
<1> HIDE DEF d
<1>6. ASSUME NEW k \in 1..(Len(s) - 1) PROVE d[k] = IF k < i THEN s[k] ELSE s[k + 1]
  <2>1. CASE k < i
    <3>1. k \in 1..(i - 1)
      BY <1>1, <2>1
    <3> QED  BY <1>5, <2>1, <3>1 DEF d
  <2>2. CASE ~(k < i)
    <3>1. k - i + 1 \in 1..(Len(s) - i) /\ i - 1 + (k - i + 1) = k /\ i + (k - i + 1) = k + 1
      BY <1>1, <2>2
    <3>2. d[i - 1 + (k - i + 1)] = s[i + (k - i + 1)]
      BY <1>5, <3>1 DEF d
    <3> QED  BY <2>2, <3>1, <3>2
  <2> QED  BY <2>1, <2>2
<1> QED  BY <1>4, <1>5, <1>6 DEF d

\* Taking a position out picks all the others.
LEMMA RemovePicks ==
  ASSUME NEW S, NEW s \in Seq(S), NEW i \in DOMAIN s
  PROVE  RemoveAt(s, i) \in Seq(S) /\ \E h : Picks(RemoveAt(s, i), s, h, DOMAIN s \ {i})
<1> DEFINE d == RemoveAt(s, i)
           h == [k \in DOMAIN d |-> IF k < i THEN k ELSE k + 1]
<1>1. /\ d \in Seq(S) /\ Len(d) = Len(s) - 1
      /\ \A k \in 1..(Len(s) - 1) : d[k] = IF k < i THEN s[k] ELSE s[k + 1]
      /\ DOMAIN d = 1..Len(d) /\ DOMAIN s = 1..Len(s) /\ Len(s) \in Nat
  BY RemoveIs
<1> HIDE DEF d
<1>2. h \in [DOMAIN d -> DOMAIN s \ {i}]
  BY <1>1
<1>3. \A k \in DOMAIN d : d[k] = s[h[k]]
  BY <1>1
<1>4. \A j, k \in DOMAIN d : j < k => h[j] < h[k]
  BY <1>1
<1>5. ASSUME NEW m \in DOMAIN s \ {i} PROVE \E k \in DOMAIN d : h[k] = m
  <2>1. CASE m < i
    <3>1. m \in DOMAIN d /\ h[m] = m
      BY <1>1, <2>1
    <3> QED  BY <3>1
  <2>2. CASE m > i
    <3>1. m - 1 \in DOMAIN d /\ h[m - 1] = m
      BY <1>1, <2>2
    <3> QED  BY <3>1
  <2> QED  BY <1>1, <2>1, <2>2
<1> HIDE DEF h
<1>6. Picks(d, s, h, DOMAIN s \ {i})
  BY <1>2, <1>3, <1>4, <1>5 DEF Picks
<1> QED  BY <1>1, <1>6 DEF d

\* What an insertion holds at each place.
LEMMA InsertIs ==
  ASSUME NEW S, NEW s \in Seq(S), NEW e \in S, NEW i \in 1..(Len(s) + 1)
  PROVE  LET d == InsertAt(s, i, e) IN
         /\ d \in Seq(S) /\ Len(d) = Len(s) + 1
         /\ \A k \in 1..(Len(s) + 1) : d[k] = IF k < i THEN s[k] ELSE IF k = i THEN e ELSE s[k - 1]
<1> DEFINE a == SubSeq(s, 1, i - 1)
           b == SubSeq(s, i, Len(s))
<1>1. Len(s) \in Nat /\ i \in 1..(Len(s) + 1) /\ \A k \in 1..Len(s) : s[k] \in S
  OBVIOUS
<1>2. a \in Seq(S) /\ Len(a) = i - 1 /\ \A k \in 1..(i - 1) : a[k] = s[k]
  BY <1>1
<1>3. /\ b \in Seq(S) /\ Len(b) = Len(s) + 1 - i
      /\ \A k \in 1..(Len(s) + 1 - i) : b[k] = s[i + k - 1]
  BY <1>1
<1>4. InsertAt(s, i, e) = a \o <<e>> \o b
  BY DEF InsertAt
<1> HIDE DEF a, b
<1> DEFINE c == a \o <<e>>
<1>5. /\ c \in Seq(S) /\ Len(c) = i
      /\ \A k \in 1..i : c[k] = IF k < i THEN a[k] ELSE e
  BY <1>1, <1>2
<1> HIDE DEF c
<1>6. /\ c \o b \in Seq(S) /\ Len(c \o b) = Len(s) + 1
      /\ \A k \in 1..i : (c \o b)[k] = c[k]
      /\ \A k \in 1..(Len(s) + 1 - i) : (c \o b)[i + k] = s[i + k - 1]
  <2>1. /\ c \o b \in Seq(S) /\ Len(c \o b) = Len(c) + Len(b)
        /\ \A k \in 1..Len(c) : (c \o b)[k] = c[k]
        /\ \A k \in 1..Len(b) : (c \o b)[Len(c) + k] = b[k]
    BY <1>3, <1>5, ConcatIs
  <2>2. Len(c) + Len(b) = Len(s) + 1
    BY <1>1, <1>3, <1>5
  <2> QED  BY <1>3, <1>5, <2>1, <2>2
<1>7. InsertAt(s, i, e) = c \o b
  BY <1>4 DEF c
<1> DEFINE d == c \o b
<1> HIDE DEF d
<1>8. ASSUME NEW k \in 1..(Len(s) + 1)
      PROVE  d[k] = IF k < i THEN s[k] ELSE IF k = i THEN e ELSE s[k - 1]
  <2>1. CASE k <= i
    <3>1. k \in 1..i /\ (k < i => k \in 1..(i - 1))
      BY <1>1, <2>1
    <3>2. d[k] = IF k < i THEN a[k] ELSE e
      BY <1>5, <1>6, <3>1 DEF d
    <3> QED  BY <1>1, <1>2, <2>1, <3>1, <3>2
  <2>2. CASE ~(k <= i)
    <3>1. k - i \in 1..(Len(s) + 1 - i) /\ i + (k - i) = k
      BY <1>1, <2>2
    <3>2. d[i + (k - i)] = s[i + (k - i) - 1]
      BY <1>6, <3>1 DEF d
    <3> QED  BY <1>1, <2>2, <3>1, <3>2
  <2> QED  BY <2>1, <2>2
<1> QED  BY <1>6, <1>7, <1>8 DEF d

\* An insertion adds its element and loses none.
LEMMA InsertRange ==
  ASSUME NEW S, NEW s \in Seq(S), NEW e \in S, NEW i \in 1..(Len(s) + 1)
  PROVE  Range(InsertAt(s, i, e)) = Range(s) \cup {e}
<1> DEFINE d == InsertAt(s, i, e)
<1>1. /\ d \in Seq(S) /\ Len(d) = Len(s) + 1
      /\ \A k \in 1..(Len(s) + 1) : d[k] = IF k < i THEN s[k] ELSE IF k = i THEN e ELSE s[k - 1]
      /\ DOMAIN d = 1..Len(d) /\ DOMAIN s = 1..Len(s) /\ Len(s) \in Nat
  BY InsertIs
<1> HIDE DEF d
<1>2. ASSUME NEW k \in DOMAIN d PROVE d[k] \in Range(s) \cup {e}
  BY <1>1 DEF Range
<1>3. ASSUME NEW k \in DOMAIN s PROVE s[k] \in Range(d)
  <2>1. CASE k < i
    BY <1>1, <2>1 DEF Range
  <2>2. CASE k >= i
    <3>1. k + 1 \in DOMAIN d /\ d[k + 1] = s[k]
      BY <1>1, <2>2
    <3> QED  BY <3>1 DEF Range
  <2> QED  BY <1>1, <2>1, <2>2
<1>4. e \in Range(d)
  BY <1>1 DEF Range
<1>5. Range(d) = Range(s) \cup {e}
  BY <1>2, <1>3, <1>4 DEF Range
<1> QED  BY <1>5 DEF d

\* The least position of a non-empty set of positions.
LEMMA MinIs ==
  ASSUME NEW I, I \subseteq Nat, I # {}
  PROVE  Min(I) \in I /\ \A i \in I : Min(I) <= i
<1>1. \E x \in I : \A y \in I : x <= y
  BY LeastNumber
<1> QED  BY <1>1 DEF Min

-----------------------------------------------------------------------------
(* Templates.                                                              *)

Make(o, b, r, x) == [outs |-> o, bals |-> b, rules |-> r, obs |-> x]

\* The fields of a template put together.
LEMMA MakeIs ==
  ASSUME NEW o, NEW b, NEW r, NEW x
  PROVE  /\ Make(o, b, r, x).outs = o /\ Make(o, b, r, x).bals = b
         /\ Make(o, b, r, x).rules = r /\ Make(o, b, r, x).obs = x
         /\ o \in Seq(Outbound) /\ b \in Seq(Balancer) /\ r \in Seq(Rule) /\ x \in Observer
              => Make(o, b, r, x) \in Template
  BY DEF Make, Template

\* A template is put together from its fields.
LEMMA Fields ==
  ASSUME NEW T \in Template
  PROVE  /\ T.outs \in Seq(Outbound) /\ T.bals \in Seq(Balancer) /\ T.rules \in Seq(Rule)
         /\ T.obs \in Observer /\ T = Make(T.outs, T.bals, T.rules, T.obs)
  BY DEF Make, Template

WithOuts(T, x) == [T EXCEPT !.outs = x]
WithBals(T, x) == [T EXCEPT !.bals = x]
WithRules(T, x) == [T EXCEPT !.rules = x]
WithObs(T, x) == [T EXCEPT !.obs = x]

\* A field rewritten, the others left alone.
LEMMA RewriteOne ==
  ASSUME NEW a, NEW b, NEW c, NEW d, NEW x
  PROVE  /\ WithOuts(Make(a, b, c, d), x) = Make(x, b, c, d)
         /\ WithBals(Make(a, b, c, d), x) = Make(a, x, c, d)
         /\ WithRules(Make(a, b, c, d), x) = Make(a, b, x, d)
         /\ WithObs(Make(a, b, c, d), x) = Make(a, b, c, x)
  BY DEF Make, WithOuts, WithBals, WithRules, WithObs

\* The rewritings of the edits, as templates put together.
LEMMA Rewrites ==
  ASSUME NEW T \in Template, NEW o, NEW b, NEW r, NEW x
  PROVE  /\ [T EXCEPT !.outs = o] = Make(o, T.bals, T.rules, T.obs)
         /\ [T EXCEPT !.bals = b] = Make(T.outs, b, T.rules, T.obs)
         /\ [T EXCEPT !.rules = r] = Make(T.outs, T.bals, r, T.obs)
         /\ [T EXCEPT !.obs = x] = Make(T.outs, T.bals, T.rules, x)
         /\ [T EXCEPT !.outs = o, !.rules = r] = Make(o, T.bals, r, T.obs)
         /\ [T EXCEPT !.outs = o, !.rules = r, !.bals = b] = Make(o, b, r, T.obs)
         /\ [T EXCEPT !.rules = r, !.bals = b, !.outs = o] = Make(o, b, r, T.obs)
<1>1. T = Make(T.outs, T.bals, T.rules, T.obs)
  BY Fields
<1>2. /\ WithOuts(T, o) = Make(o, T.bals, T.rules, T.obs)
      /\ WithBals(T, b) = Make(T.outs, b, T.rules, T.obs)
      /\ WithRules(T, r) = Make(T.outs, T.bals, r, T.obs)
      /\ WithObs(T, x) = Make(T.outs, T.bals, T.rules, x)
  BY <1>1, RewriteOne
<1>3. WithRules(WithOuts(T, o), r) = Make(o, T.bals, r, T.obs)
  BY <1>2, RewriteOne
<1>4. WithBals(WithRules(WithOuts(T, o), r), b) = Make(o, b, r, T.obs)
  BY <1>3, RewriteOne
<1>5. WithOuts(WithBals(WithRules(T, r), b), o) = Make(o, b, r, T.obs)
  BY <1>2, RewriteOne
<1> QED  BY <1>2, <1>3, <1>4, <1>5 DEF WithOuts, WithBals, WithRules, WithObs

\* A loopback and its target name each other, and no loopback is anything else.
LEMMA LoopIs ==
  /\ \A b, c : (Loop(b) = Loop(c) <=> b = c) /\ Target(Loop(b)) = b
  /\ \A b \in Bals : Loop(b) \in Loops /\ b # None /\ b \notin Outs /\ b \notin Loops
  /\ \A tag \in Loops : tag = Loop(Target(tag)) /\ Target(tag) \in Bals /\ tag \notin Outs
                          /\ tag # None /\ tag # AnyIn /\ tag # Src
  /\ \A o \in Outs : o \notin Loops /\ o # None /\ o \notin Bals
  BY TagsAssumption DEF Loop, Loops, Target

\* The hidden rules there are, by the loopback each takes the traffic of.
Ins(T) == {r.in : r \in Range(T.rules)} \cap Loops

\* The row i falls back to the row j.
Leads(T, i, j) == T.bals[i].fb \in Ins(T) /\ T.bals[j].tag = Target(T.bals[i].fb)

\* What every step of an edit keeps.
Sound(T) ==
  /\ T \in Template /\ UniqueTags(T)
  /\ RulesResolve(T) /\ OutboundRefsResolve(T) /\ HiddenRulesLead(T)

\* What the elements of the three tables are.
LEMMA Elements ==
  ASSUME NEW T \in Template
  PROVE  /\ \A o \in Range(T.outs) : /\ o.tag \in Outs \cup Loops
                                     /\ o.dialer \in Outs \cup Loops \cup {None}
         /\ \A b \in Range(T.bals) : /\ b.tag \in Bals /\ b.sel \subseteq Outs
                                     /\ b.fb \in Outs \cup Bals \cup Loops \cup {None}
                                     /\ b.strat \in Strategies
         /\ \A r \in Range(T.rules) : /\ r.in \in {AnyIn, Src} \cup Loops
                                      /\ r.out \in Outs \cup Loops \cup {None}
                                      /\ r.bal \in Bals \cup {None}
         /\ \A i \in DOMAIN T.outs : T.outs[i] \in Range(T.outs)
         /\ \A i \in DOMAIN T.bals : T.bals[i] \in Range(T.bals)
         /\ \A i \in DOMAIN T.rules : T.rules[i] \in Range(T.rules)
<1>1. T.outs \in Seq(Outbound) /\ T.bals \in Seq(Balancer) /\ T.rules \in Seq(Rule)
  BY Fields
<1>2. /\ \A i \in DOMAIN T.outs : T.outs[i] \in Outbound
      /\ \A i \in DOMAIN T.bals : T.bals[i] \in Balancer
      /\ \A i \in DOMAIN T.rules : T.rules[i] \in Rule
  BY <1>1
<1>3. /\ \A o \in Range(T.outs) : o \in Outbound
      /\ \A b \in Range(T.bals) : b \in Balancer
      /\ \A r \in Range(T.rules) : r \in Rule
      /\ \A i \in DOMAIN T.outs : T.outs[i] \in Range(T.outs)
      /\ \A i \in DOMAIN T.bals : T.bals[i] \in Range(T.bals)
      /\ \A i \in DOMAIN T.rules : T.rules[i] \in Range(T.rules)
  BY <1>2, Zenon DEF Range
<1> QED  BY <1>3 DEF Outbound, Balancer, Rule

\* The rule that takes what comes out of a loopback, when there is one, leads
\* to the balancer it is named for.
LEMMA LoopRuleTargetIs ==
  ASSUME NEW T, Sound(T), NEW fb \in Loops
  PROVE  LoopRuleTarget(T, fb) = IF fb \in Ins(T) THEN Target(fb) ELSE None
<1> DEFINE I == {i \in 1..Len(T.rules) : T.rules[i].in = fb /\ T.rules[i].bal # None}
           r == IF I # {} THEN Min(I) ELSE 0
<1>1. LoopRuleTarget(T, fb) = IF r = 0 THEN None ELSE T.rules[r].bal
  BY DEF LoopRuleTarget, SelectInSeq
<1>2. T \in Template /\ HiddenRulesLead(T) /\ DOMAIN T.rules = 1..Len(T.rules)
  BY Fields DEF Sound
<1>3. \A i \in I : T.rules[i] \in Range(T.rules) /\ T.rules[i].in = fb /\ T.rules[i].bal = Target(fb)
  BY <1>2, Elements DEF HiddenRulesLead, IsLoop
<1>4. CASE I = {}
  <2>1. ASSUME NEW x \in Range(T.rules), x.in = fb PROVE FALSE
    <3>1. x.bal = Target(fb) /\ x.bal # None
      BY <1>2, <2>1, LoopIs DEF HiddenRulesLead, IsLoop
    <3>2. PICK i \in DOMAIN T.rules : T.rules[i] = x
      BY DEF Range
    <3> QED  BY <1>2, <1>4, <2>1, <3>1, <3>2
  <2> QED  BY <1>1, <1>4, <2>1 DEF Ins
<1>5. CASE I # {}
  <2>1. r \in I /\ r # 0
    <3>1. I \subseteq Nat /\ 0 \notin I
      OBVIOUS
    <3> HIDE DEF I
    <3> QED  BY <1>5, <3>1, MinIs
  <2>2. fb \in Ins(T)
    BY <1>3, <2>1 DEF Ins
  <2> QED  BY <1>1, <1>3, <2>1, <2>2
<1> QED  BY <1>4, <1>5

\* What Reach finds is the row that is led to.
LEMMA ReachIs ==
  ASSUME NEW T, Sound(T), NEW i \in DOMAIN T.bals
  PROVE  /\ Reach(T, i) \in 0..Len(T.bals)
         /\ \A j \in DOMAIN T.bals : Reach(T, i) = j <=> Leads(T, i, j)
<1> DEFINE fb == T.bals[i].fb
           to == LoopRuleTarget(T, fb)
           I == {k \in 1..Len(T.bals) : T.bals[k].tag = to}
           r == IF I # {} THEN Min(I) ELSE 0
<1>1. Reach(T, i) = IF IsLoop(fb) /\ fb \in OutboundTags(T) THEN r ELSE 0
  BY DEF Reach, SelectInSeq
<1>2. /\ T \in Template /\ UniqueTags(T) /\ HiddenRulesLead(T)
      /\ DOMAIN T.bals = 1..Len(T.bals) /\ Len(T.bals) \in Nat
  BY Fields DEF Sound
<1>3. r \in 0..Len(T.bals) /\ (r # 0 => r \in I) /\ (I # {} => r \in I)
  <2>1. I \subseteq Nat /\ 0 \notin I /\ I \subseteq 0..Len(T.bals) /\ 0 \in 0..Len(T.bals)
    BY <1>2
  <2> HIDE DEF I
  <2> QED  BY <2>1, MinIs
<1>4. fb \in Ins(T) => IsLoop(fb) /\ fb \in OutboundTags(T)
  BY <1>2 DEF Ins, HiddenRulesLead, IsLoop
<1>5. IsLoop(fb) => to = IF fb \in Ins(T) THEN Target(fb) ELSE None
  BY LoopRuleTargetIs DEF IsLoop
<1>6. ASSUME NEW j \in DOMAIN T.bals PROVE Reach(T, i) = j <=> Leads(T, i, j)
  <2>1. ASSUME Reach(T, i) = j PROVE Leads(T, i, j)
    <3>1. IsLoop(fb) /\ r = j /\ j # 0
      BY <1>1, <1>2, <2>1
    <3>2. T.bals[j].tag = to
      BY <1>3, <3>1
    <3>3. to # None
      BY <1>2, <3>2, Elements, LoopIs
    <3> QED  BY <1>5, <3>1, <3>2, <3>3 DEF Leads
  <2>2. ASSUME Leads(T, i, j) PROVE Reach(T, i) = j
    <3>1. fb \in Ins(T) /\ T.bals[j].tag = to
      BY <1>4, <1>5, <2>2 DEF Leads
    <3>2. I # {} /\ \A k \in I : k = j
      BY <1>2, <3>1 DEF UniqueTags
    <3>3. r = j
      BY <1>3, <3>2
    <3> QED  BY <1>1, <1>4, <3>1, <3>3
  <2> QED  BY <2>1, <2>2
<1>7. Reach(T, i) \in 0..Len(T.bals)
  <2> HIDE DEF r
  <2> QED  BY <1>1, <1>2, <1>3
<1> QED  BY <1>6, <1>7

-----------------------------------------------------------------------------
(* Rules without a destination, and rules ahead of the general ones.       *)

BareAt(rules) == {i \in DOMAIN rules : rules[i].out = None /\ rules[i].bal = None}

Ahead(rules, tag) ==
  \E k \in DOMAIN rules : rules[k].in = tag /\ \A j \in 1..(k - 1) : rules[j].in # AnyIn

\* A table whose bare rules come from different bare rules has no more of them.
LEMMA BareBound ==
  ASSUME NEW S1, NEW r1 \in Seq(S1), NEW S2, NEW r2 \in Seq(S2), NEW g,
         \A k \in BareAt(r2) : g[k] \in BareAt(r1),
         \A j, k \in BareAt(r2) : g[j] = g[k] => j = k
  PROVE  /\ Cardinality(BareAt(r2)) <= Cardinality(BareAt(r1))
         /\ Cardinality(BareAt(r1)) \in Nat /\ Cardinality(BareAt(r2)) \in Nat
<1> DEFINE f == [k \in BareAt(r2) |-> g[k]]
<1>1. f \in Injection(BareAt(r2), BareAt(r1))
  <2> HIDE DEF BareAt
  <2> QED  BY DEF Injection, IsInjective
<1>2. IsFiniteSet(BareAt(r1)) /\ IsFiniteSet(BareAt(r2))
  <2>1. BareAt(r1) \subseteq DOMAIN r1 /\ BareAt(r2) \subseteq DOMAIN r2
    BY DEF BareAt
  <2>2. IsFiniteSet(DOMAIN r1) /\ IsFiniteSet(DOMAIN r2)
    BY SeqDomain
  <2> QED  BY <2>1, <2>2, FS_Subset
<1> QED  BY <1>1, <1>2, FS_Injection, FS_CardinalityType

\* Dropping rules leaves no more of them without a destination.
LEMMA BarePicks ==
  ASSUME NEW S, NEW s \in Seq(S), NEW d \in Seq(S), NEW K, K \subseteq DOMAIN s, NEW h, Picks(d, s, h, K)
  PROVE  Cardinality(BareAt(d)) <= Cardinality(BareAt(s))
<1>1. K \subseteq Nat
  OBVIOUS
<1>2. /\ \A j, k \in DOMAIN d : h[j] = h[k] => j = k
      /\ h \in Injection(DOMAIN d, K)
  BY <1>1, PicksInjective
<1>3. \A k \in BareAt(d) : h[k] \in BareAt(s)
  BY DEF BareAt, Picks
<1>4. \A j, k \in BareAt(d) : h[j] = h[k] => j = k
  BY <1>2 DEF BareAt
<1> QED  BY <1>3, <1>4, BareBound

\* So does putting one in that has a destination.
LEMMA BareInsert ==
  ASSUME NEW S, NEW s \in Seq(S), NEW e \in S, NEW i \in 1..(Len(s) + 1), e.bal # None
  PROVE  Cardinality(BareAt(InsertAt(s, i, e))) <= Cardinality(BareAt(s))
<1> DEFINE d == InsertAt(s, i, e)
           h == [k \in Nat |-> IF k < i THEN k ELSE k - 1]
<1>1. /\ d \in Seq(S) /\ Len(d) = Len(s) + 1 /\ DOMAIN d = 1..(Len(s) + 1)
      /\ \A k \in 1..(Len(s) + 1) : d[k] = IF k < i THEN s[k] ELSE IF k = i THEN e ELSE s[k - 1]
      /\ DOMAIN s = 1..Len(s) /\ Len(s) \in Nat
  BY InsertIs
<1> HIDE DEF d
<1>2. ASSUME NEW k \in BareAt(d) PROVE h[k] \in BareAt(s) /\ k \in Nat /\ k # i
  <2>1. k \in 1..(Len(s) + 1) /\ d[k].out = None /\ d[k].bal = None
    BY <1>1 DEF BareAt
  <2>2. k # i
    BY <1>1, <2>1
  <2>3. CASE k < i
    BY <1>1, <2>1, <2>3 DEF BareAt
  <2>4. CASE k > i
    <3>1. h[k] = k - 1 /\ k - 1 \in 1..Len(s) /\ d[k] = s[k - 1]
      BY <1>1, <2>1, <2>4
    <3> QED  BY <1>1, <2>1, <2>2, <3>1 DEF BareAt
  <2> QED  BY <1>1, <2>1, <2>2, <2>3, <2>4
<1>3. \A j, k \in BareAt(d) : h[j] = h[k] => j = k
  BY <1>2
<1> HIDE DEF h
<1>4. Cardinality(BareAt(d)) <= Cardinality(BareAt(s))
  BY <1>1, <1>2, <1>3, BareBound
<1> QED  BY <1>4 DEF d

\* Dropping other rules leaves a rule ahead.
LEMMA AheadPicks ==
  ASSUME NEW S, NEW s \in Seq(S), NEW d \in Seq(S), NEW K, K \subseteq DOMAIN s, NEW h,
         Picks(d, s, h, K), NEW tag, Ahead(s, tag), \A i \in DOMAIN s : s[i].in = tag => i \in K
  PROVE  Ahead(d, tag)
<1>1. PICK k \in DOMAIN s : s[k].in = tag /\ \A j \in 1..(k - 1) : s[j].in # AnyIn
  BY DEF Ahead
<1>2. PICK m \in DOMAIN d : h[m] = k
  BY <1>1 DEF Picks
<1>3. ASSUME NEW j \in 1..(m - 1) PROVE d[j].in # AnyIn
  <2>1. j \in DOMAIN d /\ j < m
    OBVIOUS
  <2>2. h[j] < k /\ h[j] \in DOMAIN s /\ d[j] = s[h[j]]
    BY <1>2, <2>1 DEF Picks
  <2>3. h[j] \in 1..(k - 1)
    BY <2>2
  <2> QED  BY <1>1, <2>2, <2>3
<1>4. d[m].in = tag
  BY <1>1, <1>2 DEF Picks
<1> QED  BY <1>3, <1>4 DEF Ahead

-----------------------------------------------------------------------------
(* A rule put in front of the first general one.                           *)

\* A loop rule goes ahead of every general rule and moves no other behind one.
LEMMA InsertLoopRuleIs ==
  ASSUME NEW s \in Seq(Rule), NEW e \in Rule, e.bal # None, e.in # AnyIn
  PROVE  LET d == InsertLoopRule(s, e) IN
         /\ d \in Seq(Rule) /\ Range(d) = Range(s) \cup {e}
         /\ Cardinality(BareAt(d)) <= Cardinality(BareAt(s))
         /\ Ahead(d, e.in)
         /\ \A tag : tag # AnyIn /\ Ahead(s, tag) => Ahead(d, tag)
<1> DEFINE I == {i \in 1..Len(s) : IsGeneral(s[i])}
           first == IF I # {} THEN Min(I) ELSE 0
           at == IF first = 0 THEN Len(s) + 1 ELSE first
           d == InsertAt(s, at, e)
<1>1. InsertLoopRule(s, e) = d
  BY DEF InsertLoopRule, SelectInSeq
<1>2. DOMAIN s = 1..Len(s) /\ Len(s) \in Nat
  OBVIOUS
<1>3. /\ I # {} => first \in I /\ \A i \in I : first <= i
      /\ first # 0 <=> I # {}
  <2>1. I \subseteq Nat /\ 0 \notin I
    BY <1>2
  <2> HIDE DEF I
  <2> QED  BY <2>1, MinIs
<1>4. /\ at \in 1..(Len(s) + 1)
      /\ \A i \in 1..(at - 1) : i \in 1..Len(s) /\ s[i].in # AnyIn
      /\ at \in 1..Len(s) => s[at].in = AnyIn
  <2>1. CASE I = {}
    <3>1. at = Len(s) + 1
      BY <1>3, <2>1
    <3> QED  BY <1>2, <2>1, <3>1 DEF IsGeneral
  <2>2. CASE I # {}
    <3>1. at \in I /\ \A i \in I : at <= i
      BY <1>3, <2>2
    <3> HIDE DEF at
    <3> QED  BY <1>2, <3>1 DEF IsGeneral
  <2> QED  BY <2>1, <2>2
<1> HIDE DEF at
<1>5. /\ d \in Seq(Rule) /\ Len(d) = Len(s) + 1 /\ DOMAIN d = 1..(Len(s) + 1)
      /\ \A k \in 1..(Len(s) + 1) : d[k] = IF k < at THEN s[k] ELSE IF k = at THEN e ELSE s[k - 1]
  BY <1>4, InsertIs
<1>6. Range(d) = Range(s) \cup {e}
  BY <1>4, InsertRange
<1>7. Cardinality(BareAt(d)) <= Cardinality(BareAt(s))
  BY <1>4, BareInsert
<1> HIDE DEF d
<1>8. \A j \in 1..(at - 1) : d[j].in # AnyIn
  BY <1>2, <1>4, <1>5
<1>9. Ahead(d, e.in)
  <2>1. at \in DOMAIN d /\ d[at] = e
    BY <1>2, <1>4, <1>5
  <2> QED  BY <1>8, <2>1 DEF Ahead
<1>10. ASSUME NEW tag, tag # AnyIn, Ahead(s, tag) PROVE Ahead(d, tag)
  <2>1. PICK k \in DOMAIN s : s[k].in = tag /\ \A j \in 1..(k - 1) : s[j].in # AnyIn
    BY <1>10 DEF Ahead
  <2>2. k < at
    <3>1. k \in 1..Len(s)
      BY <1>2
    <3>2. CASE at \in 1..Len(s)
      <4>1. s[at].in = AnyIn
        BY <1>4, <3>2
      <4>2. ~(at \in 1..(k - 1)) /\ at # k
        BY <1>10, <2>1, <4>1
      <4> QED  BY <1>2, <1>4, <3>1, <4>2
    <3>3. CASE at = Len(s) + 1
      BY <1>2, <3>1, <3>3
    <3> QED  BY <1>2, <1>4, <3>2, <3>3
  <2>3. k \in DOMAIN d /\ d[k] = s[k]
    BY <1>2, <1>5, <2>2
  <2>4. \A j \in 1..(k - 1) : d[j].in # AnyIn
    BY <1>2, <1>4, <1>8, <2>2
  <2> QED  BY <2>1, <2>3, <2>4 DEF Ahead
<1> QED  BY <1>1, <1>5, <1>6, <1>7, <1>9, <1>10

-----------------------------------------------------------------------------
(* A loopback that is ensured.                                             *)

UniqueVisible(outs) ==
  \A i, j \in DOMAIN outs : ~IsLoop(outs[i].tag) /\ outs[i].tag = outs[j].tag => i = j

UniqueRows(bals) == \A i, j \in DOMAIN bals : bals[i].tag = bals[j].tag => i = j

\* UniqueTags, table by table.
LEMMA UniqueTagsIs ==
  ASSUME NEW T PROVE UniqueTags(T) <=> UniqueRows(T.bals) /\ UniqueVisible(T.outs)
  BY DEF UniqueTags, UniqueRows, UniqueVisible, VisibleOuts

TagsOf(outs) == {o.tag : o \in Range(outs)}

Fresh(b) == [tag |-> Loop(b), dialer |-> None]

EnsuredOuts(outs, b) ==
  LET o == SelectInSeq(outs, LAMBDA x : x.tag = Loop(b))
  IN  IF o = 0 THEN Append(outs, Fresh(b)) ELSE [outs EXCEPT ![o] = Fresh(b)]

\* EnsureLoopback adds the loopback outbound and no other tag.
LEMMA EnsuredOutsIs ==
  ASSUME NEW s \in Seq(Outbound), UniqueVisible(s), NEW b \in Bals
  PROVE  LET d == EnsuredOuts(s, b) IN
         /\ d \in Seq(Outbound) /\ UniqueVisible(d)
         /\ TagsOf(d) = TagsOf(s) \cup {Loop(b)}
         /\ \A x \in Range(d) : x \in Range(s) \/ x.dialer = None
<1> DEFINE I == {i \in 1..Len(s) : s[i].tag = Loop(b)}
           o == IF I # {} THEN Min(I) ELSE 0
           e == Fresh(b)
           d == IF o = 0 THEN Append(s, e) ELSE [s EXCEPT ![o] = e]
<1>1. EnsuredOuts(s, b) = d
  BY DEF EnsuredOuts, SelectInSeq
<1>2. e \in Outbound /\ e.tag = Loop(b) /\ e.dialer = None /\ Loop(b) \in Loops
  BY LoopIs DEF Fresh, Outbound
<1>3. DOMAIN s = 1..Len(s) /\ Len(s) \in Nat /\ \A i \in 1..Len(s) : s[i] \in Outbound
  OBVIOUS
<1>4. (o # 0 => o \in 1..Len(s) /\ s[o].tag = Loop(b)) /\ (o = 0 => I = {})
  <2>1. I \subseteq Nat /\ 0 \notin I
    BY <1>3
  <2>2. (o # 0 => o \in I) /\ (o = 0 => I = {})
    <3> HIDE DEF I
    <3> QED  BY <2>1, MinIs
  <2> QED  BY <2>2
<1> HIDE DEF o, e
<1>5. CASE o = 0
  <2> DEFINE q == Append(s, e)
  <2>1. /\ q \in Seq(Outbound) /\ DOMAIN q = 1..(Len(s) + 1)
        /\ q[Len(s) + 1] = e
        /\ \A i \in 1..Len(s) : q[i] = s[i]
    BY <1>2, <1>3
  <2> HIDE DEF q
  <2>2. UniqueVisible(q)
    <3> SUFFICES ASSUME NEW i \in DOMAIN q, NEW j \in DOMAIN q, ~IsLoop(q[i].tag), q[i].tag = q[j].tag
                 PROVE  i = j
      BY DEF UniqueVisible
    <3>1. i \in 1..Len(s) /\ j \in 1..Len(s)
      BY <1>2, <1>3, <2>1 DEF IsLoop
    <3> QED  BY <1>3, <2>1, <3>1 DEF UniqueVisible
  <2>3. Range(q) = Range(s) \cup {e}
    <3>1. \A i \in DOMAIN q : q[i] \in Range(s) \cup {e}
      BY <1>3, <2>1 DEF Range
    <3>2. \A i \in DOMAIN s : s[i] \in Range(q)
      BY <1>3, <2>1 DEF Range
    <3>3. e \in Range(q)
      BY <1>3, <2>1 DEF Range
    <3> QED  BY <3>1, <3>2, <3>3 DEF Range
  <2>4. d = q
    BY <1>5 DEF q
  <2> HIDE DEF d
  <2> QED  BY <1>1, <1>2, <2>1, <2>2, <2>3, <2>4 DEF TagsOf
<1>6. CASE o # 0
  <2> DEFINE q == [s EXCEPT ![o] = e]
  <2>1. /\ q \in Seq(Outbound) /\ DOMAIN q = 1..Len(s)
        /\ \A i \in 1..Len(s) : q[i] = IF i = o THEN e ELSE s[i]
    BY <1>2, <1>3, <1>4, <1>6
  <2> HIDE DEF q
  <2>2. \A i \in 1..Len(s) : q[i].tag = s[i].tag
    BY <1>2, <1>4, <1>6, <2>1
  <2>3. UniqueVisible(q)
    BY <1>3, <2>1, <2>2 DEF UniqueVisible
  <2>4. TagsOf(q) = TagsOf(s) \cup {Loop(b)}
    <3>1. Loop(b) \in TagsOf(s)
      BY <1>3, <1>4, <1>6 DEF TagsOf, Range
    <3>2. \A i \in DOMAIN q : q[i].tag \in TagsOf(s)
      BY <1>3, <2>1, <2>2 DEF TagsOf, Range
    <3>3. \A i \in DOMAIN s : s[i].tag \in TagsOf(q)
      <4>1. ASSUME NEW i \in DOMAIN s PROVE s[i].tag \in TagsOf(q)
        <5>1. q[i] \in Range(q) /\ q[i].tag = s[i].tag
          BY <1>3, <2>1, <2>2 DEF Range
        <5> QED  BY <5>1 DEF TagsOf
      <4> QED  BY <4>1
    <3> QED  BY <3>1, <3>2, <3>3 DEF TagsOf, Range
  <2>5. \A x \in Range(q) : x \in Range(s) \/ x.dialer = None
    BY <1>2, <1>3, <2>1 DEF Range
  <2>6. d = q
    BY <1>6 DEF q
  <2> HIDE DEF d
  <2> QED  BY <1>1, <2>1, <2>3, <2>4, <2>5, <2>6
<1> QED  BY <1>5, <1>6

EnsuredRules(rules, b) ==
  LET r == SelectInSeq(rules, LAMBDA x : x.in = Loop(b))
      rule == IF r = 0 THEN [in |-> Loop(b), out |-> None, bal |-> b]
                       ELSE [rules[r] EXCEPT !.bal = b]
  IN  InsertLoopRule(IF r = 0 THEN rules ELSE RemoveAt(rules, r), rule)

\* EnsureLoopback adds the hidden rule, in front, and changes no other.
LEMMA EnsuredRulesIs ==
  ASSUME NEW s \in Seq(Rule), NEW b \in Bals,
         \A r \in Range(s) : r.in = Loop(b) => r.bal = b /\ r.out = None
  PROVE  LET d == EnsuredRules(s, b)
             e == [in |-> Loop(b), out |-> None, bal |-> b]
         IN  /\ d \in Seq(Rule) /\ Range(d) = Range(s) \cup {e}
             /\ Cardinality(BareAt(d)) <= Cardinality(BareAt(s))
             /\ Ahead(d, Loop(b))
             /\ \A tag : tag # AnyIn /\ Ahead(s, tag) => Ahead(d, tag)
<1> DEFINE I == {i \in 1..Len(s) : s[i].in = Loop(b)}
           r == IF I # {} THEN Min(I) ELSE 0
           e == [in |-> Loop(b), out |-> None, bal |-> b]
           rule == IF r = 0 THEN e ELSE [s[r] EXCEPT !.bal = b]
           rest == IF r = 0 THEN s ELSE RemoveAt(s, r)
           d == InsertLoopRule(rest, rule)
<1>1. EnsuredRules(s, b) = d
  BY DEF EnsuredRules, SelectInSeq
<1>2. e \in Rule /\ e.in = Loop(b) /\ e.in # AnyIn /\ e.bal = b /\ e.bal # None
  BY LoopIs DEF Rule
<1>3. DOMAIN s = 1..Len(s) /\ Len(s) \in Nat /\ \A i \in 1..Len(s) : s[i] \in Rule /\ s[i] \in Range(s)
  BY DEF Range
<1>4. (r # 0 => r \in 1..Len(s) /\ s[r].in = Loop(b)) /\ (r = 0 => I = {})
  <2>1. I \subseteq Nat /\ 0 \notin I
    BY <1>3
  <2>2. (r # 0 => r \in I) /\ (r = 0 => I = {})
    <3> HIDE DEF I
    <3> QED  BY <2>1, MinIs
  <2> QED  BY <2>2
<1> HIDE DEF r
<1>5. rule = e /\ (r # 0 => s[r] = e)
  <2>1. CASE r = 0
    BY <2>1
  <2>2. CASE r # 0
    <3>1. s[r] \in Rule /\ s[r].in = Loop(b) /\ s[r].bal = b /\ s[r].out = None
      BY <1>3, <1>4, <2>2
    <3>2. s[r] = e /\ [s[r] EXCEPT !.bal = b] = e
      BY <3>1 DEF Rule
    <3> QED  BY <2>2, <3>2
  <2> QED  BY <2>1, <2>2
<1>6. /\ rest \in Seq(Rule) /\ Cardinality(BareAt(rest)) <= Cardinality(BareAt(s))
      /\ Range(s) \cup {e} = Range(rest) \cup {e}
      /\ \A tag : tag # Loop(b) /\ Ahead(s, tag) => Ahead(rest, tag)
      /\ Cardinality(BareAt(rest)) \in Nat /\ Cardinality(BareAt(s)) \in Nat
  <2>1. CASE r = 0
    <3>1. \A k \in BareAt(s) : [i \in BareAt(s) |-> i][k] \in BareAt(s)
      OBVIOUS
    <3>2. Cardinality(BareAt(s)) \in Nat
      <4>1. BareAt(s) \subseteq 1..Len(s)
        BY DEF BareAt
      <4> QED  BY <4>1, <1>3, SeqDomain, FS_Subset, FS_CardinalityType
    <3>3. rest = s
      BY <2>1
    <3> QED  BY <3>2, <3>3
  <2>2. CASE r # 0
    <3>0. r \in DOMAIN s
      BY <1>3, <1>4, <2>2
    <3>1. rest \in Seq(Rule) /\ \E h : Picks(rest, s, h, DOMAIN s \ {r})
      BY <2>2, <3>0, RemovePicks
    <3>2. PICK h : Picks(rest, s, h, DOMAIN s \ {r})
      BY <3>1
    <3> HIDE DEF rest
    <3>3. Cardinality(BareAt(rest)) <= Cardinality(BareAt(s))
      BY <3>1, <3>2, BarePicks
    <3>4. Range(s) \cup {e} = Range(rest) \cup {e}
      <4>1. Range(rest) = {s[i] : i \in DOMAIN s \ {r}}
        BY <3>2, PicksRange
      <4> QED  BY <1>5, <2>2, <3>0, <4>1 DEF Range
    <3>5. ASSUME NEW tag, tag # Loop(b), Ahead(s, tag) PROVE Ahead(rest, tag)
      <4>1. \A i \in DOMAIN s : s[i].in = tag => i \in DOMAIN s \ {r}
        BY <1>4, <2>2, <3>5
      <4> QED  BY <3>1, <3>2, <3>5, <4>1, AheadPicks
    <3>6. Cardinality(BareAt(rest)) \in Nat /\ Cardinality(BareAt(s)) \in Nat
      <4>1. BareAt(s) \subseteq DOMAIN s /\ BareAt(rest) \subseteq DOMAIN rest
        BY DEF BareAt
      <4> QED  BY <4>1, <3>1, SeqDomain, FS_Subset, FS_CardinalityType
    <3> QED  BY <3>1, <3>3, <3>4, <3>5, <3>6
  <2> QED  BY <2>1, <2>2
<1> HIDE DEF rule, rest, e
<1>7. /\ d \in Seq(Rule) /\ Range(d) = Range(rest) \cup {e}
      /\ Cardinality(BareAt(d)) <= Cardinality(BareAt(rest))
      /\ Ahead(d, Loop(b))
      /\ \A tag : tag # AnyIn /\ Ahead(rest, tag) => Ahead(d, tag)
  BY <1>2, <1>5, <1>6, InsertLoopRuleIs
<1>8. Cardinality(BareAt(d)) \in Nat
  <2>1. BareAt(d) \subseteq DOMAIN d
    BY DEF BareAt
  <2> QED  BY <2>1, <1>7, SeqDomain, FS_Subset, FS_CardinalityType
<1> HIDE DEF d
<1>9. Cardinality(BareAt(d)) <= Cardinality(BareAt(s))
  BY <1>6, <1>7, <1>8
<1>10. ASSUME NEW tag, tag # AnyIn, Ahead(s, tag) PROVE Ahead(d, tag)
  <2>1. CASE tag = Loop(b)
    BY <1>7, <2>1
  <2>2. CASE tag # Loop(b)
    BY <1>6, <1>7, <1>10, <2>2
  <2> QED  BY <2>1, <2>2
<1> QED  BY <1>1, <1>6, <1>7, <1>9, <1>10 DEF e

\* The tags of a template are those of its outbounds.
LEMMA TagsIs == ASSUME NEW T PROVE OutboundTags(T) = TagsOf(T.outs)
  BY DEF OutboundTags, TagsOf

\* After EnsureLoopback the loopback is there and its rule leads.
LEMMA EnsureLoopbackIs ==
  ASSUME NEW T, Sound(T), NEW b \in Bals
  PROVE  LET E == EnsureLoopback(T, b) IN
         /\ Sound(E) /\ E.bals = T.bals /\ E.obs = T.obs
         /\ OutboundTags(E) = OutboundTags(T) \cup {Loop(b)} /\ Ins(E) = Ins(T) \cup {Loop(b)}
         /\ Destinationless(E) <= Destinationless(T)
         /\ Ahead(E.rules, Loop(b))
         /\ \A tag \in Loops : Ahead(T.rules, tag) => Ahead(E.rules, tag)
<1> DEFINE o == EnsuredOuts(T.outs, b)
           r == EnsuredRules(T.rules, b)
           e == [in |-> Loop(b), out |-> None, bal |-> b]
           E == Make(o, T.bals, r, T.obs)
<1>1. T \in Template /\ UniqueRows(T.bals) /\ UniqueVisible(T.outs)
  BY UniqueTagsIs DEF Sound
<1>2. /\ T.outs \in Seq(Outbound) /\ T.bals \in Seq(Balancer) /\ T.rules \in Seq(Rule)
      /\ T.obs \in Observer
  BY <1>1, Fields
<1>3. EnsureLoopback(T, b) = E
  <2>1. EnsureLoopback(T, b) = [T EXCEPT !.outs = o, !.rules = r]
    BY DEF EnsureLoopback, EnsuredOuts, EnsuredRules, Fresh
  <2> HIDE DEF o, r
  <2> QED  BY <1>1, <2>1, Rewrites, Zenon
<1>4. /\ o \in Seq(Outbound) /\ UniqueVisible(o)
      /\ TagsOf(o) = TagsOf(T.outs) \cup {Loop(b)}
      /\ \A x \in Range(o) : x \in Range(T.outs) \/ x.dialer = None
  BY <1>1, <1>2, EnsuredOutsIs
<1>5. /\ r \in Seq(Rule) /\ Range(r) = Range(T.rules) \cup {e}
      /\ Cardinality(BareAt(r)) <= Cardinality(BareAt(T.rules))
      /\ Ahead(r, Loop(b))
      /\ \A tag : tag # AnyIn /\ Ahead(T.rules, tag) => Ahead(r, tag)
  <2>1. \A x \in Range(T.rules) : x.in = Loop(b) => x.bal = b /\ x.out = None
    BY LoopIs DEF Sound, HiddenRulesLead, IsLoop
  <2> QED  BY <1>2, <2>1, EnsuredRulesIs
<1> HIDE DEF o, r
<1>6. E \in Template /\ E.outs = o /\ E.bals = T.bals /\ E.rules = r /\ E.obs = T.obs
  BY <1>2, <1>4, <1>5, MakeIs
<1> HIDE DEF E
<1>7. e.in = Loop(b) /\ e.out = None /\ e.bal = b /\ Loop(b) \in Loops /\ Target(Loop(b)) = b
  BY LoopIs
<1> HIDE DEF e
<1>8. OutboundTags(E) = OutboundTags(T) \cup {Loop(b)} /\ BalancerTags(E) = BalancerTags(T)
  BY <1>4, <1>6, TagsIs DEF BalancerTags
<1>9. Ins(E) = Ins(T) \cup {Loop(b)}
  BY <1>5, <1>6, <1>7 DEF Ins
<1>10. RulesResolve(E)
  BY <1>5, <1>6, <1>7, <1>8 DEF Sound, RulesResolve, IsLoop
<1>11. OutboundRefsResolve(E)
  BY <1>4, <1>6, <1>8, LoopIs DEF Sound, OutboundRefsResolve
<1>12. HiddenRulesLead(E)
  BY <1>5, <1>6, <1>7, <1>8 DEF Sound, HiddenRulesLead
<1>13. UniqueTags(E)
  BY <1>1, <1>4, <1>6, UniqueTagsIs
<1>14. Sound(E)
  BY <1>6, <1>10, <1>11, <1>12, <1>13 DEF Sound
<1>15. Destinationless(E) <= Destinationless(T)
  BY <1>5, <1>6 DEF Destinationless, BareAt
<1> QED  BY <1>3, <1>5, <1>6, <1>8, <1>9, <1>14, <1>15, LoopIs

-----------------------------------------------------------------------------
(* Loopbacks that are removed.                                             *)

\* Loopbacks go with their rules, and nothing else does.
LEMMA RemoveLoopbacksIs ==
  ASSUME NEW T, Sound(T), NEW gone, gone \subseteq Loops
  PROVE  LET E == RemoveLoopbacks(T, gone) IN
         /\ Sound(E) /\ E.bals = T.bals /\ E.obs = T.obs
         /\ OutboundTags(E) = OutboundTags(T) \ gone /\ Ins(E) = Ins(T) \ gone
         /\ Destinationless(E) <= Destinationless(T)
         /\ \A tag \in Loops \ gone : Ahead(T.rules, tag) => Ahead(E.rules, tag)
<1> DEFINE og == {i \in DOMAIN T.outs : T.outs[i].tag \in gone}
           rg == {i \in DOMAIN T.rules : T.rules[i].in \in gone}
           o == DropAt(T.outs, og)
           r == DropAt(T.rules, rg)
           E == Make(o, T.bals, r, T.obs)
<1>1. T \in Template /\ UniqueRows(T.bals) /\ UniqueVisible(T.outs)
  BY UniqueTagsIs DEF Sound
<1>2. /\ T.outs \in Seq(Outbound) /\ T.bals \in Seq(Balancer) /\ T.rules \in Seq(Rule)
      /\ T.obs \in Observer
  BY <1>1, Fields
<1>3. RemoveLoopbacks(T, gone) = E
  <2>1. RemoveLoopbacks(T, gone) = [T EXCEPT !.outs = o, !.rules = r]
    BY DEF RemoveLoopbacks
  <2> HIDE DEF o, r
  <2> QED  BY <1>1, <2>1, Rewrites, Zenon
<1>4. o \in Seq(Outbound) /\ r \in Seq(Rule)
  BY <1>2, DropIs
<1>5. PICK g : Picks(o, T.outs, g, DOMAIN T.outs \ og)
  BY <1>2, DropIs
<1>6. PICK h : Picks(r, T.rules, h, DOMAIN T.rules \ rg)
  BY <1>2, DropIs
<1> HIDE DEF o, r
<1>7. Range(o) = {x \in Range(T.outs) : x.tag \notin gone}
  <2>1. Range(o) = {T.outs[i] : i \in DOMAIN T.outs \ og}
    BY <1>5, PicksRange
  <2> QED  BY <2>1 DEF Range
<1>8. Range(r) = {x \in Range(T.rules) : x.in \notin gone}
  <2>1. Range(r) = {T.rules[i] : i \in DOMAIN T.rules \ rg}
    BY <1>6, PicksRange
  <2> QED  BY <2>1 DEF Range
<1>9. Cardinality(BareAt(r)) <= Cardinality(BareAt(T.rules))
  <2>1. DOMAIN T.rules \ rg \subseteq DOMAIN T.rules
    OBVIOUS
  <2> HIDE DEF rg
  <2> QED  BY <1>2, <1>4, <1>6, <2>1, BarePicks
<1>10. ASSUME NEW tag \in Loops \ gone, Ahead(T.rules, tag) PROVE Ahead(r, tag)
  <2>1. /\ DOMAIN T.rules \ rg \subseteq DOMAIN T.rules
        /\ \A i \in DOMAIN T.rules : T.rules[i].in = tag => i \in DOMAIN T.rules \ rg
    OBVIOUS
  <2> HIDE DEF rg
  <2> QED  BY <1>2, <1>4, <1>6, <1>10, <2>1, AheadPicks
<1>11. UniqueVisible(o)
  <2> HIDE DEF og
  <2> SUFFICES ASSUME NEW i \in DOMAIN o, NEW j \in DOMAIN o, ~IsLoop(o[i].tag), o[i].tag = o[j].tag
               PROVE  i = j
    BY DEF UniqueVisible
  <2>1. o[i] = T.outs[g[i]] /\ o[j] = T.outs[g[j]] /\ g[i] \in DOMAIN T.outs /\ g[j] \in DOMAIN T.outs
    BY <1>5 DEF Picks
  <2>2. g[i] = g[j]
    BY <1>1, <2>1 DEF UniqueVisible
  <2> DEFINE K == DOMAIN T.outs \ og
  <2>3. K \subseteq Nat /\ Picks(o, T.outs, g, K)
    BY <1>2, <1>5
  <2> HIDE DEF K
  <2>4. /\ \A k, m \in DOMAIN o : g[k] = g[m] => k = m
        /\ g \in Injection(DOMAIN o, K)
    BY <1>4, <2>3, PicksInjective
  <2> QED  BY <2>2, <2>4
<1> HIDE DEF og, rg
<1>12. E \in Template /\ E.outs = o /\ E.bals = T.bals /\ E.rules = r /\ E.obs = T.obs
  BY <1>2, <1>4, MakeIs
<1> HIDE DEF E
<1>13. OutboundTags(E) = OutboundTags(T) \ gone /\ BalancerTags(E) = BalancerTags(T)
  BY <1>7, <1>12 DEF OutboundTags, BalancerTags
<1>14. Ins(E) = Ins(T) \ gone
  BY <1>8, <1>12 DEF Ins
<1>15. OutboundTags(T) \cap Outs \subseteq OutboundTags(E)
  BY <1>13, LoopIs
<1>16. RulesResolve(E)
  BY <1>8, <1>12, <1>13, <1>15 DEF Sound, RulesResolve
<1>17. OutboundRefsResolve(E)
  <2>1. /\ \A b \in Range(E.bals) : b.sel \subseteq Outs
        /\ Warp \in Outs /\ Direct \in Outs
    BY <1>1, <1>12, Elements, TagsAssumption
  <2>2. \A x \in Outs : x \in OutboundTags(T) \cup {Warp, Direct} => x \in OutboundTags(E) \cup {Warp, Direct}
    BY <1>15
  <2> QED  BY <1>7, <1>12, <2>1, <2>2 DEF Sound, OutboundRefsResolve
<1>18. HiddenRulesLead(E)
  BY <1>8, <1>12, <1>13 DEF Sound, HiddenRulesLead
<1>19. UniqueTags(E)
  BY <1>1, <1>11, <1>12, UniqueTagsIs
<1>20. Sound(E)
  BY <1>12, <1>16, <1>17, <1>18, <1>19 DEF Sound
<1>21. Destinationless(E) <= Destinationless(T)
  BY <1>9, <1>12 DEF Destinationless, BareAt
<1> QED  BY <1>3, <1>10, <1>12, <1>13, <1>14, <1>20, <1>21

-----------------------------------------------------------------------------
(* What a save writes.                                                     *)

\* The loopbacks of the first n balancers are ensured in E.
Ensured(T, E, n) ==
  /\ Sound(E) /\ E.bals = T.bals /\ E.obs = T.obs /\ Ins(T) \subseteq Ins(E)
  /\ Destinationless(E) \in Nat /\ Destinationless(E) <= Destinationless(T)
  /\ \A m \in 1..n : IsLoop(T.bals[m].fb) =>
       T.bals[m].fb \in OutboundTags(E) /\ Ahead(E.rules, T.bals[m].fb)

\* Rules without a destination can be counted.
LEMMA DestinationlessType ==
  ASSUME NEW T \in Template PROVE Destinationless(T) \in Nat
<1>1. T.rules \in Seq(Rule) /\ BareAt(T.rules) \subseteq DOMAIN T.rules
  BY Fields DEF BareAt
<1>2. IsFiniteSet(DOMAIN T.rules)
  BY <1>1, SeqDomain
<1>3. Cardinality(BareAt(T.rules)) \in Nat
  BY <1>1, <1>2, FS_Subset, FS_CardinalityType
<1> QED  BY <1>3 DEF Destinationless, BareAt

\* A save gives every fallback to a balancer its loopback.
LEMMA EnsureMissingIs ==
  ASSUME NEW T, Sound(T)
  PROVE  Ensured(T, EnsureMissingLoopbacks(T), Len(T.bals))
<1> DEFINE N == Len(T.bals)
           V == {E \in Template : Sound(E)}
           loops(n) == IsLoop(T.bals[n].fb)
           to(n) == Target(T.bals[n].fb)
           F == [n \in 1..N |-> [E \in V |-> IF loops(n) THEN EnsureLoopback(E, to(n)) ELSE E]]
           Is(g) == g = [n \in 0..N |-> IF n = 0 THEN T
                          ELSE IF IsLoop(T.bals[n].fb) THEN EnsureLoopback(g[n - 1], Target(T.bals[n].fb))
                          ELSE g[n - 1]]
<1>1. T \in Template /\ N \in Nat /\ DOMAIN T.bals = 1..N /\ T \in V
  BY Fields DEF Sound
<1>2. \A n \in 1..N : loops(n) => to(n) \in Bals /\ Loop(to(n)) = T.bals[n].fb
  BY LoopIs DEF IsLoop
<1>3. ASSUME NEW n \in 1..N, NEW E \in V PROVE F[n][E] \in V
  <2>1. F[n][E] = IF loops(n) THEN EnsureLoopback(E, to(n)) ELSE E
    OBVIOUS
  <2>2. ASSUME loops(n) PROVE EnsureLoopback(E, to(n)) \in V
    <3>1. Sound(EnsureLoopback(E, to(n)))
      BY <1>2, <2>2, EnsureLoopbackIs
    <3> QED  BY <3>1 DEF Sound
  <2> QED  BY <2>1, <2>2
<1>4. PICK g0 : Carries(g0, N, V, T, F)
  <2> HIDE DEF F, N, V
  <2> QED  BY <1>1, <1>3, Chain
<1>5. Is(g0)
  <2>1. ASSUME NEW n \in 1..N PROVE n - 1 \in 0..N /\ g0[n - 1] \in V
    BY <1>1, <1>4 DEF Carries
  <2>2. ASSUME NEW n \in 0..N
        PROVE  g0[n] = IF n = 0 THEN T
                       ELSE IF loops(n) THEN EnsureLoopback(g0[n - 1], to(n)) ELSE g0[n - 1]
    <3>1. CASE n = 0
      BY <1>4, <3>1 DEF Carries
    <3>2. CASE n # 0
      <4> HIDE DEF F
      <4>1. n \in 1..N /\ g0[n] = F[n][g0[n - 1]]
        BY <1>1, <1>4, <3>2 DEF Carries
      <4> HIDE DEF V
      <4> USE DEF F
      <4> QED  BY <2>1, <3>2, <4>1
    <3> QED  BY <3>1, <3>2
  <2>3. g0 = [n \in 0..N |-> g0[n]]
    BY <1>4 DEF Carries
  <2> QED  BY <2>2, <2>3
<1> DEFINE g == CHOOSE x : Is(x)
<1>6. Is(g)
  BY <1>5
<1>7. EnsureMissingLoopbacks(T) = g[N]
  BY Zenon DEF EnsureMissingLoopbacks
<1> DEFINE G == {n \in 0..N : Ensured(T, g[n], n)}
<1> HIDE DEF g, F, V
<1>8. 0 \in G
  <2>1. g[0] = T
    BY <1>1, <1>6
  <2>2. Destinationless(T) \in Nat
    BY <1>1, DestinationlessType
  <2>3. Ensured(T, T, 0)
    BY <2>2 DEF Ensured
  <2> QED  BY <1>1, <2>1, <2>3
<1>9. ASSUME NEW n \in 0..N, n \in G, n + 1 \in 0..N PROVE n + 1 \in G
  <2> DEFINE p == g[n]
             q == g[n + 1]
  <2>1. n + 1 # 0 /\ n + 1 \in 1..N /\ (n + 1) - 1 = n
    BY <1>1, <1>9
  <2>2. q = IF loops(n + 1) THEN EnsureLoopback(p, to(n + 1)) ELSE p
    BY <1>6, <1>9, <2>1
  <2>3. Ensured(T, p, n)
    BY <1>9
  <2>4. \A m \in 1..(n + 1) : m \in 1..n \/ m = n + 1
    BY <1>1
  <2> HIDE DEF p, q
  <2>5. CASE ~loops(n + 1)
    <3>1. Ensured(T, p, n + 1)
      BY <2>3, <2>4, <2>5 DEF Ensured
    <3> QED  BY <1>9, <2>2, <2>5, <3>1 DEF q
  <2>6. CASE loops(n + 1)
    <3> DEFINE c == to(n + 1)
    <3>1. c \in Bals /\ Loop(c) = T.bals[n + 1].fb /\ q = EnsureLoopback(p, c)
      BY <1>2, <2>1, <2>2, <2>6
    <3> HIDE DEF c
    <3>2. /\ Sound(q) /\ q.bals = p.bals /\ q.obs = p.obs
          /\ OutboundTags(q) = OutboundTags(p) \cup {Loop(c)} /\ Ins(q) = Ins(p) \cup {Loop(c)}
          /\ Destinationless(q) <= Destinationless(p)
          /\ Ahead(q.rules, Loop(c))
          /\ \A tag \in Loops : Ahead(p.rules, tag) => Ahead(q.rules, tag)
      BY <2>3, <3>1, EnsureLoopbackIs DEF Ensured
    <3>3. Destinationless(q) \in Nat /\ Destinationless(T) \in Nat
      BY <1>1, <3>2, DestinationlessType DEF Sound
    <3>4. Destinationless(q) <= Destinationless(T)
      BY <2>3, <3>2, <3>3 DEF Ensured
    <3>5. ASSUME NEW m \in 1..(n + 1), IsLoop(T.bals[m].fb)
          PROVE  T.bals[m].fb \in OutboundTags(q) /\ Ahead(q.rules, T.bals[m].fb)
      BY <2>3, <2>4, <3>1, <3>2, <3>5 DEF Ensured, IsLoop
    <3>6. Ensured(T, q, n + 1)
      BY <2>3, <3>2, <3>3, <3>4, <3>5 DEF Ensured
    <3> QED  BY <1>9, <3>6 DEF q
  <2> QED  BY <2>5, <2>6
<1>10. N \in G
  <2> HIDE DEF G
  <2>1. 0..N \subseteq G
    BY <1>1, <1>8, <1>9, UpTo
  <2> QED  BY <1>1, <2>1
<1> QED  BY <1>7, <1>10

\* A normalised template is wired, and every row leads where it did.
LEMMA NormaliseIs ==
  ASSUME NEW T, Sound(T)
  PROVE  LET E == Normalise(T) IN
         /\ Sound(E) /\ E.bals = T.bals /\ E.obs = T.obs
         /\ Destinationless(E) <= Destinationless(T)
         /\ FallbacksWired(E) /\ NoOrphanLoopback(E)
         /\ \A i, j \in DOMAIN T.bals : Leads(T, i, j) => Leads(E, i, j)
<1> DEFINE M == EnsureMissingLoopbacks(T)
           gone == {tag \in OutboundTags(M) : IsLoop(tag) /\ ~LoopbackInUse(M, Target(tag))}
           E == RemoveLoopbacks(M, gone)
<1>1. Ensured(T, M, Len(T.bals))
  BY EnsureMissingIs
<1>2. Normalise(T) = E
  BY DEF Normalise, CleanupOrphanedLoopbacks
<1>3. gone \subseteq Loops
  BY DEF IsLoop
<1> HIDE DEF M
<1>4. ASSUME NEW tag \in gone, NEW b \in Range(T.bals) PROVE b.fb # tag
  BY <1>1, <1>4, LoopIs DEF Ensured, LoopbackInUse, IsLoop
<1>5. ASSUME NEW tag \in OutboundTags(M) \ gone, IsLoop(tag) PROVE LoopbackInUse(M, Target(tag))
  BY <1>5
<1> HIDE DEF gone
<1>6. /\ Sound(E) /\ E.bals = M.bals /\ E.obs = M.obs
      /\ OutboundTags(E) = OutboundTags(M) \ gone /\ Ins(E) = Ins(M) \ gone
      /\ Destinationless(E) <= Destinationless(M)
      /\ \A tag \in Loops \ gone : Ahead(M.rules, tag) => Ahead(E.rules, tag)
  BY <1>1, <1>3, RemoveLoopbacksIs DEF Ensured
<1> HIDE DEF E
<1>7. Destinationless(E) <= Destinationless(T)
  <2>1. Destinationless(E) \in Nat /\ Destinationless(M) \in Nat /\ Destinationless(T) \in Nat
    BY <1>1, <1>6, DestinationlessType DEF Sound, Ensured
  <2> QED  BY <1>1, <1>6, <2>1 DEF Ensured
<1>8. FallbacksWired(E)
  <2> SUFFICES ASSUME NEW b \in Range(E.bals), IsLoop(b.fb)
               PROVE  /\ b.fb \in OutboundTags(E)
                      /\ \E k \in DOMAIN E.rules :
                           /\ E.rules[k].in = b.fb /\ E.rules[k].bal = Target(b.fb)
                           /\ \A j \in 1..(k - 1) : E.rules[j].in \notin {AnyIn, b.fb}
    BY DEF FallbacksWired
  <2>1. b \in Range(T.bals) /\ E.bals = T.bals
    BY <1>1, <1>6 DEF Ensured
  <2>2. b.fb \in Loops \ gone
    BY <1>4, <2>1 DEF IsLoop
  <2>3. b.fb \in OutboundTags(M) /\ Ahead(M.rules, b.fb)
    <3>1. PICK m \in DOMAIN T.bals : b = T.bals[m]
      BY <2>1 DEF Range
    <3>2. DOMAIN T.bals = 1..Len(T.bals)
      BY Fields DEF Sound
    <3> QED  BY <1>1, <3>1, <3>2 DEF Ensured
  <2>4. b.fb \in OutboundTags(E) /\ Ahead(E.rules, b.fb)
    BY <1>6, <2>2, <2>3
  <2>5. PICK k \in DOMAIN E.rules : E.rules[k].in = b.fb /\ \A j \in 1..(k - 1) : E.rules[j].in # AnyIn
    BY <2>4 DEF Ahead
  <2> DEFINE I == {i \in DOMAIN E.rules : E.rules[i].in = b.fb}
  <2>6. E \in Template /\ DOMAIN E.rules = 1..Len(E.rules) /\ Len(E.rules) \in Nat
    BY <1>6, Fields DEF Sound
  <2>7. PICK m \in I : \A i \in I : m <= i
    <3>1. I \subseteq Nat /\ I # {}
      BY <2>5, <2>6
    <3> HIDE DEF I
    <3> QED  BY <3>1, LeastNumber
  <2>8. m <= k /\ m \in 1..Len(E.rules) /\ k \in 1..Len(E.rules)
    BY <2>5, <2>6, <2>7
  <2>9. \A j \in 1..(m - 1) : E.rules[j].in \notin {AnyIn, b.fb}
    <3>1. ASSUME NEW j \in 1..(m - 1) PROVE E.rules[j].in \notin {AnyIn, b.fb}
      <4>1. j \in 1..(k - 1) /\ j \in DOMAIN E.rules /\ ~(m <= j)
        BY <2>6, <2>8
      <4> QED  BY <2>5, <2>7, <4>1
    <3> QED  BY <3>1
  <2>10. E.rules[m].bal = Target(b.fb)
    BY <1>6, <2>6, <2>7, Elements DEF Sound, HiddenRulesLead
  <2> QED  BY <2>4, <2>7, <2>9, <2>10
<1>9. NoOrphanLoopback(E)
  <2>1. \A tag \in OutboundTags(E) : IsLoop(tag) => LoopbackInUse(E, Target(tag))
    BY <1>5, <1>6 DEF LoopbackInUse
  <2>2. \A r \in Range(E.rules) : IsLoop(r.in) => r.in \in OutboundTags(E)
    BY <1>6 DEF Sound, HiddenRulesLead
  <2> QED  BY <2>1, <2>2 DEF NoOrphanLoopback
<1>10. ASSUME NEW i \in DOMAIN T.bals, NEW j \in DOMAIN T.bals, Leads(T, i, j) PROVE Leads(E, i, j)
  <2>1. E.bals = T.bals /\ T.bals[i] \in Range(T.bals)
    BY <1>1, <1>6 DEF Ensured, Range
  <2>2. T.bals[i].fb \in Ins(M) /\ T.bals[i].fb \notin gone
    BY <1>1, <1>4, <1>10, <2>1 DEF Ensured, Leads
  <2> QED  BY <1>6, <1>10, <2>1, <2>2 DEF Leads
<1>11. E.bals = T.bals /\ E.obs = T.obs
  BY <1>1, <1>6 DEF Ensured
<1> QED  BY <1>2, <1>6, <1>7, <1>8, <1>9, <1>10, <1>11

-----------------------------------------------------------------------------
(* The walk along the fallbacks.                                           *)

Closed(next, S) == \A b \in S : next[b] \in S

\* It goes round at most once, so it ends with everything that can be reached.
LEMMA WalkIs ==
  ASSUME NEW next, NEW B, B \subseteq Bals, B \subseteq DOMAIN next, Closed(next, B), NEW s \in B
  PROVE  Walk(next, s) \subseteq B /\ s \in Walk(next, s) /\ Closed(next, Walk(next, s))
<1> DEFINE N == Cardinality(Bals)
           V == SUBSET B
           After(X) == X \cup {next[b] : b \in X \cap DOMAIN next}
           F == [n \in 1..N |-> [X \in V |-> After(X)]]
           Is(g) == g = [n \in 0..N |-> IF n = 0 THEN {s}
                          ELSE g[n - 1] \cup {next[b] : b \in g[n - 1] \cap DOMAIN next}]
<1>1. N \in Nat /\ IsFiniteSet(Bals)
  BY TagsAssumption, FS_CardinalityType
<1>2. \A X \in V : After(X) \in V
  BY DEF Closed
<1>3. ASSUME NEW n \in 1..N, NEW X \in V PROVE F[n][X] \in V
  BY <1>2
<1>4. PICK g0 : Carries(g0, N, V, {s}, F)
  <2>1. {s} \in V
    OBVIOUS
  <2> HIDE DEF F, N, V
  <2> QED  BY <1>1, <1>3, <2>1, Chain
<1>5. Is(g0)
  <2>1. ASSUME NEW n \in 1..N PROVE n - 1 \in 0..N /\ g0[n - 1] \in V
    BY <1>1, <1>4 DEF Carries
  <2>2. ASSUME NEW n \in 0..N PROVE g0[n] = IF n = 0 THEN {s} ELSE After(g0[n - 1])
    <3>1. CASE n = 0
      BY <1>4, <3>1 DEF Carries
    <3>2. CASE n # 0
      <4> HIDE DEF F
      <4>1. n \in 1..N /\ g0[n] = F[n][g0[n - 1]]
        BY <1>1, <1>4, <3>2 DEF Carries
      <4> HIDE DEF V, After
      <4> USE DEF F
      <4> QED  BY <2>1, <3>2, <4>1
    <3> QED  BY <3>1, <3>2
  <2>3. g0 = [n \in 0..N |-> g0[n]]
    BY <1>4 DEF Carries
  <2> QED  BY <2>2, <2>3
<1> DEFINE g == CHOOSE x : Is(x)
<1>6. Is(g)
  BY <1>5
<1>7. Walk(next, s) = g[N]
  BY Zenon DEF Walk
<1> DEFINE P(n) == /\ g[n] \subseteq B /\ s \in g[n]
                   /\ Closed(next, g[n]) \/ Cardinality(g[n]) >= n + 1
           G == {n \in 0..N : P(n)}
<1> HIDE DEF g, F, V
<1>8. 0 \in G
  <2>1. g[0] = {s}
    BY <1>1, <1>6
  <2>2. Cardinality({s}) = 1
    BY FS_Singleton
  <2> QED  BY <1>1, <2>1, <2>2
<1>9. ASSUME NEW n \in 0..N, n \in G, n + 1 \in 0..N PROVE n + 1 \in G
  <2> DEFINE X == g[n]
             Y == g[n + 1]
  <2>1. n + 1 # 0 /\ (n + 1) - 1 = n
    BY <1>1
  <2>2. Y = X \cup {next[b] : b \in X \cap DOMAIN next}
    BY <1>6, <1>9, <2>1
  <2>3. X \subseteq B /\ s \in X
    BY <1>9
  <2> HIDE DEF X, Y
  <2>4. Y \subseteq B /\ s \in Y
    BY <2>2, <2>3 DEF Closed
  <2>5. CASE Closed(next, X)
    <3>1. Y = X
      BY <2>2, <2>5 DEF Closed
    <3> QED  BY <1>9, <2>4, <2>5, <3>1 DEF X, Y
  <2>6. CASE ~Closed(next, X)
    <3>1. PICK b \in X : next[b] \notin X
      BY <2>6 DEF Closed
    <3>2. IsFiniteSet(X) /\ IsFiniteSet(Y) /\ X \cup {next[b]} \subseteq Y
      BY <1>1, <2>2, <2>3, <2>4, <3>1, FS_Subset
    <3>3. Cardinality(X \cup {next[b]}) = Cardinality(X) + 1
      BY <3>1, <3>2, FS_AddElement
    <3>4. Cardinality(X \cup {next[b]}) <= Cardinality(Y)
      BY <3>2, FS_Subset
    <3>5. Cardinality(X) \in Nat /\ Cardinality(Y) \in Nat
      BY <3>2, FS_CardinalityType
    <3>6. Cardinality(X) >= n + 1
      BY <1>9, <2>6 DEF X
    <3>7. Cardinality(Y) >= (n + 1) + 1
      BY <1>1, <3>3, <3>4, <3>5, <3>6
    <3> QED  BY <1>9, <2>4, <3>7 DEF Y
  <2> QED  BY <2>5, <2>6
<1>10. N \in G
  <2> HIDE DEF G
  <2>1. 0..N \subseteq G
    BY <1>1, <1>8, <1>9, UpTo
  <2> QED  BY <1>1, <2>1
<1>11. ~(Cardinality(g[N]) >= N + 1)
  <2>1. g[N] \subseteq Bals
    BY <1>10
  <2>2. Cardinality(g[N]) <= N /\ Cardinality(g[N]) \in Nat
    BY <1>1, <2>1, FS_Subset, FS_CardinalityType
  <2> HIDE DEF N
  <2> QED  BY <1>1, <2>2
<1> QED  BY <1>7, <1>10, <1>11

\* Where fallbacks go round, some balancer is met again on the walk from it.
LEMMA CycleMet ==
  ASSUME NEW next, NEW B, B \subseteq Bals, B \subseteq DOMAIN next, Closed(next, B), B # {}
  PROVE  \E b \in B : b \in Walk(next, next[b])
<1> DEFINE Rounds == {X \in SUBSET B : X # {} /\ Closed(next, X)}
           Sizes == {Cardinality(X) : X \in Rounds}
<1>1. IsFiniteSet(B)
  BY TagsAssumption, FS_Subset
<1>2. ASSUME NEW X \in Rounds PROVE IsFiniteSet(X) /\ Cardinality(X) \in Nat
  BY <1>1, FS_Subset, FS_CardinalityType
<1>3. Sizes \subseteq Nat
  BY <1>2
<1>4. B \in Rounds
  OBVIOUS
<1>5. PICK n \in Sizes : \A m \in Sizes : n <= m
  <2>1. Sizes # {}
    BY <1>4
  <2> HIDE DEF Sizes
  <2> QED  BY <1>3, <2>1, LeastNumber
<1>6. PICK C \in Rounds : Cardinality(C) = n
  BY <1>5
<1>7. PICK b \in C : TRUE
  BY <1>6
<1> DEFINE W == Walk(next, next[b])
<1>8. W \subseteq C /\ next[b] \in W /\ Closed(next, W)
  <2>1. C \subseteq Bals /\ C \subseteq DOMAIN next /\ Closed(next, C) /\ next[b] \in C
    BY <1>6, <1>7 DEF Closed
  <2> QED  BY <2>1, WalkIs
<1> HIDE DEF W
<1>9. W \in Rounds
  BY <1>6, <1>8
<1>10. Cardinality(W) <= Cardinality(C) /\ (Cardinality(W) = Cardinality(C) => W = C)
  BY <1>2, <1>6, <1>8, FS_Subset
<1>11. n <= Cardinality(W)
  BY <1>5, <1>9
<1>12. W = C
  BY <1>2, <1>6, <1>9, <1>10, <1>11
<1> QED  BY <1>6, <1>7, <1>12 DEF W

\* What detectBalancerCycles does not find is not there.
LEMMA NoCycle ==
  ASSUME NEW T \in Template, UniqueTags(T), DetectCycles(T) = {}
  PROVE  NoFallbackCycle(T)
<1> SUFFICES ASSUME NEW S \in (SUBSET DOMAIN T.bals) \ {{}},
                    \A i \in S : \E j \in S : T.bals[i].fb = Loop(T.bals[j].tag)
             PROVE  FALSE
  BY DEF NoFallbackCycle
<1> DEFINE next == LoopFallbacks(T)
           looping == {i \in DOMAIN T.bals : IsLoop(T.bals[i].fb)}
           B == {T.bals[i].tag : i \in S}
<1>1. \A i \in DOMAIN T.bals : T.bals[i].tag \in Bals
  BY Elements
<1>2. S \subseteq looping
  BY <1>1, LoopIs DEF IsLoop
<1>3. /\ DOMAIN next = {T.bals[i].tag : i \in looping}
      /\ \A i \in looping : next[T.bals[i].tag]
           = Target(T.bals[CHOOSE k \in looping : T.bals[k].tag = T.bals[i].tag].fb)
  BY DEF LoopFallbacks
<1>4. ASSUME NEW i \in looping PROVE next[T.bals[i].tag] = Target(T.bals[i].fb)
  <2>1. \A k \in looping : T.bals[k].tag = T.bals[i].tag => k = i
    BY DEF UniqueTags
  <2>2. (CHOOSE k \in looping : T.bals[k].tag = T.bals[i].tag) = i
    <3> HIDE DEF looping
    <3> QED  BY <2>1
  <2> QED  BY <1>3, <2>2
<1> HIDE DEF next
<1>5. Closed(next, B)
  <2>1. ASSUME NEW i \in S PROVE next[T.bals[i].tag] \in B
    <3>1. PICK j \in S : T.bals[i].fb = Loop(T.bals[j].tag)
      OBVIOUS
    <3> QED  BY <1>2, <1>4, <3>1, LoopIs
  <2> QED  BY <2>1 DEF Closed
<1>6. B \subseteq Bals /\ B \subseteq DOMAIN next /\ B # {}
  BY <1>1, <1>2, <1>3
<1>7. \E b \in B : b \in Walk(next, next[b])
  <2> HIDE DEF B
  <2> QED  BY <1>5, <1>6, CycleMet
<1> QED  BY <1>6, <1>7 DEF DetectCycles, next

-----------------------------------------------------------------------------
(* The steps of an edit.                                                   *)

\* What every edit finds and leaves.
Kept(T) == Sound(T) /\ ObserverFits(T) /\ Len(T.bals) <= MaxBals

\* Rows other than the one that is edited keep the row they fall back to.
LeadsKept(T, E, row) ==
  \A i \in DOMAIN T.bals \ {row} : \A j \in DOMAIN T.bals : Leads(T, i, j) => Leads(E, i, j)

\* What an edit of the row makes of T.
Edited(T, E, row) ==
  /\ Kept(E)
  /\ Len(E.bals) = Len(T.bals) => LeadsKept(T, E, row)
  /\ Len(E.bals) < Len(T.bals) \/ Len(E.outs) < Len(T.outs) =>
       Destinationless(E) <= Destinationless(T)

\* After a synchronisation the observatory fits.
LEMMA SyncIs ==
  ASSUME NEW T, Sound(T)
  PROVE  LET E == SyncObservatories(T) IN
         /\ Sound(E) /\ ObserverFits(E)
         /\ E.outs = T.outs /\ E.bals = T.bals /\ E.rules = T.rules
<1> DEFINE x == NeededObserver(T)
           E == Make(T.outs, T.bals, T.rules, x)
<1>1. T \in Template
  BY DEF Sound
<1>2. /\ T.outs \in Seq(Outbound) /\ T.bals \in Seq(Balancer) /\ T.rules \in Seq(Rule)
      /\ T.obs \in Observer
  BY <1>1, Fields
<1>3. x \in Observer
  <2>1. \A b \in Range(T.bals) : b.sel \subseteq Outs
    BY <1>1, Elements
  <2>2. \A s : \A k \in {"none", "plain", "burst"} : s \subseteq Outs => [kind |-> k, subjects |-> s] \in Observer
    BY DEF Observer
  <2> QED  BY <2>1, <2>2, Zenon DEF NeededObserver
<1>4. SyncObservatories(T) = E
  <2>1. SyncObservatories(T) = [T EXCEPT !.obs = x]
    BY DEF SyncObservatories
  <2> HIDE DEF x
  <2> QED  BY <1>1, <2>1, Rewrites, Zenon
<1>5. E \in Template /\ E.outs = T.outs /\ E.bals = T.bals /\ E.rules = T.rules /\ E.obs = x
  <2> HIDE DEF x
  <2> QED  BY <1>2, <1>3, MakeIs
<1>6. NeededObserver(E) = x
  <2> HIDE DEF E
  <2> QED  BY <1>5 DEF NeededObserver
<1> HIDE DEF E, x
<1>7. Sound(E)
  BY <1>5 DEF Sound, UniqueTags, VisibleOuts, RulesResolve, OutboundRefsResolve, HiddenRulesLead,
              OutboundTags, BalancerTags
<1>8. ObserverFits(E)
  BY <1>5, <1>6 DEF ObserverFits
<1> QED  BY <1>4, <1>5, <1>7, <1>8

\* A rule that resolves, and is form.
Resolves(T, x) ==
  /\ x \in Rule /\ ~IsLoop(x.in)
  /\ x.bal # None => x.bal \in BalancerTags(T)
  /\ x.out \in Outs => x.out \in OutboundTags(T) \cup {Warp}

\* A rule the operator sees resolves.
LEMMA VisibleResolves ==
  ASSUME NEW T, Sound(T), NEW i \in VisibleRules(T)
  PROVE  Resolves(T, T.rules[i]) /\ T.rules[i] \in Range(T.rules)
<1>1. T \in Template /\ i \in DOMAIN T.rules /\ ~IsLoop(T.rules[i].in) /\ T.rules \in Seq(Rule)
  BY Fields DEF Sound, VisibleRules
<1>2. T.rules[i] \in Rule /\ T.rules[i] \in Range(T.rules)
  BY <1>1, Elements
<1> QED  BY <1>1, <1>2 DEF Resolves, Sound, RulesResolve

\* An edit of the rules that shows no rule that does not resolve.
LEMMA RulesEdited ==
  ASSUME NEW T, Sound(T), NEW r \in Seq(Rule),
         \A x \in Range(r) : x \in Range(T.rules) \/ Resolves(T, x)
  PROVE  LET E == [T EXCEPT !.rules = r] IN
         /\ Sound(E) /\ E.bals = T.bals /\ E.outs = T.outs /\ E.obs = T.obs /\ E.rules = r
         /\ ObserverFits(T) => ObserverFits(E)
<1> DEFINE E == Make(T.outs, T.bals, r, T.obs)
<1>1. T \in Template
  BY DEF Sound
<1>2. /\ T.outs \in Seq(Outbound) /\ T.bals \in Seq(Balancer) /\ T.rules \in Seq(Rule)
      /\ T.obs \in Observer
  BY <1>1, Fields
<1>3. [T EXCEPT !.rules = r] = E
  BY <1>1, Rewrites, Zenon
<1>4. E \in Template /\ E.outs = T.outs /\ E.bals = T.bals /\ E.rules = r /\ E.obs = T.obs
  BY <1>2, MakeIs
<1> HIDE DEF E
<1>5. OutboundTags(E) = OutboundTags(T) /\ BalancerTags(E) = BalancerTags(T)
  BY <1>4 DEF OutboundTags, BalancerTags
<1>6. RulesResolve(E)
  BY <1>4, <1>5 DEF Sound, RulesResolve, Resolves
<1>7. HiddenRulesLead(E)
  BY <1>4, <1>5 DEF Sound, HiddenRulesLead, Resolves
<1>8. UniqueTags(E) /\ OutboundRefsResolve(E)
  BY <1>4, <1>5 DEF Sound, UniqueTags, VisibleOuts, OutboundRefsResolve
<1>9. ObserverFits(T) => ObserverFits(E)
  BY <1>4 DEF ObserverFits, NeededObserver
<1> QED  BY <1>3, <1>4, <1>6, <1>7, <1>8, <1>9 DEF Sound

\* Nothing is lost of a fallback while the balancers and the hidden rules stay.
LEMMA LeadsKeptIs ==
  ASSUME NEW T, NEW E, NEW row, E.bals = T.bals,
         \A i \in DOMAIN T.bals : T.bals[i].fb \in Ins(T) => T.bals[i].fb \in Ins(E)
  PROVE  LeadsKept(T, E, row)
  BY DEF LeadsKept, Leads

\* Rewriting visible rules with ones that resolve is a sound edit.
LEMMA RulesRewritten ==
  ASSUME NEW T, Kept(T), NEW r \in Seq(Rule),
         \A x \in Range(r) : x \in Range(T.rules) \/ Resolves(T, x),
         \A i \in DOMAIN T.rules : T.rules[i] \in Range(r) \/ i \in VisibleRules(T)
  PROVE  Edited(T, [T EXCEPT !.rules = r], 0)
<1> DEFINE E == [T EXCEPT !.rules = r]
<1>1. Sound(T) /\ ObserverFits(T) /\ Len(T.bals) <= MaxBals
  BY DEF Kept
<1>2. /\ Sound(E) /\ E.bals = T.bals /\ E.outs = T.outs /\ E.obs = T.obs /\ E.rules = r
      /\ ObserverFits(E)
  BY <1>1, RulesEdited
<1> HIDE DEF E
<1>3. Ins(T) \subseteq Ins(E)
  <2>1. ASSUME NEW x \in Range(T.rules), x.in \in Loops PROVE x \in Range(E.rules)
    <3>1. PICK i \in DOMAIN T.rules : T.rules[i] = x
      BY DEF Range
    <3>2. i \notin VisibleRules(T)
      BY <2>1, <3>1 DEF VisibleRules, IsLoop
    <3> QED  BY <1>2, <3>1, <3>2
  <2> QED  BY <2>1 DEF Ins
<1>4. LeadsKept(T, E, 0)
  BY <1>2, <1>3, LeadsKeptIs
<1>5. Len(E.bals) \in Nat /\ Len(E.outs) \in Nat
  BY <1>2, Fields DEF Sound
<1>6. ~(Len(E.bals) < Len(T.bals)) /\ ~(Len(E.outs) < Len(T.outs))
  BY <1>2, <1>5
<1>7. Kept(E)
  BY <1>1, <1>2 DEF Kept
<1> QED  BY <1>4, <1>6, <1>7 DEF Edited, E

\* The outcome of an edit's handler.
Drafted ==
  /\ Edited(draft, draft', touched') /\ touched' \in 0..MaxBals
  /\ edits' = edits + 1 /\ saved' = saved

\* A sound edit that is put into the draft.
LEMMA EditDone ==
  ASSUME NEW T, NEW row \in 0..MaxBals, Edited(draft, T, row), SetDraft(T, row)
  PROVE  Drafted
  BY DEF Drafted, SetDraft

\* An edit of no row in particular.
LEMMA NoRow == 0 \in 0..MaxBals
  BY TagsAssumption

\* The tags of a template are tags.
LEMMA TagSets ==
  ASSUME NEW T \in Template
  PROVE  OutboundTags(T) \subseteq Outs \cup Loops /\ BalancerTags(T) \subseteq Bals
  BY Elements DEF OutboundTags, BalancerTags

\* What the rule form lets through resolves.
LEMMA RuleFormResolves ==
  ASSUME NEW T, Sound(T), NEW form,
         form.out \in Outs \cup Loops \cup {None}, form.bal \in Bals \cup {None},
         form.bal # None => form.bal \in BalancerTags(T),
         form.out \in Outs => form.out \in OutboundTags(T) \cup {Warp},
         NEW r \in RuleForm(T, form)
  PROVE  Resolves(T, r)
<1>1. OutboundTags(T) \subseteq Outs \cup Loops /\ BalancerTags(T) \subseteq Bals
  BY TagSets DEF Sound
<1>2. /\ r.in \in {AnyIn, Src} /\ r.out \in {None, form.out} \cup OutboundTags(T)
      /\ r.bal \in {None, form.bal} \cup BalancerTags(T)
      /\ r = [in |-> r.in, out |-> r.out, bal |-> r.bal]
  BY DEF RuleForm
<1>3. r.in \in {AnyIn, Src} \cup Loops /\ r.in \notin Loops
  BY <1>2, TagsAssumption
<1>4. r \in Rule
  <2>1. r.out \in Outs \cup Loops \cup {None} /\ r.bal \in Bals \cup {None}
    BY <1>1, <1>2
  <2> QED  BY <1>2, <1>3, <2>1 DEF Rule
<1>5. r.bal # None => r.bal \in BalancerTags(T)
  BY <1>2
<1>6. r.out \in Outs => r.out \in OutboundTags(T) \cup {Warp}
  BY <1>2, LoopIs
<1> QED  BY <1>3, <1>4, <1>5, <1>6 DEF Resolves, IsLoop

\* What an appended sequence holds.
LEMMA AppendIs ==
  ASSUME NEW S, NEW s \in Seq(S), NEW e \in S
  PROVE  /\ Append(s, e) \in Seq(S) /\ Len(Append(s, e)) = Len(s) + 1
         /\ DOMAIN Append(s, e) = 1..(Len(s) + 1)
         /\ \A k \in 1..Len(s) : Append(s, e)[k] = s[k]
         /\ Append(s, e)[Len(s) + 1] = e
         /\ Range(Append(s, e)) = Range(s) \cup {e}
<1> DEFINE q == Append(s, e)
<1>1. /\ q \in Seq(S) /\ Len(q) = Len(s) + 1 /\ DOMAIN q = 1..(Len(s) + 1)
      /\ \A k \in 1..Len(s) : q[k] = s[k]
      /\ q[Len(s) + 1] = e
      /\ DOMAIN s = 1..Len(s) /\ Len(s) \in Nat
  OBVIOUS
<1> HIDE DEF q
<1>2. \A k \in DOMAIN q : q[k] \in Range(s) \cup {e}
  BY <1>1 DEF Range
<1>3. \A k \in DOMAIN s : s[k] \in Range(q)
  BY <1>1 DEF Range
<1>4. e \in Range(q)
  BY <1>1 DEF Range
<1>5. Range(q) = Range(s) \cup {e}
  BY <1>2, <1>3, <1>4 DEF Range
<1> QED  BY <1>1, <1>5 DEF q

\* Adding a rule is sound.
LEMMA AddRuleDone == ASSUME Kept(draft), AddRule PROVE Drafted
<1>1. PICK r \in RuleForm(draft, [out |-> None, bal |-> None]) :
        SetDraft([draft EXCEPT !.rules = Append(@, r)], 0)
  BY DEF AddRule
<1> DEFINE q == Append(draft.rules, r)
<1>2. Sound(draft) /\ draft.rules \in Seq(Rule)
  BY Fields DEF Kept, Sound
<1>3. Resolves(draft, r)
  BY <1>1, <1>2, RuleFormResolves, LoopIs
<1>4. q \in Seq(Rule) /\ Range(q) = Range(draft.rules) \cup {r}
  BY <1>2, <1>3, AppendIs DEF Resolves
<1> HIDE DEF q
<1>5. \A i \in DOMAIN draft.rules : draft.rules[i] \in Range(q)
  BY <1>4 DEF Range
<1>6. Edited(draft, [draft EXCEPT !.rules = q], 0)
  BY <1>3, <1>4, <1>5, RulesRewritten
<1> QED  BY <1>1, <1>6, EditDone, NoRow DEF q

\* Editing a rule is sound.
LEMMA EditRuleDone == ASSUME Kept(draft), NEW i \in VisibleRules(draft), EditRule(i) PROVE Drafted
<1>1. PICK r \in RuleForm(draft, draft.rules[i]) : SetDraft([draft EXCEPT !.rules[i] = r], 0)
  BY DEF EditRule
<1> DEFINE q == [draft.rules EXCEPT ![i] = r]
<1>2. Sound(draft) /\ draft.rules \in Seq(Rule)
  BY Fields DEF Kept, Sound
<1>3. Resolves(draft, draft.rules[i]) /\ i \in DOMAIN draft.rules
  BY <1>2, VisibleResolves DEF VisibleRules
<1>4. Resolves(draft, r)
  <2>1. draft.rules[i].out \in Outs \cup Loops \cup {None} /\ draft.rules[i].bal \in Bals \cup {None}
    BY <1>3 DEF Resolves, Rule
  <2> QED  BY <1>1, <1>2, <1>3, <2>1, RuleFormResolves DEF Resolves
<1>5. /\ q \in Seq(Rule) /\ DOMAIN q = DOMAIN draft.rules
      /\ \A k \in DOMAIN draft.rules : q[k] = IF k = i THEN r ELSE draft.rules[k]
  <2>1. r \in Rule /\ i \in DOMAIN draft.rules
    BY <1>3, <1>4 DEF Resolves
  <2> QED  BY <1>2, <2>1
<1>6. [draft EXCEPT !.rules[i] = r] = [draft EXCEPT !.rules = q]
  OBVIOUS
<1> HIDE DEF q
<1>7. \A x \in Range(q) : x \in Range(draft.rules) \/ Resolves(draft, x)
  BY <1>4, <1>5 DEF Range
<1>8. \A k \in DOMAIN draft.rules : draft.rules[k] \in Range(q) \/ k \in VisibleRules(draft)
  BY <1>5 DEF Range
<1>9. Edited(draft, [draft EXCEPT !.rules = q], 0)
  BY <1>5, <1>7, <1>8, RulesRewritten
<1> QED  BY <1>1, <1>6, <1>9, EditDone, NoRow

\* Deleting a rule is sound.
LEMMA DeleteRuleDone == ASSUME Kept(draft), NEW i \in VisibleRules(draft), DeleteRule(i) PROVE Drafted
<1> DEFINE q == RemoveAt(draft.rules, i)
<1>1. SetDraft([draft EXCEPT !.rules = q], 0)
  BY DEF DeleteRule
<1>2. draft.rules \in Seq(Rule) /\ i \in DOMAIN draft.rules
  BY Fields DEF Kept, Sound, VisibleRules
<1>3. q \in Seq(Rule) /\ \E h : Picks(q, draft.rules, h, DOMAIN draft.rules \ {i})
  BY <1>2, RemovePicks
<1> HIDE DEF q
<1>4. Range(q) = {draft.rules[k] : k \in DOMAIN draft.rules \ {i}}
  BY <1>3, PicksRange
<1>5. \A x \in Range(q) : x \in Range(draft.rules)
  BY <1>4 DEF Range
<1>6. \A k \in DOMAIN draft.rules : draft.rules[k] \in Range(q) \/ k \in VisibleRules(draft)
  BY <1>4
<1>7. Edited(draft, [draft EXCEPT !.rules = q], 0)
  BY <1>3, <1>5, <1>6, RulesRewritten
<1> QED  BY <1>1, <1>7, EditDone, NoRow

\* Rows that change places.
\* q is s with its rows in another order; h says where each comes from.
Rearranges(q, s, h) ==
  /\ DOMAIN q = DOMAIN s /\ Range(q) = Range(s)
  /\ \A k \in DOMAIN q : h[k] \in DOMAIN s /\ q[k] = s[h[k]]
  /\ \A k, m \in DOMAIN q : h[k] = h[m] => k = m

Swapped(s, i, j) == [s EXCEPT ![i] = s[j], ![j] = s[i]]
Places(s, i, j) == [k \in DOMAIN s |-> IF k = j THEN i ELSE IF k = i THEN j ELSE k]

\* Two rows swapped are rearranged.
LEMMA SwapIs ==
  ASSUME NEW S, NEW s \in Seq(S), NEW i \in DOMAIN s, NEW j \in DOMAIN s
  PROVE  Swapped(s, i, j) \in Seq(S) /\ Rearranges(Swapped(s, i, j), s, Places(s, i, j))
<1> DEFINE p == [s EXCEPT ![i] = s[j]]
           q == [p EXCEPT ![j] = s[i]]
           h == [k \in DOMAIN s |-> IF k = j THEN i ELSE IF k = i THEN j ELSE k]
<1>1. /\ p \in Seq(S) /\ DOMAIN p = DOMAIN s /\ Len(p) = Len(s)
      /\ \A k \in DOMAIN s : p[k] = IF k = i THEN s[j] ELSE s[k]
      /\ j \in DOMAIN s /\ s[i] \in S
  OBVIOUS
<1>2. q = [s EXCEPT ![i] = s[j], ![j] = s[i]]
  OBVIOUS
<1> HIDE DEF p
<1>3. /\ q \in Seq(S) /\ DOMAIN q = DOMAIN s /\ Len(q) = Len(s)
      /\ \A k \in DOMAIN s : q[k] = IF k = j THEN s[i] ELSE p[k]
  BY <1>1
<1> HIDE DEF q
<1>4. \A k \in DOMAIN s : h[k] \in DOMAIN s /\ q[k] = s[h[k]] /\ h[h[k]] = k
  BY <1>1, <1>3
<1>5. \A k, m \in DOMAIN s : h[k] = h[m] => k = m
  OBVIOUS
<1> HIDE DEF h
<1>6. Range(q) = Range(s)
  <2>1. \A k \in DOMAIN s : q[k] = s[h[k]] /\ h[k] \in DOMAIN s
    BY <1>4
  <2>2. \A k \in DOMAIN s : s[k] = q[h[k]] /\ h[k] \in DOMAIN s
    BY <1>4
  <2>3. \A k \in DOMAIN s : q[k] \in Range(s) /\ s[k] \in Range(q)
    BY <1>3, <2>1, <2>2 DEF Range
  <2>4. Range(q) \subseteq Range(s)
    BY <1>3, <2>3 DEF Range
  <2>5. Range(s) \subseteq Range(q)
    BY <2>3 DEF Range
  <2> QED  BY <2>4, <2>5
<1>7. Rearranges(q, s, h)
  BY <1>3, <1>4, <1>5, <1>6 DEF Rearranges
<1> QED  BY <1>2, <1>3, <1>7 DEF h, Swapped, Places

\* Moving a rule up or down is sound.
LEMMA MoveRuleDone ==
  ASSUME Kept(draft), NEW i \in VisibleRules(draft), NEW j \in VisibleRules(draft), MoveRule(i, j)
  PROVE  Drafted
<1> DEFINE q == Swapped(draft.rules, i, j)
<1>1. SetDraft([draft EXCEPT !.rules = q], 0)
  BY DEF MoveRule, Swapped
<1>2. draft.rules \in Seq(Rule) /\ i \in DOMAIN draft.rules /\ j \in DOMAIN draft.rules
  BY Fields DEF Kept, Sound, VisibleRules
<1>3. q \in Seq(Rule) /\ Range(q) = Range(draft.rules)
  <2>1. q \in Seq(Rule) /\ Rearranges(q, draft.rules, Places(draft.rules, i, j))
    BY <1>2, SwapIs
  <2> QED  BY <2>1 DEF Rearranges
<1> HIDE DEF q
<1>4. \A k \in DOMAIN draft.rules : draft.rules[k] \in Range(q)
  BY <1>3 DEF Range
<1>5. Edited(draft, [draft EXCEPT !.rules = q], 0)
  BY <1>3, <1>4, RulesRewritten
<1> QED  BY <1>1, <1>5, EditDone, NoRow

\* Dragging a rule is sound.
LEMMA DragRuleDone ==
  ASSUME Kept(draft), NEW i \in VisibleRules(draft), NEW j \in VisibleRules(draft), DragRule(i, j)
  PROVE  Drafted
<1> DEFINE p == RemoveAt(draft.rules, i)
           q == InsertAt(p, j, draft.rules[i])
<1>1. SetDraft([draft EXCEPT !.rules = q], 0)
  BY DEF DragRule
<1>2. /\ draft.rules \in Seq(Rule) /\ i \in DOMAIN draft.rules /\ j \in 1..Len(draft.rules)
      /\ draft.rules[i] \in Rule
  BY Fields DEF Kept, Sound, VisibleRules
<1>3. p \in Seq(Rule) /\ \E h : Picks(p, draft.rules, h, DOMAIN draft.rules \ {i})
  BY <1>2, RemovePicks
<1>4. Len(p) = Len(draft.rules) - 1
  BY <1>2, RemoveIs
<1> HIDE DEF p
<1>5. Range(p) = {draft.rules[k] : k \in DOMAIN draft.rules \ {i}}
  BY <1>3, PicksRange
<1>6. j \in 1..(Len(p) + 1)
  BY <1>2, <1>4
<1>7. q \in Seq(Rule)
  BY <1>2, <1>3, <1>6, InsertIs
<1>8. Range(q) = Range(p) \cup {draft.rules[i]}
  BY <1>2, <1>3, <1>6, InsertRange
<1> HIDE DEF q
<1>9. Range(q) = Range(draft.rules) /\ \A k \in DOMAIN draft.rules : draft.rules[k] \in Range(q)
  BY <1>2, <1>5, <1>8 DEF Range
<1>10. Edited(draft, [draft EXCEPT !.rules = q], 0)
  BY <1>7, <1>9, RulesRewritten
<1> QED  BY <1>1, <1>10, EditDone, NoRow

-----------------------------------------------------------------------------
(* Edits of the outbounds alone.                                           *)

\* Outbounds may be rewritten while those that something names stay.
LEMMA OutsEdited ==
  ASSUME NEW T, Kept(T), NEW o \in Seq(Outbound), UniqueVisible(o),
         TagsOf(T.outs) \cap Loops \subseteq TagsOf(o),
         \A t \in TagsOf(T.outs) \cap Outs : \/ t \in TagsOf(o) \cup {Warp}
                                             \/ t = Direct /\ \A r \in Range(T.rules) : r.out # Direct,
         \A x \in Range(o) : \/ x \in Range(T.outs)
                             \/ x.dialer \in Outs => x.dialer \in TagsOf(T.outs) \cup {Warp, Direct}
  PROVE  /\ Edited(T, [T EXCEPT !.outs = o], 0)
         /\ [T EXCEPT !.outs = o].bals = T.bals /\ [T EXCEPT !.outs = o].rules = T.rules
         /\ [T EXCEPT !.outs = o].outs = o
<1> DEFINE E == Make(o, T.bals, T.rules, T.obs)
<1>1. Sound(T) /\ T \in Template /\ ObserverFits(T) /\ Len(T.bals) <= MaxBals
  BY DEF Kept, Sound
<1>2. /\ T.outs \in Seq(Outbound) /\ T.bals \in Seq(Balancer) /\ T.rules \in Seq(Rule)
      /\ T.obs \in Observer
  BY <1>1, Fields
<1>3. [T EXCEPT !.outs = o] = E
  BY <1>1, Rewrites, Zenon
<1>4. E \in Template /\ E.outs = o /\ E.bals = T.bals /\ E.rules = T.rules /\ E.obs = T.obs
  BY <1>2, MakeIs
<1> HIDE DEF E
<1>5. OutboundTags(E) = TagsOf(o) /\ BalancerTags(E) = BalancerTags(T) /\ OutboundTags(T) = TagsOf(T.outs)
  BY <1>4, TagsIs DEF BalancerTags
<1>6. RulesResolve(E)
  <2> SUFFICES ASSUME NEW r \in Range(T.rules), ~IsLoop(r.in)
               PROVE  /\ r.bal # None => r.bal \in BalancerTags(E)
                      /\ r.out \in Outs => r.out \in OutboundTags(E) \cup {Warp}
    BY <1>4 DEF RulesResolve
  <2>1. /\ r.bal # None => r.bal \in BalancerTags(T)
        /\ r.out \in Outs => r.out \in TagsOf(T.outs) \cup {Warp}
    BY <1>1, <1>5 DEF Sound, RulesResolve
  <2> QED  BY <1>5, <2>1
<1>7. HiddenRulesLead(E)
  <2> SUFFICES ASSUME NEW r \in Range(T.rules), IsLoop(r.in)
               PROVE  r.bal = Target(r.in) /\ r.out = None /\ r.in \in OutboundTags(E)
    BY <1>4 DEF HiddenRulesLead
  <2>1. r.bal = Target(r.in) /\ r.out = None /\ r.in \in TagsOf(T.outs) /\ r.in \in Loops
    BY <1>1, <1>5 DEF Sound, HiddenRulesLead, IsLoop
  <2> QED  BY <1>5, <2>1
<1>8. OutboundRefsResolve(E)
  <2>1. \A t \in Outs : t \in TagsOf(T.outs) \cup {Warp, Direct} => t \in TagsOf(o) \cup {Warp, Direct}
    OBVIOUS
  <2>2. \A b \in Range(T.bals) : b.sel \subseteq Outs
    BY <1>1, Elements
  <2> QED  BY <1>1, <1>4, <1>5, <2>1, <2>2 DEF Sound, OutboundRefsResolve
<1>9. UniqueTags(E)
  <2>1. UniqueRows(E.bals)
    BY <1>1, <1>4, UniqueTagsIs DEF Sound
  <2> QED  BY <1>4, <2>1, UniqueTagsIs
<1>10. ObserverFits(E)
  BY <1>1, <1>4 DEF ObserverFits, NeededObserver
<1>11. Kept(E)
  BY <1>1, <1>4, <1>6, <1>7, <1>8, <1>9, <1>10 DEF Kept, Sound
<1>12. LeadsKept(T, E, 0)
  BY <1>4 DEF LeadsKept, Leads, Ins
<1>13. Destinationless(E) = Destinationless(T) /\ Destinationless(T) \in Nat
  BY <1>1, <1>4, DestinationlessType DEF Destinationless
<1>14. Edited(T, E, 0)
  BY <1>11, <1>12, <1>13 DEF Edited
<1> QED  BY <1>3, <1>4, <1>14

\* What every draft is.
LEMMA KeptIs ==
  ASSUME NEW T, Kept(T)
  PROVE  /\ Sound(T) /\ T \in Template /\ UniqueVisible(T.outs) /\ UniqueRows(T.bals)
         /\ T.outs \in Seq(Outbound) /\ T.bals \in Seq(Balancer) /\ T.rules \in Seq(Rule)
         /\ T.obs \in Observer /\ OutboundTags(T) = TagsOf(T.outs)
         /\ \A i \in DOMAIN T.outs : T.outs[i].tag \in TagsOf(T.outs)
<1>1. Sound(T) /\ T \in Template /\ UniqueTags(T)
  BY DEF Kept, Sound
<1>2. \A i \in DOMAIN T.outs : T.outs[i].tag \in TagsOf(T.outs)
  BY <1>1, Elements DEF TagsOf
<1> QED  BY <1>1, <1>2, Fields, UniqueTagsIs, TagsIs

\* Rows that come from different rows have different tags.
LEMMA UniqueThrough ==
  ASSUME NEW s, UniqueVisible(s), NEW d, NEW h,
         \A k \in DOMAIN d : h[k] \in DOMAIN s /\ d[k].tag = s[h[k]].tag,
         \A k, m \in DOMAIN d : h[k] = h[m] => k = m
  PROVE  UniqueVisible(d)
  BY DEF UniqueVisible

\* A tag that is new stays unique.
LEMMA UniqueAppend ==
  ASSUME NEW s \in Seq(Outbound), UniqueVisible(s), NEW e \in Outbound, e.tag \notin TagsOf(s)
  PROVE  UniqueVisible(Append(s, e))
<1> DEFINE q == Append(s, e)
<1>1. /\ DOMAIN q = 1..(Len(s) + 1) /\ \A k \in 1..Len(s) : q[k] = s[k]
      /\ q[Len(s) + 1] = e /\ DOMAIN s = 1..Len(s) /\ Len(s) \in Nat
  BY AppendIs
<1> HIDE DEF q
<1>2. \A k \in 1..Len(s) : s[k].tag \in TagsOf(s)
  BY <1>1 DEF TagsOf, Range
<1>3. ASSUME NEW i \in DOMAIN q, NEW j \in DOMAIN q, ~IsLoop(q[i].tag), q[i].tag = q[j].tag PROVE i = j
  <2>1. (i \in 1..Len(s) \/ i = Len(s) + 1) /\ (j \in 1..Len(s) \/ j = Len(s) + 1)
    BY <1>1
  <2>2. CASE i \in 1..Len(s) /\ j \in 1..Len(s)
    BY <1>1, <1>3, <2>2 DEF UniqueVisible
  <2>3. CASE i = Len(s) + 1 /\ j \in 1..Len(s)
    BY <1>1, <1>2, <1>3, <2>3
  <2>4. CASE i \in 1..Len(s) /\ j = Len(s) + 1
    BY <1>1, <1>2, <1>3, <2>4
  <2> QED  BY <2>1, <2>2, <2>3, <2>4
<1> QED  BY <1>3 DEF UniqueVisible, q

\* Fewer outbounds still have different tags.
LEMMA PicksUnique ==
  ASSUME NEW s \in Seq(Outbound), UniqueVisible(s), NEW d \in Seq(Outbound),
         NEW K, K \subseteq DOMAIN s, NEW h, Picks(d, s, h, K)
  PROVE  UniqueVisible(d)
<1>1. K \subseteq Nat
  OBVIOUS
<1>2. /\ \A j, k \in DOMAIN d : h[j] = h[k] => j = k
      /\ h \in Injection(DOMAIN d, K)
  BY <1>1, PicksInjective
<1>3. \A k \in DOMAIN d : h[k] \in DOMAIN s /\ d[k].tag = s[h[k]].tag
  BY DEF Picks
<1> QED  BY <1>2, <1>3, UniqueThrough

\* The first position of a tag.
TagAt(outs, tag) == SelectInSeq(outs, LAMBDA x : x.tag = tag)

\* The outbound that is found has the tag; without one nothing has.
LEMMA TagAtIs ==
  ASSUME NEW s \in Seq(Outbound), NEW tag
  PROVE  /\ TagAt(s, tag) \in 0..Len(s)
         /\ TagAt(s, tag) # 0 => TagAt(s, tag) \in DOMAIN s /\ s[TagAt(s, tag)].tag = tag
         /\ TagAt(s, tag) = 0 => tag \notin TagsOf(s)
<1> DEFINE I == {i \in 1..Len(s) : s[i].tag = tag}
           r == IF I # {} THEN Min(I) ELSE 0
<1>1. TagAt(s, tag) = r
  BY DEF TagAt, SelectInSeq
<1>2. DOMAIN s = 1..Len(s) /\ Len(s) \in Nat
  OBVIOUS
<1>3. (r # 0 => r \in I) /\ (r = 0 => I = {})
  <2>1. I \subseteq Nat /\ 0 \notin I
    BY <1>2
  <2> HIDE DEF I
  <2> QED  BY <2>1, MinIs
<1> HIDE DEF r
<1>4. r = 0 => tag \notin TagsOf(s)
  BY <1>2, <1>3 DEF TagsOf, Range
<1> QED  BY <1>1, <1>2, <1>3, <1>4

\* Adding an outbound is sound.
LEMMA AddOutboundDone == ASSUME Kept(draft), AddOutbound PROVE Drafted
<1> DEFINE form == [tag |-> None, dialer |-> None]
           s == draft.outs
<1>1. PICK o \in Outs \ OutboundTags(draft), d \in Dialers(draft, form) :
        SetDraft([draft EXCEPT !.outs = Append(@, [tag |-> o, dialer |-> d])], 0)
  BY DEF AddOutbound
<1> DEFINE e == [tag |-> o, dialer |-> d]
           q == Append(s, e)
<1>2. s \in Seq(Outbound) /\ UniqueVisible(s) /\ OutboundTags(draft) = TagsOf(s)
  BY KeptIs
<1>3. d \in {None} \cup TagsOf(s) /\ TagsOf(s) \subseteq Outs \cup Loops
  BY <1>2, KeptIs, TagSets DEF Dialers
<1>4. e \in Outbound /\ e.tag = o /\ e.dialer = d
  BY <1>3 DEF Outbound
<1>5. SetDraft([draft EXCEPT !.outs = q], 0)
  BY <1>1
<1> HIDE DEF e, s
<1>6. q \in Seq(Outbound) /\ Range(q) = Range(s) \cup {e}
  BY <1>2, <1>4, AppendIs
<1>7. UniqueVisible(q)
  BY <1>1, <1>2, <1>4, UniqueAppend
<1> HIDE DEF q
<1>8. TagsOf(s) \subseteq TagsOf(q)
  BY <1>6 DEF TagsOf
<1>9. \A x \in Range(q) : x \in Range(s) \/ x.dialer \in {None} \cup TagsOf(s)
  BY <1>3, <1>4, <1>6
<1>10. Edited(draft, [draft EXCEPT !.outs = q], 0)
  BY <1>6, <1>7, <1>8, <1>9, OutsEdited, LoopIs DEF s
<1> QED  BY <1>5, <1>10, EditDone, NoRow

\* Rows in another order.
LEMMA OutsReordered ==
  ASSUME NEW T, Kept(T), NEW q \in Seq(Outbound), NEW h, Rearranges(q, T.outs, h)
  PROVE  Edited(T, [T EXCEPT !.outs = q], 0)
<1>1. UniqueVisible(T.outs)
  BY KeptIs
<1>2. UniqueVisible(q)
  <2>1. /\ \A k \in DOMAIN q : h[k] \in DOMAIN T.outs /\ q[k].tag = T.outs[h[k]].tag
        /\ \A k, m \in DOMAIN q : h[k] = h[m] => k = m
    BY DEF Rearranges
  <2> QED  BY <1>1, <2>1, UniqueThrough, Zenon
<1>3. TagsOf(q) = TagsOf(T.outs)
  BY DEF TagsOf, Rearranges
<1> QED  BY <1>2, <1>3, OutsEdited DEF Rearranges

\* Moving an outbound is sound.
LEMMA MoveOutboundDone ==
  ASSUME Kept(draft), NEW i \in VisibleOuts(draft), NEW j \in VisibleOuts(draft), MoveOutbound(i, j)
  PROVE  Drafted
<1> DEFINE s == draft.outs
           q == Swapped(s, i, j)
           h == Places(s, i, j)
<1>1. SetDraft([draft EXCEPT !.outs = q], 0)
  BY DEF MoveOutbound, Swapped
<1>2. s \in Seq(Outbound) /\ i \in DOMAIN s /\ j \in DOMAIN s
  BY KeptIs DEF VisibleOuts
<1> HIDE DEF s
<1>3. q \in Seq(Outbound) /\ Rearranges(q, s, h)
  BY <1>2, SwapIs
<1> HIDE DEF q, h
<1>4. Edited(draft, [draft EXCEPT !.outs = q], 0)
  BY <1>3, OutsReordered DEF s
<1> QED  BY <1>1, <1>4, EditDone, NoRow

\* A row that comes first.
Fronted(s, i) == <<s[i]>> \o RemoveAt(s, i)
FrontPlaces(s, i) == [k \in DOMAIN s |-> IF k = 1 THEN i ELSE IF k <= i THEN k - 1 ELSE k]

\* What a sequence with one more in front holds.
LEMMA PrefixedIs ==
  ASSUME NEW S, NEW e \in S, NEW d \in Seq(S)
  PROVE  /\ Prefixed(e, d) \in Seq(S) /\ Len(Prefixed(e, d)) = 1 + Len(d)
         /\ Prefixed(e, d)[1] = e
         /\ \A k \in 1..Len(d) : Prefixed(e, d)[1 + k] = d[k]
  BY DEF Prefixed

\* Bringing a row to the front rearranges the table.
LEMMA FrontIs ==
  ASSUME NEW S, NEW s \in Seq(S), NEW i \in DOMAIN s
  PROVE  Fronted(s, i) \in Seq(S) /\ Rearranges(Fronted(s, i), s, FrontPlaces(s, i))
<1> DEFINE d == RemoveAt(s, i)
           q == Prefixed(s[i], d)
           h == FrontPlaces(s, i)
<1>1. DOMAIN s = 1..Len(s) /\ Len(s) \in Nat /\ i \in 1..Len(s) /\ s[i] \in S
  OBVIOUS
<1>2. /\ d \in Seq(S) /\ Len(d) = Len(s) - 1
      /\ \A k \in 1..(Len(s) - 1) : d[k] = IF k < i THEN s[k] ELSE s[k + 1]
  BY RemoveIs
<1> HIDE DEF d
<1>4. /\ q \in Seq(S) /\ Len(q) = 1 + Len(d) /\ q[1] = s[i]
      /\ \A k \in 1..Len(d) : q[1 + k] = d[k]
  BY <1>1, <1>2, PrefixedIs
<1> HIDE DEF q
<1>5. Len(q) = Len(s) /\ DOMAIN q = 1..Len(s)
  BY <1>1, <1>2, <1>4
<1>6. ASSUME NEW k \in 1..Len(s) PROVE h[k] \in 1..Len(s) /\ q[k] = s[h[k]]
  <2>1. CASE k = 1
    BY <1>1, <1>4, <2>1 DEF FrontPlaces
  <2>2. CASE k # 1
    <3>1. k - 1 \in 1..Len(d) /\ 1 + (k - 1) = k /\ k - 1 \in 1..(Len(s) - 1)
      BY <1>1, <1>2, <2>2
    <3>2. q[1 + (k - 1)] = d[k - 1]
      BY <1>4, <3>1
    <3>3. q[k] = d[k - 1] /\ d[k - 1] = IF k - 1 < i THEN s[k - 1] ELSE s[(k - 1) + 1]
      BY <1>2, <3>1, <3>2
    <3> QED  BY <1>1, <2>2, <3>3 DEF FrontPlaces
  <2> QED  BY <2>1, <2>2
<1>7. ASSUME NEW k \in 1..Len(s), NEW m \in 1..Len(s), h[k] = h[m] PROVE k = m
  BY <1>1, <1>7 DEF FrontPlaces
<1>8. ASSUME NEW k \in 1..Len(s) PROVE \E m \in 1..Len(s) : h[m] = k
  <2>1. CASE k = i
    <3>1. 1 \in 1..Len(s) /\ h[1] = k
      BY <1>1, <2>1 DEF FrontPlaces
    <3> QED  BY <3>1
  <2>2. CASE k < i
    <3>1. k + 1 \in 1..Len(s) /\ h[k + 1] = k
      BY <1>1, <2>2 DEF FrontPlaces
    <3> QED  BY <3>1
  <2>3. CASE k > i
    <3>1. h[k] = k
      BY <1>1, <2>3 DEF FrontPlaces
    <3> QED  BY <3>1
  <2> QED  BY <1>1, <2>1, <2>2, <2>3
<1> HIDE DEF h
<1>9. Range(q) = Range(s)
  <2>1. \A k \in 1..Len(s) : q[k] \in Range(s)
    BY <1>1, <1>6 DEF Range
  <2>2. ASSUME NEW k \in 1..Len(s) PROVE s[k] \in Range(q)
    <3>1. PICK m \in 1..Len(s) : h[m] = k
      BY <1>8
    <3>2. q[m] = s[k] /\ m \in DOMAIN q
      BY <1>5, <1>6, <3>1
    <3> QED  BY <3>2 DEF Range
  <2> QED  BY <1>1, <1>5, <2>1, <2>2 DEF Range
<1>10. Fronted(s, i) = q
  BY DEF Fronted, Prefixed, q, d
<1>11. Rearranges(q, s, h)
  BY <1>1, <1>5, <1>6, <1>7, <1>9 DEF Rearranges
<1> QED  BY <1>4, <1>10, <1>11 DEF h

\* Choosing the default outbound is sound.
LEMMA SetFirstDone == ASSUME Kept(draft), NEW i \in DOMAIN draft.outs, SetFirst(i) PROVE Drafted
<1> DEFINE s == draft.outs
           q == Fronted(s, i)
           h == FrontPlaces(s, i)
<1>1. SetDraft([draft EXCEPT !.outs = q], 0)
  BY DEF SetFirst, Fronted
<1>2. s \in Seq(Outbound) /\ i \in DOMAIN s
  BY KeptIs
<1> HIDE DEF s
<1>3. q \in Seq(Outbound) /\ Rearranges(q, s, h)
  BY <1>2, FrontIs
<1> HIDE DEF q, h
<1>4. Edited(draft, [draft EXCEPT !.outs = q], 0)
  BY <1>3, OutsReordered DEF s
<1> QED  BY <1>1, <1>4, EditDone, NoRow

\* An outbound whose handler takes it away without looking for what names it,
\* or only at the rules.
Spared(T, tag) == tag = Warp \/ (tag = Direct /\ \A r \in Range(T.rules) : r.out # Direct)

\* Taking away an outbound that is spared leaves every reference sound.
LEMMA OutRemoved ==
  ASSUME NEW T, Kept(T), NEW i \in DOMAIN T.outs,
         Spared(T, T.outs[i].tag)
  PROVE  /\ Edited(T, [T EXCEPT !.outs = RemoveAt(T.outs, i)], 0)
         /\ [T EXCEPT !.outs = RemoveAt(T.outs, i)].bals = T.bals
         /\ [T EXCEPT !.outs = RemoveAt(T.outs, i)].rules = T.rules
<1> DEFINE s == T.outs
           q == RemoveAt(s, i)
<1>1. s \in Seq(Outbound) /\ UniqueVisible(s) /\ i \in DOMAIN s
  BY KeptIs
<1>2. q \in Seq(Outbound) /\ \E h : Picks(q, s, h, DOMAIN s \ {i})
  BY <1>1, RemovePicks
<1>3. PICK h : Picks(q, s, h, DOMAIN s \ {i})
  BY <1>2
<1> HIDE DEF q
<1>4. UniqueVisible(q)
  <2> DEFINE K == DOMAIN s \ {i}
  <2>1. K \subseteq DOMAIN s /\ Picks(q, s, h, K)
    BY <1>3
  <2> HIDE DEF K, s
  <2> QED  BY <1>1, <1>2, <2>1, PicksUnique
<1>5. Range(q) = {s[k] : k \in DOMAIN s \ {i}}
  BY <1>3, PicksRange
<1>6. \A x \in Range(s) : x \in Range(q) \/ x = s[i]
  BY <1>5 DEF Range
<1>7. \A x \in Range(q) : x \in Range(s)
  BY <1>5 DEF Range
<1>8. \A t \in TagsOf(s) : t \in TagsOf(q) \/ t = s[i].tag
  BY <1>6 DEF TagsOf
<1>9. s[i].tag \in Outs /\ s[i].tag \notin Loops
  BY TagsAssumption, LoopIs DEF Spared
<1>10. TagsOf(s) \cap Loops \subseteq TagsOf(q)
  BY <1>8, <1>9
<1>11. \A t \in TagsOf(s) \cap Outs : \/ t \in TagsOf(q) \cup {Warp}
                                      \/ t = Direct /\ \A r \in Range(T.rules) : r.out # Direct
  BY <1>8 DEF Spared
<1>12. /\ Edited(T, [T EXCEPT !.outs = q], 0)
       /\ [T EXCEPT !.outs = q].bals = T.bals /\ [T EXCEPT !.outs = q].rules = T.rules
       /\ [T EXCEPT !.outs = q].outs = q
  BY <1>2, <1>4, <1>7, <1>10, <1>11, OutsEdited
<1> QED  BY <1>12 DEF q

\* The WARP dialog's deletion is sound, since WARP is spared.
LEMMA RemoveWarpDone == ASSUME Kept(draft), RemoveWarp PROVE Drafted
<1> DEFINE at == TagAt(draft.outs, Warp)
<1>1. at > 0 /\ SetDraft([draft EXCEPT !.outs = RemoveAt(draft.outs, at)], 0)
  BY DEF RemoveWarp, TagAt
<1>2. draft.outs \in Seq(Outbound)
  BY KeptIs
<1>3. at \in DOMAIN draft.outs /\ draft.outs[at].tag = Warp
  <2>1. /\ at \in 0..Len(draft.outs)
        /\ at # 0 => at \in DOMAIN draft.outs /\ draft.outs[at].tag = Warp
        /\ at = 0 => Warp \notin TagsOf(draft.outs)
    BY <1>2, TagAtIs
  <2> HIDE DEF at
  <2> QED  BY <1>1, <2>1
<1> HIDE DEF at
<1>4. Edited(draft, [draft EXCEPT !.outs = RemoveAt(draft.outs, at)], 0)
  <2>1. Spared(draft, draft.outs[at].tag)
    BY <1>3 DEF Spared
  <2> QED  BY <1>3, <2>1, OutRemoved
<1> QED  BY <1>1, <1>4, EditDone, NoRow

-----------------------------------------------------------------------------
(* Basic Routing.                                                          *)

\* Two edits of the same balancers are one.
LEMMA EditedOn ==
  ASSUME NEW T, NEW D, NEW E, Edited(T, D, 0), Edited(D, E, 0), D.bals = T.bals, E.bals = T.bals,
         Destinationless(E) <= Destinationless(T)
  PROVE  Edited(T, E, 0)
<1>1. LeadsKept(T, D, 0) /\ LeadsKept(D, E, 0) /\ Kept(E)
  BY DEF Edited
<1>2. LeadsKept(T, E, 0)
  BY <1>1 DEF LeadsKept
<1> QED  BY <1>1, <1>2 DEF Edited

\* The rules after the list of direct addresses has been set.
DirectRules(rules, q) ==
  /\ q \in Seq(Rule) /\ Cardinality(BareAt(q)) <= Cardinality(BareAt(rules))
  /\ \A x \in Range(q) : x \in Range(rules) \/ x = [in |-> AnyIn, out |-> Direct, bal |-> None]
  /\ \A i \in DOMAIN rules : rules[i] \in Range(q) \/ ~IsLoop(rules[i].in)

\* A rule more that has a destination.
LEMMA BareAppend ==
  ASSUME NEW S, NEW s \in Seq(S), NEW e \in S, e.out # None
  PROVE  Cardinality(BareAt(Append(s, e))) <= Cardinality(BareAt(s))
<1> DEFINE q == Append(s, e)
           h == [k \in Nat |-> k]
<1>1. /\ q \in Seq(S) /\ DOMAIN q = 1..(Len(s) + 1) /\ \A k \in 1..Len(s) : q[k] = s[k]
      /\ q[Len(s) + 1] = e /\ DOMAIN s = 1..Len(s) /\ Len(s) \in Nat
  BY AppendIs
<1> HIDE DEF q
<1>2. ASSUME NEW k \in BareAt(q) PROVE h[k] \in BareAt(s) /\ h[k] = k
  <2>1. k \in 1..(Len(s) + 1) /\ q[k].out = None /\ q[k].bal = None
    BY <1>1 DEF BareAt
  <2>2. k \in 1..Len(s)
    BY <1>1, <2>1
  <2> QED  BY <1>1, <2>1, <2>2 DEF BareAt
<1>3. \A j, k \in BareAt(q) : h[j] = h[k] => j = k
  BY <1>2
<1> HIDE DEF h
<1>4. Cardinality(BareAt(q)) <= Cardinality(BareAt(s))
  BY <1>1, <1>2, <1>3, BareBound
<1> QED  BY <1>4 DEF q

\* Both ways Basic Routing rewrites the rules keep the hidden ones.
LEMMA DirectRulesIs ==
  ASSUME NEW T, Kept(T), NEW gone, \A i \in gone : i \in VisibleRules(T)
  PROVE  /\ DirectRules(T.rules, Append(T.rules, [in |-> AnyIn, out |-> Direct, bal |-> None]))
         /\ DirectRules(T.rules, DropAt(T.rules, gone))
<1> DEFINE s == T.rules
           e == [in |-> AnyIn, out |-> Direct, bal |-> None]
           q == Append(s, e)
           d == DropAt(s, gone)
<1>1. s \in Seq(Rule)
  BY KeptIs
<1>2. e \in Rule /\ e.out = Direct /\ Direct # None
  BY TagsAssumption, LoopIs DEF Rule
<1> HIDE DEF e
<1>3. DirectRules(s, q)
  <2>1. q \in Seq(Rule) /\ Range(q) = Range(s) \cup {e}
    BY <1>1, <1>2, AppendIs
  <2>2. Cardinality(BareAt(q)) <= Cardinality(BareAt(s))
    BY <1>1, <1>2, BareAppend
  <2>3. \A i \in DOMAIN s : s[i] \in Range(q)
    BY <2>1 DEF Range
  <2> HIDE DEF q, s
  <2> QED  BY <2>1, <2>2, <2>3 DEF DirectRules, e
<1>4. DirectRules(s, d)
  <2> DEFINE K == DOMAIN s \ gone
  <2>1. d \in Seq(Rule) /\ \E h : Picks(d, s, h, DOMAIN s \ gone)
    BY <1>1, DropIs
  <2>2. PICK h : Picks(d, s, h, K)
    BY <2>1
  <2> HIDE DEF d
  <2>3. K \subseteq DOMAIN s
    OBVIOUS
  <2>4. Range(d) = {s[i] : i \in K}
    BY <2>2, PicksRange
  <2>5. \A x \in Range(d) : x \in Range(s)
    BY <2>4 DEF Range
  <2>6. \A i \in DOMAIN s : s[i] \in Range(d) \/ ~IsLoop(s[i].in)
    BY <2>4 DEF VisibleRules
  <2> HIDE DEF K
  <2>7. Cardinality(BareAt(d)) <= Cardinality(BareAt(s))
    BY <1>1, <2>1, <2>2, <2>3, BarePicks
  <2> HIDE DEF s
  <2> QED  BY <2>1, <2>5, <2>6, <2>7 DEF DirectRules
<1> QED  BY <1>3, <1>4 DEF e

\* An outbound that Basic Routing brings back, or finds.
LEMMA DirectEnsured ==
  ASSUME NEW T, Kept(T)
  PROVE  LET o == IF TagAt(T.outs, Direct) = 0 THEN Append(T.outs, [tag |-> Direct, dialer |-> None])
                  ELSE T.outs
             E == [T EXCEPT !.outs = o]
         IN  /\ Edited(T, E, 0) /\ E.bals = T.bals /\ E.rules = T.rules /\ E.outs = o
             /\ o \in Seq(Outbound) /\ Direct \in TagsOf(o)
<1> DEFINE s == T.outs
           e == [tag |-> Direct, dialer |-> None]
           o == IF TagAt(s, Direct) = 0 THEN Append(s, e) ELSE s
<1>1. s \in Seq(Outbound) /\ UniqueVisible(s) /\ \A i \in DOMAIN s : s[i].tag \in TagsOf(s)
  BY KeptIs
<1>2. e \in Outbound /\ e.tag = Direct /\ e.dialer = None
  BY TagsAssumption DEF Outbound
<1> HIDE DEF e
<1>3. /\ TagAt(s, Direct) # 0 => TagAt(s, Direct) \in DOMAIN s /\ s[TagAt(s, Direct)].tag = Direct
      /\ TagAt(s, Direct) = 0 => Direct \notin TagsOf(s)
  <2> HIDE DEF s
  <2> QED  BY <1>1, TagAtIs
<1>4. /\ o \in Seq(Outbound) /\ UniqueVisible(o) /\ TagsOf(s) \subseteq TagsOf(o) /\ Direct \in TagsOf(o)
      /\ \A x \in Range(o) : x \in Range(s) \/ x.dialer = None
  <2>1. CASE TagAt(s, Direct) # 0
    <3>1. o = s
      BY <2>1
    <3> HIDE DEF o, s
    <3> QED  BY <1>1, <1>3, <2>1, <3>1
  <2>2. CASE TagAt(s, Direct) = 0
    <3> DEFINE q == Append(s, e)
    <3> HIDE DEF s
    <3>1. q \in Seq(Outbound) /\ Range(q) = Range(s) \cup {e}
      BY <1>1, <1>2, AppendIs
    <3>2. UniqueVisible(q)
      BY <1>1, <1>2, <1>3, <2>2, UniqueAppend
    <3> HIDE DEF q
    <3>3. TagsOf(s) \subseteq TagsOf(q) /\ Direct \in TagsOf(q)
      BY <1>2, <3>1 DEF TagsOf
    <3>4. \A x \in Range(q) : x \in Range(s) \/ x.dialer = None
      BY <1>2, <3>1
    <3>5. o = q
      BY <2>2 DEF q
    <3> HIDE DEF o
    <3> QED  BY <3>1, <3>2, <3>3, <3>4, <3>5
  <2> QED  BY <2>1, <2>2
<1> HIDE DEF o
<1>5. /\ Edited(T, [T EXCEPT !.outs = o], 0)
      /\ [T EXCEPT !.outs = o].bals = T.bals /\ [T EXCEPT !.outs = o].rules = T.rules
      /\ [T EXCEPT !.outs = o].outs = o
  BY <1>4, OutsEdited, LoopIs
<1> QED  BY <1>4, <1>5 DEF o, e

\* With a rule to it the direct outbound is kept or added.
LEMMA DirectUsed ==
  ASSUME NEW T, Kept(T), NEW q, DirectRules(T.rules, q), \E r \in Range(q) : r.out = Direct
  PROVE  Edited(T, SyncOutbound([T EXCEPT !.rules = q], Direct), 0)
<1> DEFINE e == [tag |-> Direct, dialer |-> None]
           o == IF TagAt(T.outs, Direct) = 0 THEN Append(T.outs, e) ELSE T.outs
           D == [T EXCEPT !.rules = q]
           F == [T EXCEPT !.outs = o]
           E == Make(o, T.bals, q, T.obs)
<1>1. /\ Sound(T) /\ T \in Template /\ UniqueVisible(T.outs) /\ UniqueRows(T.bals)
      /\ T.outs \in Seq(Outbound) /\ T.bals \in Seq(Balancer) /\ T.rules \in Seq(Rule)
      /\ T.obs \in Observer /\ OutboundTags(T) = TagsOf(T.outs)
      /\ \A i \in DOMAIN T.outs : T.outs[i].tag \in TagsOf(T.outs)
  BY KeptIs
<1>2. /\ q \in Seq(Rule) /\ Cardinality(BareAt(q)) <= Cardinality(BareAt(T.rules))
      /\ \A x \in Range(q) : x \in Range(T.rules) \/ x = [in |-> AnyIn, out |-> Direct, bal |-> None]
      /\ \A i \in DOMAIN T.rules : T.rules[i] \in Range(q) \/ ~IsLoop(T.rules[i].in)
  BY DEF DirectRules
<1>3. /\ Edited(T, F, 0) /\ F.bals = T.bals /\ F.rules = T.rules /\ F.outs = o
      /\ o \in Seq(Outbound) /\ Direct \in TagsOf(o)
  BY DirectEnsured, Zenon
<1>4. SyncOutbound(D, Direct) = E
  <2>1. D = Make(T.outs, T.bals, q, T.obs)
    BY <1>1, Rewrites, Zenon
  <2>2. D \in Template /\ D.outs = T.outs /\ D.bals = T.bals /\ D.rules = q /\ D.obs = T.obs
    BY <1>1, <1>2, <2>1, MakeIs
  <2> HIDE DEF D
  <2>3. SyncOutbound(D, Direct) = [D EXCEPT !.outs = o]
    <3>1. \E r \in Range(D.rules) : r.out = Direct
      BY <2>2
    <3>2. SyncOutbound(D, Direct) =
            [D EXCEPT !.outs = IF TagAt(D.outs, Direct) = 0 THEN Append(D.outs, e) ELSE D.outs]
      BY <3>1 DEF SyncOutbound, TagAt
    <3> QED  BY <2>2, <3>2
  <2> HIDE DEF o
  <2>4. [D EXCEPT !.outs = o] = Make(o, D.bals, D.rules, D.obs)
    BY <2>2, Rewrites, Zenon
  <2> QED  BY <2>2, <2>3, <2>4
<1>5. F \in Template /\ F.obs = T.obs /\ Kept(F)
  <2> HIDE DEF o
  <2>1. F = Make(o, T.bals, T.rules, T.obs)
    BY <1>1, Rewrites, Zenon
  <2>2. F.obs = T.obs
    BY <2>1, MakeIs
  <2> HIDE DEF F
  <2> QED  BY <1>3, <2>2 DEF Edited, Kept, Sound
<1> HIDE DEF o, F
<1>6. [F EXCEPT !.rules = q] = E
  <2>1. [F EXCEPT !.rules = q] = Make(F.outs, F.bals, q, F.obs)
    BY <1>5, Rewrites, Zenon
  <2> QED  BY <1>3, <1>5, <2>1
<1>7. ASSUME NEW x \in Range(q) PROVE x \in Range(F.rules) \/ Resolves(F, x)
  <2>1. CASE x = [in |-> AnyIn, out |-> Direct, bal |-> None]
    <3>1. x \in Rule /\ x.in = AnyIn /\ x.out = Direct /\ x.bal = None
      BY <2>1, TagsAssumption DEF Rule
    <3>2. ~IsLoop(x.in)
      BY <3>1, TagsAssumption DEF IsLoop
    <3>3. Direct \in OutboundTags(F)
      BY <1>3, TagsIs
    <3> QED  BY <3>1, <3>2, <3>3 DEF Resolves
  <2> QED  BY <1>2, <1>3, <2>1
<1>8. \A i \in DOMAIN F.rules : F.rules[i] \in Range(q) \/ i \in VisibleRules(F)
  BY <1>2, <1>3 DEF VisibleRules
<1>9. Edited(F, E, 0)
  <2>1. Edited(F, [F EXCEPT !.rules = q], 0)
    BY <1>2, <1>5, <1>7, <1>8, RulesRewritten
  <2> QED  BY <1>6, <2>1
<1>10. E.bals = T.bals /\ E.rules = q
  BY MakeIs
<1>11. Destinationless(E) <= Destinationless(T)
  <2> HIDE DEF E
  <2> QED  BY <1>2, <1>10 DEF Destinationless, BareAt
<1> HIDE DEF E
<1>12. Edited(T, E, 0)
  BY <1>3, <1>9, <1>10, <1>11, EditedOn
<1> QED  BY <1>4, <1>12

\* Without a rule to it the direct outbound may go.
LEMMA DirectUnused ==
  ASSUME NEW T, Kept(T), NEW q, DirectRules(T.rules, q), ~\E r \in Range(q) : r.out = Direct
  PROVE  Edited(T, SyncOutbound([T EXCEPT !.rules = q], Direct), 0)
<1> DEFINE D == [T EXCEPT !.rules = q]
           at == TagAt(D.outs, Direct)
           E == SyncOutbound(D, Direct)
<1>1. /\ q \in Seq(Rule) /\ Cardinality(BareAt(q)) <= Cardinality(BareAt(T.rules))
      /\ \A x \in Range(q) : x \in Range(T.rules) \/ x = [in |-> AnyIn, out |-> Direct, bal |-> None]
      /\ \A i \in DOMAIN T.rules : T.rules[i] \in Range(q) \/ ~IsLoop(T.rules[i].in)
  BY DEF DirectRules
<1>2. \A x \in Range(q) : x \in Range(T.rules)
  BY <1>1
<1>3. \A i \in DOMAIN T.rules : T.rules[i] \in Range(q) \/ i \in VisibleRules(T)
  BY <1>1 DEF VisibleRules
<1>4. Edited(T, D, 0)
  BY <1>1, <1>2, <1>3, RulesRewritten
<1>5. D.bals = T.bals /\ D.rules = q
  <2>1. D = Make(T.outs, T.bals, q, T.obs)
    BY KeptIs, Rewrites, Zenon
  <2> QED  BY <2>1, MakeIs
<1> HIDE DEF D
<1>6. D \in Template /\ D.outs \in Seq(Outbound) /\ Kept(D)
  BY <1>4, KeptIs DEF Edited
<1>7. Edited(D, E, 0) /\ E.bals = D.bals /\ E.rules = D.rules
  <2>1. ~\E r \in Range(D.rules) : r.out = Direct
    BY <1>5
  <2>2. E = IF at > 1 THEN [D EXCEPT !.outs = RemoveAt(D.outs, at)] ELSE [D EXCEPT !.outs = D.outs]
    BY <2>1 DEF SyncOutbound, TagAt
  <2>3. /\ at \in 0..Len(D.outs)
        /\ at # 0 => at \in DOMAIN D.outs /\ D.outs[at].tag = Direct
        /\ at = 0 => Direct \notin TagsOf(D.outs)
    BY <1>6, TagAtIs
  <2> HIDE DEF at, E
  <2>4. CASE at > 1
    <3>1. at \in DOMAIN D.outs /\ Spared(D, D.outs[at].tag)
      BY <2>1, <2>3, <2>4 DEF Spared
    <3>2. /\ Edited(D, [D EXCEPT !.outs = RemoveAt(D.outs, at)], 0)
          /\ [D EXCEPT !.outs = RemoveAt(D.outs, at)].bals = D.bals
          /\ [D EXCEPT !.outs = RemoveAt(D.outs, at)].rules = D.rules
      BY <1>6, <3>1, OutRemoved
    <3> QED  BY <2>2, <2>4, <3>2
  <2>5. CASE ~(at > 1)
    <3> DEFINE o == D.outs
    <3>1. UniqueVisible(o) /\ o \in Seq(Outbound)
      BY <1>6, KeptIs
    <3>2. /\ TagsOf(D.outs) \cap Loops \subseteq TagsOf(o)
          /\ \A t \in TagsOf(D.outs) \cap Outs : t \in TagsOf(o)
          /\ \A x \in Range(o) : x \in Range(D.outs)
      OBVIOUS
    <3>3. E = [D EXCEPT !.outs = o]
      BY <2>2, <2>5
    <3> HIDE DEF o
    <3>4. /\ Edited(D, [D EXCEPT !.outs = o], 0)
          /\ [D EXCEPT !.outs = o].bals = D.bals /\ [D EXCEPT !.outs = o].rules = D.rules
          /\ [D EXCEPT !.outs = o].outs = o
      BY <1>6, <3>1, <3>2, OutsEdited
    <3> QED  BY <3>3, <3>4
  <2> QED  BY <2>4, <2>5
<1> HIDE DEF E
<1>8. Destinationless(E) <= Destinationless(T)
  BY <1>1, <1>5, <1>7 DEF Destinationless, BareAt
<1>9. Edited(T, E, 0)
  BY <1>4, <1>5, <1>7, <1>8, EditedOn
<1> QED  BY <1>9 DEF E, D

\* The direct list of Basic Routing is sound.
LEMMA SetDirectDone == ASSUME Kept(draft), SetDirect PROVE Drafted
<1> DEFINE fresh == [in |-> AnyIn, out |-> Direct, bal |-> None]
<1>1. PICK carrying \in SUBSET {i \in VisibleRules(draft) : draft.rules[i].out = Direct},
           kept \in BOOLEAN :
        LET first == IF kept THEN {i \in carrying : \A j \in carrying : i <= j} ELSE {}
            rules == IF carrying = {} THEN Append(draft.rules, fresh)
                     ELSE DropAt(draft.rules, carrying \ first)
        IN  SetDraft(SyncOutbound([draft EXCEPT !.rules = rules], Direct), 0)
  BY DEF SetDirect
<1> DEFINE first == IF kept THEN {i \in carrying : \A j \in carrying : i <= j} ELSE {}
           gone == carrying \ first
           q == IF carrying = {} THEN Append(draft.rules, fresh) ELSE DropAt(draft.rules, gone)
<1>2. SetDraft(SyncOutbound([draft EXCEPT !.rules = q], Direct), 0)
  BY <1>1
<1>3. \A i \in gone : i \in VisibleRules(draft)
  OBVIOUS
<1> HIDE DEF gone
<1>4. DirectRules(draft.rules, Append(draft.rules, fresh)) /\ DirectRules(draft.rules, DropAt(draft.rules, gone))
  BY <1>3, DirectRulesIs
<1>5. DirectRules(draft.rules, q)
  BY <1>4
<1> HIDE DEF q
<1>6. Edited(draft, SyncOutbound([draft EXCEPT !.rules = q], Direct), 0)
  BY <1>5, DirectUsed, DirectUnused
<1> QED  BY <1>2, <1>6, EditDone, NoRow

\* The shipped template is sound.
LEMMA ResetDefaultDone == ASSUME Kept(draft), ResetDefault PROVE Drafted
<1>1. PICK T \in InitialTemplates : T.bals = <<>> /\ SetDraft(T, 0)
  BY DEF ResetDefault
<1>2. /\ T \in Template /\ Len(T.bals) <= MaxBals /\ UniqueTags(T)
      /\ Consistent(T) /\ HiddenRulesLead(T) /\ Destinationless(T) = 0
  BY <1>1, TemplatesAssumption
<1>3. Kept(T)
  BY <1>2 DEF Kept, Sound, Consistent
<1>4. draft \in Template /\ Destinationless(draft) \in Nat /\ draft.bals \in Seq(Balancer)
  BY KeptIs, DestinationlessType
<1>5. Len(T.bals) = Len(draft.bals) => LeadsKept(draft, T, 0)
  <2>1. Len(T.bals) = 0
    BY <1>1
  <2>2. Len(draft.bals) = 0 => DOMAIN draft.bals = {}
    BY <1>4
  <2> QED  BY <2>1, <2>2 DEF LeadsKept
<1>6. Edited(draft, T, 0)
  BY <1>2, <1>3, <1>4, <1>5 DEF Edited
<1> QED  BY <1>1, <1>6, EditDone, NoRow

-----------------------------------------------------------------------------
(* Renaming.                                                               *)

\* A sequence mapped into a set.
LEMMA MapIs ==
  ASSUME NEW S, NEW S2, NEW s \in Seq(S), NEW f, f = [i \in DOMAIN s |-> f[i]], \A i \in DOMAIN s : f[i] \in S2
  PROVE  f \in Seq(S2) /\ Len(f) = Len(s) /\ DOMAIN f = DOMAIN s
<1>1. DOMAIN s = 1..Len(s) /\ Len(s) \in Nat
  OBVIOUS
<1>2. f \in [1..Len(s) -> S2]
  BY <1>1
<1> QED  BY <1>1, <1>2

\* Renaming touches the old tag alone.
LEMMA RenamedIs ==
  ASSUME NEW old, NEW new, NEW tag
  PROVE  /\ tag = old => Renamed(tag, old, new) = new
         /\ tag # old => Renamed(tag, old, new) = tag
  BY DEF Renamed

ReDial(o, old, new) == [o EXCEPT !.dialer = Renamed(@, old, new)]
ReOut(r, old, new) == [r EXCEPT !.out = Renamed(@, old, new)]
ReFall(b, old, new) == [b EXCEPT !.fb = Renamed(@, old, new), !.sel = {Renamed(s, old, new) : s \in @}]

\* An outbound whose dialer is renamed.
LEMMA ReDialIs ==
  ASSUME NEW o \in Outbound, NEW old \in Outs, NEW new \in Outs
  PROVE  /\ ReDial(o, old, new) \in Outbound /\ ReDial(o, old, new).tag = o.tag
         /\ ReDial(o, old, new).dialer = Renamed(o.dialer, old, new)
  BY DEF ReDial, Outbound, Renamed

\* A rule whose outbound is renamed.
LEMMA ReOutIs ==
  ASSUME NEW r \in Rule, NEW old \in Outs, NEW new \in Outs
  PROVE  /\ ReOut(r, old, new) \in Rule /\ ReOut(r, old, new).in = r.in
         /\ ReOut(r, old, new).bal = r.bal /\ ReOut(r, old, new).out = Renamed(r.out, old, new)
  BY DEF ReOut, Rule, Renamed

\* A balancer whose fallback and selectors are renamed.
LEMMA ReFallIs ==
  ASSUME NEW b \in Balancer, NEW old \in Outs, NEW new \in Outs
  PROVE  /\ ReFall(b, old, new) \in Balancer /\ ReFall(b, old, new).tag = b.tag
         /\ ReFall(b, old, new).strat = b.strat
         /\ ReFall(b, old, new).fb = Renamed(b.fb, old, new)
         /\ ReFall(b, old, new).sel = {Renamed(s, old, new) : s \in b.sel}
<1> DEFINE sel == {Renamed(s, old, new) : s \in b.sel}
           fb == Renamed(b.fb, old, new)
           c == [b EXCEPT !.fb = fb]
           d == [c EXCEPT !.sel = sel]
<1>1. sel \subseteq Outs /\ fb \in Outs \cup Bals \cup Loops \cup {None}
  BY DEF Renamed, Balancer
<1>2. ReFall(b, old, new) = d
  <2> HIDE DEF fb
  <2>1. ReFall(b, old, new) = [b EXCEPT !.fb = fb, !.sel = sel]
    BY DEF ReFall, fb
  <2> HIDE DEF sel
  <2> QED  BY <2>1
<1> HIDE DEF sel, fb
<1>3. c \in Balancer /\ c.tag = b.tag /\ c.strat = b.strat /\ c.fb = fb
  BY <1>1 DEF Balancer
<1> HIDE DEF c
<1>4. d \in Balancer /\ d.tag = c.tag /\ d.strat = c.strat /\ d.fb = c.fb /\ d.sel = sel
  BY <1>1, <1>3 DEF Balancer
<1> HIDE DEF d
<1> QED  BY <1>2, <1>3, <1>4 DEF sel, fb

Rewritten(T, r, b, o) == [T EXCEPT !.rules = r, !.bals = b, !.outs = o]

\* The three tables rewritten at once.
LEMMA RewrittenIs ==
  ASSUME NEW T \in Template, NEW o, NEW b, NEW r
  PROVE  Rewritten(T, r, b, o) = Make(o, b, r, T.obs)
<1>1. T = Make(T.outs, T.bals, T.rules, T.obs)
  BY Fields
<1>2. WithRules(T, r) = Make(T.outs, T.bals, r, T.obs)
  BY <1>1, RewriteOne
<1>3. WithOuts(WithBals(WithRules(T, r), b), o) = Make(o, b, r, T.obs)
  BY <1>2, RewriteOne
<1> QED  BY <1>3 DEF Rewritten, WithOuts, WithBals, WithRules

\* A renamed outbound is renamed wherever it is named.
LEMMA OutboundRenamed ==
  ASSUME NEW T, Kept(T), NEW i \in VisibleOuts(T), NEW new \in Outs \ OutboundTags(T),
         NEW dial \in Dialers(T, T.outs[i])
  PROVE  LET D == [T EXCEPT !.outs[i] = [tag |-> new, dialer |-> dial]]
         IN  Edited(T, PropagateOutboundRename(D, T.outs[i].tag, new), 0)
<1> DEFINE old == T.outs[i].tag
           e == [tag |-> new, dialer |-> dial]
           p == [T.outs EXCEPT ![i] = e]
           D == [T EXCEPT !.outs[i] = e]
           o == [k \in DOMAIN p |-> ReDial(p[k], old, new)]
           b == [k \in DOMAIN T.bals |-> ReFall(T.bals[k], old, new)]
           r == [k \in DOMAIN T.rules |-> ReOut(T.rules[k], old, new)]
           E == Make(o, b, r, T.obs)
           known == TagsOf(T.outs)
<1>1. /\ Sound(T) /\ T \in Template /\ UniqueVisible(T.outs) /\ UniqueRows(T.bals)
      /\ T.outs \in Seq(Outbound) /\ T.bals \in Seq(Balancer) /\ T.rules \in Seq(Rule)
      /\ T.obs \in Observer /\ OutboundTags(T) = known
      /\ \A k \in DOMAIN T.outs : T.outs[k].tag \in known
  BY KeptIs
<1>2. i \in DOMAIN T.outs /\ ~IsLoop(old) /\ old \in Outs /\ old \in known /\ T.outs[i] \in Range(T.outs)
  <2>1. i \in DOMAIN T.outs /\ ~IsLoop(T.outs[i].tag)
    BY DEF VisibleOuts
  <2>2. T.outs[i].tag \in Outs \cup Loops /\ T.outs[i] \in Range(T.outs)
    BY <1>1, <2>1, Elements
  <2> QED  BY <1>1, <2>1, <2>2 DEF IsLoop
<1>3. new \in Outs /\ new \notin known /\ new # old
  BY <1>1, <1>2
<1>4. known \subseteq Outs \cup Loops
  BY <1>1, TagSets
<1>5. dial \in Outs \cup Loops \cup {None} /\ (dial \in Outs => dial \in known \cup {Warp, Direct})
  <2>1. dial \in {None, T.outs[i].dialer} \cup known
    BY <1>1 DEF Dialers
  <2>2. T.outs[i].dialer \in Outs => T.outs[i].dialer \in known \cup {Warp, Direct}
    BY <1>1, <1>2 DEF Sound, OutboundRefsResolve
  <2>3. T.outs[i].dialer \in Outs \cup Loops \cup {None}
    BY <1>1, <1>2, Elements
  <2> QED  BY <1>4, <2>1, <2>2, <2>3, LoopIs
<1>6. e \in Outbound /\ e.tag = new /\ e.dialer = dial
  BY <1>3, <1>5 DEF Outbound
<1> HIDE DEF e
<1>7. /\ p \in Seq(Outbound) /\ DOMAIN p = DOMAIN T.outs
      /\ \A k \in DOMAIN T.outs : p[k] = IF k = i THEN e ELSE T.outs[k]
  BY <1>1, <1>2, <1>6
<1>8. D = Make(p, T.bals, T.rules, T.obs)
  <2>1. D = [T EXCEPT !.outs = p]
    OBVIOUS
  <2> HIDE DEF p, D
  <2> QED  BY <1>1, <2>1, Rewrites, Zenon
<1>9. PropagateOutboundRename(D, old, new) = E
  <2> HIDE DEF old, p, D
  <2>1. D.outs = p /\ D.bals = T.bals /\ D.rules = T.rules /\ D.obs = T.obs /\ D \in Template
    BY <1>1, <1>7, <1>8, MakeIs
  <2>2. PropagateOutboundRename(D, old, new) = Rewritten(D, r, b, o)
    BY <2>1 DEF PropagateOutboundRename, Map, ReDial, ReFall, ReOut, Rewritten
  <2> HIDE DEF r, b, o
  <2>3. Rewritten(D, r, b, o) = Make(o, b, r, D.obs)
    BY <2>1, RewrittenIs
  <2> QED  BY <2>1, <2>2, <2>3
<1> HIDE DEF old, p, D
<1>10. \A k \in DOMAIN T.outs :
         /\ o[k] \in Outbound /\ o[k].tag = p[k].tag /\ o[k].dialer = Renamed(p[k].dialer, old, new)
  <2>1. \A k \in DOMAIN T.outs : p[k] \in Outbound /\ o[k] = ReDial(p[k], old, new)
    BY <1>7
  <2> HIDE DEF o
  <2> QED  BY <1>2, <1>3, <2>1, ReDialIs
<1>11. \A k \in DOMAIN T.bals :
         /\ b[k] \in Balancer /\ b[k].tag = T.bals[k].tag /\ b[k].strat = T.bals[k].strat
         /\ b[k].fb = Renamed(T.bals[k].fb, old, new)
         /\ b[k].sel = {Renamed(s, old, new) : s \in T.bals[k].sel}
  <2>1. \A k \in DOMAIN T.bals : T.bals[k] \in Balancer /\ b[k] = ReFall(T.bals[k], old, new)
    BY <1>1
  <2> HIDE DEF b
  <2> QED  BY <1>2, <1>3, <2>1, ReFallIs
<1>12. \A k \in DOMAIN T.rules :
         /\ r[k] \in Rule /\ r[k].in = T.rules[k].in /\ r[k].bal = T.rules[k].bal
         /\ r[k].out = Renamed(T.rules[k].out, old, new)
  <2>1. \A k \in DOMAIN T.rules : T.rules[k] \in Rule /\ r[k] = ReOut(T.rules[k], old, new)
    BY <1>1
  <2> HIDE DEF r
  <2> QED  BY <1>2, <1>3, <2>1, ReOutIs
<1>13. /\ o \in Seq(Outbound) /\ DOMAIN o = DOMAIN T.outs
       /\ b \in Seq(Balancer) /\ Len(b) = Len(T.bals) /\ DOMAIN b = DOMAIN T.bals
       /\ r \in Seq(Rule) /\ DOMAIN r = DOMAIN T.rules
       /\ Len(o) = Len(T.outs)
  <2>1. o = [k \in DOMAIN p |-> o[k]] /\ b = [k \in DOMAIN T.bals |-> b[k]]
          /\ r = [k \in DOMAIN T.rules |-> r[k]]
    OBVIOUS
  <2> HIDE DEF o, b, r
  <2>2. o \in Seq(Outbound) /\ Len(o) = Len(p) /\ DOMAIN o = DOMAIN p
    BY <1>7, <1>10, <2>1, MapIs
  <2>3. b \in Seq(Balancer) /\ Len(b) = Len(T.bals) /\ DOMAIN b = DOMAIN T.bals
    BY <1>1, <1>11, <2>1, MapIs
  <2>4. r \in Seq(Rule) /\ Len(r) = Len(T.rules) /\ DOMAIN r = DOMAIN T.rules
    BY <1>1, <1>12, <2>1, MapIs
  <2>5. Len(p) = Len(T.outs)
    BY <1>1, <1>7
  <2> QED  BY <1>7, <2>2, <2>3, <2>4, <2>5
<1> HIDE DEF o, b, r
<1>14. E \in Template /\ E.outs = o /\ E.bals = b /\ E.rules = r /\ E.obs = T.obs
  BY <1>1, <1>13, MakeIs
<1> HIDE DEF E
<1>15. \A t \in known \ {old} : t \in OutboundTags(E)
  <2> SUFFICES ASSUME NEW t \in known \ {old} PROVE t \in OutboundTags(E)
    OBVIOUS
  <2>1. PICK k \in DOMAIN T.outs : T.outs[k].tag = t
    BY DEF TagsOf, Range
  <2>2. k # i
    BY <2>1 DEF old
  <2>3. o[k].tag = t /\ o[k] \in Range(E.outs)
    BY <1>7, <1>10, <1>13, <1>14, <2>1, <2>2 DEF Range
  <2> QED  BY <2>3 DEF OutboundTags
<1>16. new \in OutboundTags(E)
  <2>1. o[i].tag = new /\ o[i] \in Range(E.outs)
    BY <1>2, <1>6, <1>7, <1>10, <1>13, <1>14 DEF Range
  <2> QED  BY <2>1 DEF OutboundTags
<1>17. \A t \in Outs : t \in known \cup {Warp, Direct}
                         => Renamed(t, old, new) \in OutboundTags(E) \cup {Warp, Direct}
  BY <1>15, <1>16, RenamedIs
<1>18. \A t \in Outs : t \in known \cup {Warp}
                         => Renamed(t, old, new) \in OutboundTags(E) \cup {Warp}
  BY <1>15, <1>16, RenamedIs
<1>19. \A t : Renamed(t, old, new) \in Outs => t \in Outs
  BY <1>2, RenamedIs
<1>20. BalancerTags(E) = BalancerTags(T)
  <2>1. \A x \in Range(b) : \E y \in Range(T.bals) : x.tag = y.tag
    BY <1>11, <1>13 DEF Range
  <2>2. \A y \in Range(T.bals) : \E x \in Range(b) : x.tag = y.tag
    BY <1>11, <1>13 DEF Range
  <2> QED  BY <1>14, <2>1, <2>2 DEF BalancerTags
<1>21. RulesResolve(E)
  <2> SUFFICES ASSUME NEW k \in DOMAIN r, ~IsLoop(r[k].in)
               PROVE  /\ r[k].bal # None => r[k].bal \in BalancerTags(E)
                      /\ r[k].out \in Outs => r[k].out \in OutboundTags(E) \cup {Warp}
    BY <1>14 DEF RulesResolve, Range
  <2>1. T.rules[k] \in Range(T.rules) /\ ~IsLoop(T.rules[k].in)
    BY <1>1, <1>12, <1>13, Elements
  <2>2. /\ T.rules[k].bal # None => T.rules[k].bal \in BalancerTags(T)
        /\ T.rules[k].out \in Outs => T.rules[k].out \in known \cup {Warp}
    BY <1>1, <2>1 DEF Sound, RulesResolve
  <2> QED  BY <1>12, <1>13, <1>18, <1>19, <1>20, <2>2
<1>22. HiddenRulesLead(E)
  <2> SUFFICES ASSUME NEW k \in DOMAIN r, IsLoop(r[k].in)
               PROVE  r[k].bal = Target(r[k].in) /\ r[k].out = None /\ r[k].in \in OutboundTags(E)
    BY <1>14 DEF HiddenRulesLead, Range
  <2>1. T.rules[k] \in Range(T.rules) /\ IsLoop(T.rules[k].in) /\ r[k].in = T.rules[k].in
    BY <1>1, <1>12, <1>13, Elements
  <2>2. T.rules[k].bal = Target(T.rules[k].in) /\ T.rules[k].out = None /\ T.rules[k].in \in known
    BY <1>1, <2>1 DEF Sound, HiddenRulesLead
  <2>3. r[k].out = None
    BY <1>2, <1>12, <1>13, <2>2, RenamedIs, LoopIs
  <2> QED  BY <1>2, <1>12, <1>13, <1>15, <2>1, <2>2, <2>3
<1>23. OutboundRefsResolve(E)
  <2> DEFINE after == OutboundTags(E) \cup {Warp, Direct}
  <2>1. ASSUME NEW k \in DOMAIN b PROVE b[k].sel \subseteq after /\ (b[k].fb \in Outs => b[k].fb \in after)
    <3>1. T.bals[k] \in Range(T.bals) /\ T.bals[k].sel \subseteq Outs
      BY <1>1, <1>13, Elements
    <3>2. /\ T.bals[k].sel \subseteq known \cup {Warp, Direct}
          /\ T.bals[k].fb \in Outs => T.bals[k].fb \in known \cup {Warp, Direct}
      BY <1>1, <3>1 DEF Sound, OutboundRefsResolve
    <3> QED  BY <1>11, <1>13, <1>17, <1>19, <3>1, <3>2
  <2>2. ASSUME NEW k \in DOMAIN o PROVE o[k].dialer \in Outs => o[k].dialer \in after
    <3>1. p[k].dialer \in Outs => p[k].dialer \in known \cup {Warp, Direct}
      <4>1. CASE k = i
        BY <1>2, <1>5, <1>6, <1>7, <4>1
      <4>2. CASE k # i
        BY <1>1, <1>7, <1>13, <4>2, Elements DEF Sound, OutboundRefsResolve
      <4> QED  BY <4>1, <4>2
    <3> QED  BY <1>10, <1>13, <1>17, <1>19, <3>1
  <2> QED  BY <1>14, <2>1, <2>2 DEF OutboundRefsResolve, Range
<1>24. UniqueTags(E)
  <2>1. UniqueRows(b)
    BY <1>1, <1>11, <1>13 DEF UniqueRows
  <2>2. \A k \in DOMAIN T.outs : o[k].tag = IF k = i THEN new ELSE T.outs[k].tag
    BY <1>6, <1>7, <1>10
  <2>3. UniqueVisible(o)
    BY <1>1, <1>3, <1>13, <2>2 DEF UniqueVisible
  <2> QED  BY <1>14, <2>1, <2>3, UniqueTagsIs
<1>25. ObserverFits(E)
  <2>1. \A k \in DOMAIN b : (b[k].fb = None <=> T.bals[k].fb = None)
    BY <1>2, <1>3, <1>11, <1>13, RenamedIs, LoopIs
  <2>2. \A k \in DOMAIN b : RequiresBurst(b[k]) <=> RequiresBurst(T.bals[k])
    BY <1>11, <1>13, <2>1 DEF RequiresBurst
  <2>3. \A k \in DOMAIN b : IsPing(b[k]) <=> IsPing(T.bals[k])
    BY <1>11, <1>13 DEF IsPing
  <2>4. (\E x \in Range(b) : RequiresBurst(x)) <=> (\E x \in Range(T.bals) : RequiresBurst(x))
    BY <1>13, <2>2 DEF Range
  <2>5. (\E x \in Range(b) : IsPing(x)) <=> (\E x \in Range(T.bals) : IsPing(x))
    BY <1>13, <2>3 DEF Range
  <2>6. NeededObserver(E).kind = NeededObserver(T).kind
    BY <1>14, <2>4, <2>5 DEF NeededObserver
  <2> QED  BY <1>14, <2>6 DEF Kept, ObserverFits
<1>26. Kept(E)
  BY <1>13, <1>14, <1>21, <1>22, <1>23, <1>24, <1>25 DEF Kept, Sound
<1>27. LeadsKept(T, E, 0)
  <2> SUFFICES ASSUME NEW k \in DOMAIN T.bals, NEW j \in DOMAIN T.bals, Leads(T, k, j)
               PROVE  Leads(E, k, j)
    BY DEF LeadsKept
  <2>1. T.bals[k].fb \in Ins(T) /\ T.bals[k].fb \in Loops /\ T.bals[j].tag = Target(T.bals[k].fb)
    BY DEF Leads, Ins
  <2>2. b[k].fb = T.bals[k].fb /\ b[j].tag = T.bals[j].tag
    BY <1>2, <1>11, <2>1, RenamedIs, LoopIs
  <2>3. T.bals[k].fb \in Ins(E)
    <3>1. PICK m \in DOMAIN T.rules : T.rules[m].in = T.bals[k].fb
      BY <2>1 DEF Ins, Range
    <3>2. r[m] \in Range(r) /\ r[m].in = T.bals[k].fb
      BY <1>12, <1>13, <3>1 DEF Range
    <3> QED  BY <1>14, <2>1, <3>2 DEF Ins
  <2> QED  BY <1>14, <2>1, <2>2, <2>3 DEF Leads
<1>28. ~(Len(E.bals) < Len(T.bals)) /\ ~(Len(E.outs) < Len(T.outs))
  BY <1>1, <1>13, <1>14
<1>29. Edited(T, E, 0)
  BY <1>26, <1>27, <1>28 DEF Edited
<1> QED  BY <1>9, <1>29 DEF D, old, e

\* An outbound that keeps its tag may dial through another.
LEMMA OutboundRedialled ==
  ASSUME NEW T, Kept(T), NEW i \in VisibleOuts(T), NEW dial \in Dialers(T, T.outs[i])
  PROVE  Edited(T, [T EXCEPT !.outs[i] = [tag |-> T.outs[i].tag, dialer |-> dial]], 0)
<1> DEFINE e == [tag |-> T.outs[i].tag, dialer |-> dial]
           s == T.outs
           q == [s EXCEPT ![i] = e]
           known == TagsOf(s)
<1>1. /\ Sound(T) /\ T \in Template /\ UniqueVisible(s) /\ s \in Seq(Outbound) /\ OutboundTags(T) = known
      /\ i \in DOMAIN s
  BY KeptIs DEF VisibleOuts
<1>2. s[i] \in Range(s) /\ s[i].tag \in Outs \cup Loops /\ s[i].dialer \in Outs \cup Loops \cup {None}
  BY <1>1, Elements
<1>3. dial \in {None, s[i].dialer} \cup known /\ known \subseteq Outs \cup Loops
  BY <1>1, TagSets DEF Dialers
<1>4. dial \in Outs => dial \in known \cup {Warp, Direct}
  <2>1. s[i].dialer \in Outs => s[i].dialer \in known \cup {Warp, Direct}
    BY <1>1, <1>2 DEF Sound, OutboundRefsResolve
  <2> QED  BY <1>3, <2>1, LoopIs
<1>5. e \in Outbound /\ e.tag = s[i].tag /\ e.dialer = dial
  BY <1>2, <1>3 DEF Outbound
<1>6. [T EXCEPT !.outs[i] = e] = [T EXCEPT !.outs = q]
  OBVIOUS
<1> HIDE DEF e, s
<1>7. /\ q \in Seq(Outbound) /\ DOMAIN q = DOMAIN s
      /\ \A k \in DOMAIN s : q[k] = IF k = i THEN e ELSE s[k]
  BY <1>1, <1>5
<1> HIDE DEF q
<1>8. \A k \in DOMAIN s : q[k].tag = s[k].tag
  BY <1>5, <1>7
<1>9. UniqueVisible(q)
  BY <1>1, <1>7, <1>8 DEF UniqueVisible
<1>10. TagsOf(s) \subseteq TagsOf(q)
  <2> SUFFICES ASSUME NEW t \in TagsOf(s) PROVE t \in TagsOf(q)
    OBVIOUS
  <2>1. PICK k \in DOMAIN s : s[k].tag = t
    BY DEF TagsOf, Range
  <2>2. q[k].tag = t /\ q[k] \in Range(q)
    BY <1>7, <1>8, <2>1 DEF Range
  <2> QED  BY <2>2 DEF TagsOf
<1>11. \A x \in Range(q) : x \in Range(s) \/ (x.dialer \in Outs => x.dialer \in TagsOf(s) \cup {Warp, Direct})
  BY <1>4, <1>5, <1>7 DEF Range
<1>12. /\ Edited(T, [T EXCEPT !.outs = q], 0)
       /\ [T EXCEPT !.outs = q].bals = T.bals /\ [T EXCEPT !.outs = q].rules = T.rules
       /\ [T EXCEPT !.outs = q].outs = q
  BY <1>7, <1>9, <1>10, <1>11, OutsEdited DEF s
<1> QED  BY <1>6, <1>12 DEF e

\* Editing an outbound is sound.
LEMMA EditOutboundDone ==
  ASSUME Kept(draft), NEW i \in VisibleOuts(draft), EditOutbound(i)
  PROVE  Drafted
<1> DEFINE old == draft.outs[i].tag
<1>1. PICK new \in (Outs \ OutboundTags(draft)) \cup {old}, d \in Dialers(draft, draft.outs[i]) :
        LET replaced == [draft EXCEPT !.outs[i] = [tag |-> new, dialer |-> d]]
        IN  SetDraft(IF new = old THEN replaced ELSE PropagateOutboundRename(replaced, old, new), 0)
  BY DEF EditOutbound
<1> DEFINE D == [draft EXCEPT !.outs[i] = [tag |-> new, dialer |-> d]]
<1>2. CASE new = old
  <2>1. Edited(draft, [draft EXCEPT !.outs[i] = [tag |-> draft.outs[i].tag, dialer |-> d]], 0)
    BY OutboundRedialled
  <2>2. Edited(draft, D, 0) /\ SetDraft(D, 0)
    BY <1>1, <1>2, <2>1
  <2> HIDE DEF D
  <2> QED  BY <2>2, EditDone, NoRow
<1>3. CASE new # old
  <2>1. new \in Outs \ OutboundTags(draft)
    BY <1>3
  <2>2. Edited(draft, PropagateOutboundRename(D, old, new), 0)
    BY <2>1, OutboundRenamed
  <2>3. SetDraft(PropagateOutboundRename(D, old, new), 0)
    BY <1>1, <1>3
  <2> HIDE DEF D, old
  <2> QED  BY <2>2, <2>3, EditDone, NoRow
<1> QED  BY <1>2, <1>3

-----------------------------------------------------------------------------
(* Deletion.                                                               *)

Dropped(r, goneOuts, goneBals) ==
  LET c == CleanRule(r, goneOuts, goneBals) IN c # r /\ c.out = None /\ c.bal = None

CleanBalancer(b, goneOuts) == [b EXCEPT !.sel = @ \ goneOuts, !.fb = Without(@, goneOuts)]
CleanOutbound(o, gone) == [o EXCEPT !.dialer = Without(@, gone)]

\* A reference to what is gone becomes empty.
LEMMA WithoutIs ==
  ASSUME NEW tag, NEW gone
  PROVE  /\ tag \in gone => Without(tag, gone) = None
         /\ tag \notin gone => Without(tag, gone) = tag
  BY DEF Without

\* A rule without its references to what is gone.
LEMMA CleanRuleIs ==
  ASSUME NEW r \in Rule, NEW goneOuts, NEW goneBals
  PROVE  LET c == CleanRule(r, goneOuts, goneBals) IN
         /\ c \in Rule /\ c.in = r.in
         /\ c.out = Without(r.out, goneOuts) /\ c.bal = Without(r.bal, goneBals)
         /\ c.out = r.out /\ c.bal = r.bal => c = r
<1> DEFINE x == Without(r.out, goneOuts)
           y == Without(r.bal, goneBals)
           p == [r EXCEPT !.out = x]
           q == [p EXCEPT !.bal = y]
<1>1. x \in Outs \cup Loops \cup {None} /\ y \in Bals \cup {None}
  BY DEF Without, Rule
<1>2. CleanRule(r, goneOuts, goneBals) = q
  <2>1. CleanRule(r, goneOuts, goneBals) = [r EXCEPT !.out = x, !.bal = y]
    BY DEF CleanRule
  <2> HIDE DEF x, y
  <2> QED  BY <2>1
<1> HIDE DEF x, y
<1>3. p \in Rule /\ p.in = r.in /\ p.out = x /\ p.bal = r.bal
  BY <1>1 DEF Rule
<1> HIDE DEF p
<1>4. q \in Rule /\ q.in = p.in /\ q.out = p.out /\ q.bal = y
  BY <1>1, <1>3 DEF Rule
<1> HIDE DEF q
<1>5. q.out = r.out /\ q.bal = r.bal => q = r
  BY <1>3, <1>4 DEF Rule
<1> QED  BY <1>2, <1>3, <1>4, <1>5 DEF x, y

\* A balancer without its references to what is gone.
LEMMA CleanBalancerIs ==
  ASSUME NEW b \in Balancer, NEW goneOuts
  PROVE  LET c == CleanBalancer(b, goneOuts) IN
         /\ c \in Balancer /\ c.tag = b.tag /\ c.sel = b.sel \ goneOuts
         /\ c.fb = Without(b.fb, goneOuts)
<1> DEFINE x == b.sel \ goneOuts
           y == Without(b.fb, goneOuts)
           p == [b EXCEPT !.sel = x]
           q == [p EXCEPT !.fb = y]
<1>1. x \subseteq Outs /\ y \in Outs \cup Bals \cup Loops \cup {None}
  BY DEF Without, Balancer
<1>2. CleanBalancer(b, goneOuts) = q
  <2>1. CleanBalancer(b, goneOuts) = [b EXCEPT !.sel = x, !.fb = y]
    BY DEF CleanBalancer
  <2> HIDE DEF x, y
  <2> QED  BY <2>1
<1> HIDE DEF x, y
<1>3. p \in Balancer /\ p.tag = b.tag /\ p.sel = x
  BY <1>1 DEF Balancer
<1> HIDE DEF p
<1>4. q \in Balancer /\ q.tag = p.tag /\ q.sel = p.sel /\ q.fb = y
  BY <1>1, <1>3 DEF Balancer
<1> HIDE DEF q
<1> QED  BY <1>2, <1>3, <1>4 DEF x, y

\* An outbound without its references to what is gone.
LEMMA CleanOutboundIs ==
  ASSUME NEW o \in Outbound, NEW gone
  PROVE  /\ CleanOutbound(o, gone) \in Outbound /\ CleanOutbound(o, gone).tag = o.tag
         /\ CleanOutbound(o, gone).dialer = Without(o.dialer, gone)
  BY DEF CleanOutbound, Outbound, Without

\* q has what is left of s, cleaned; h says where each row comes from.
RulesCleaned(q, s, h, goneOuts, goneBals) ==
  /\ \A k \in DOMAIN q : /\ h[k] \in DOMAIN s /\ ~Dropped(s[h[k]], goneOuts, goneBals)
                         /\ q[k] = CleanRule(s[h[k]], goneOuts, goneBals)
  /\ \A j, k \in DOMAIN q : h[j] = h[k] => j = k
  /\ \A i \in DOMAIN s : ~Dropped(s[i], goneOuts, goneBals) => \E k \in DOMAIN q : h[k] = i

BalsCleaned(q, s, h, goneOuts, goneBals) ==
  /\ \A k \in DOMAIN q : /\ h[k] \in DOMAIN s /\ s[h[k]].tag \notin goneBals
                         /\ q[k] = CleanBalancer(s[h[k]], goneOuts)
  /\ \A j, k \in DOMAIN q : h[j] = h[k] => j = k
  /\ \A i \in DOMAIN s : s[i].tag \notin goneBals => \E k \in DOMAIN q : h[k] = i
  /\ Len(q) <= Len(s)
  /\ Len(q) = Len(s) => \A k \in DOMAIN s : s[k].tag \notin goneBals /\ q[k] = CleanBalancer(s[k], goneOuts)

OutsCleaned(q, s, h, gone) ==
  /\ \A k \in DOMAIN q : /\ h[k] \in DOMAIN s /\ s[h[k]].tag \notin gone
                         /\ q[k] = CleanOutbound(s[h[k]], gone)
  /\ \A j, k \in DOMAIN q : h[j] = h[k] => j = k
  /\ \A i \in DOMAIN s : s[i].tag \notin gone => \E k \in DOMAIN q : h[k] = i

\* The rules of a cleanup: those that lost their destination are dropped.
LEMMA CleanRulesIs ==
  ASSUME NEW s \in Seq(Rule), NEW goneOuts, NEW goneBals
  PROVE  /\ CleanRules(s, goneOuts, goneBals) \in Seq(Rule)
         /\ \E h : RulesCleaned(CleanRules(s, goneOuts, goneBals), s, h, goneOuts, goneBals)
<1> DEFINE gone == {i \in DOMAIN s : Dropped(s[i], goneOuts, goneBals)}
           K == DOMAIN s \ gone
           d == DropAt(s, gone)
           q == [k \in DOMAIN d |-> CleanRule(d[k], goneOuts, goneBals)]
<1>1. CleanRules(s, goneOuts, goneBals) = q
  BY DEF CleanRules, Map, Dropped
<1>2. d \in Seq(Rule) /\ \E h : Picks(d, s, h, DOMAIN s \ gone)
  BY DropIs
<1>3. PICK h : Picks(d, s, h, K)
  BY <1>2
<1> HIDE DEF d
<1>4. K \subseteq Nat /\ K \subseteq DOMAIN s
  OBVIOUS
<1>5. \A i \in DOMAIN s : i \in K <=> ~Dropped(s[i], goneOuts, goneBals)
  OBVIOUS
<1> HIDE DEF gone, K
<1>6. /\ \A j, k \in DOMAIN d : h[j] = h[k] => j = k
      /\ h \in Injection(DOMAIN d, K)
  BY <1>2, <1>3, <1>4, PicksInjective
<1>7. \A k \in DOMAIN d : q[k] \in Rule
  <2>1. \A k \in DOMAIN d : d[k] \in Rule
    BY <1>2
  <2>2. \A k \in DOMAIN d : CleanRule(d[k], goneOuts, goneBals) \in Rule
    BY <2>1, CleanRuleIs
  <2> QED  BY <2>2
<1>8. q \in Seq(Rule) /\ DOMAIN q = DOMAIN d
  <2>1. q = [k \in DOMAIN d |-> q[k]]
    OBVIOUS
  <2> HIDE DEF q
  <2> QED  BY <1>2, <1>7, <2>1, MapIs
<1>9. \A k \in DOMAIN d : q[k] = CleanRule(d[k], goneOuts, goneBals)
  OBVIOUS
<1> HIDE DEF q
<1>10. RulesCleaned(q, s, h, goneOuts, goneBals)
  BY <1>3, <1>4, <1>5, <1>6, <1>8, <1>9 DEF RulesCleaned, Picks
<1> QED  BY <1>1, <1>8, <1>10

\* The balancers of a cleanup.
LEMMA CleanBalancersIs ==
  ASSUME NEW s \in Seq(Balancer), NEW goneOuts, NEW goneBals
  PROVE  /\ CleanBalancers(s, goneOuts, goneBals) \in Seq(Balancer)
         /\ \E h : BalsCleaned(CleanBalancers(s, goneOuts, goneBals), s, h, goneOuts, goneBals)
<1> DEFINE gone == {i \in DOMAIN s : s[i].tag \in goneBals}
           K == DOMAIN s \ gone
           d == DropAt(s, gone)
           q == [k \in DOMAIN d |-> CleanBalancer(d[k], goneOuts)]
<1>1. CleanBalancers(s, goneOuts, goneBals) = q
  BY DEF CleanBalancers, Map, CleanBalancer
<1>2. d \in Seq(Balancer) /\ \E h : Picks(d, s, h, DOMAIN s \ gone)
  BY DropIs
<1>3. PICK h : Picks(d, s, h, K)
  BY <1>2
<1> HIDE DEF d
<1>4. K \subseteq Nat /\ K \subseteq DOMAIN s
  OBVIOUS
<1>5. \A i \in DOMAIN s : i \in K <=> s[i].tag \notin goneBals
  OBVIOUS
<1> HIDE DEF gone, K
<1>6. /\ \A j, k \in DOMAIN d : h[j] = h[k] => j = k
      /\ h \in Injection(DOMAIN d, K)
  BY <1>2, <1>3, <1>4, PicksInjective
<1>7. \A k \in DOMAIN d : q[k] \in Balancer
  <2>1. \A k \in DOMAIN d : d[k] \in Balancer
    BY <1>2
  <2>2. \A k \in DOMAIN d : CleanBalancer(d[k], goneOuts) \in Balancer
    BY <2>1, CleanBalancerIs
  <2> QED  BY <2>2
<1>8. q \in Seq(Balancer) /\ DOMAIN q = DOMAIN d /\ Len(q) = Len(d)
  <2>1. q = [k \in DOMAIN d |-> q[k]]
    OBVIOUS
  <2> HIDE DEF q
  <2> QED  BY <1>2, <1>7, <2>1, MapIs
<1>9. \A k \in DOMAIN d : q[k] = CleanBalancer(d[k], goneOuts)
  OBVIOUS
<1> HIDE DEF q
<1>10. Len(d) <= Len(s) /\ (Len(d) = Len(s) => d = s)
  BY <1>2, <1>3, <1>4, PicksLength
<1>11. \A k \in DOMAIN d : d[k].tag \notin goneBals
  BY <1>3, <1>4, <1>5 DEF Picks
<1>12. Len(q) = Len(s) => \A k \in DOMAIN s : s[k].tag \notin goneBals /\ q[k] = CleanBalancer(s[k], goneOuts)
  BY <1>8, <1>9, <1>10, <1>11
<1>13. BalsCleaned(q, s, h, goneOuts, goneBals)
  <2>1. \A k \in DOMAIN q : /\ h[k] \in DOMAIN s /\ s[h[k]].tag \notin goneBals
                           /\ q[k] = CleanBalancer(s[h[k]], goneOuts)
    BY <1>3, <1>4, <1>5, <1>8, <1>9 DEF Picks
  <2>2. \A i \in DOMAIN s : s[i].tag \notin goneBals => \E k \in DOMAIN q : h[k] = i
    BY <1>3, <1>5, <1>8 DEF Picks
  <2>3. (\A j, k \in DOMAIN q : h[j] = h[k] => j = k) /\ Len(q) <= Len(s)
    BY <1>6, <1>8, <1>10
  <2> QED  BY <1>12, <2>1, <2>2, <2>3 DEF BalsCleaned
<1> QED  BY <1>1, <1>8, <1>13

\* The outbounds of a cleanup.
LEMMA CleanOutboundsIs ==
  ASSUME NEW s \in Seq(Outbound), NEW goneOuts
  PROVE  /\ CleanOutbounds(s, goneOuts) \in Seq(Outbound)
         /\ \E h : OutsCleaned(CleanOutbounds(s, goneOuts), s, h, goneOuts)
<1> DEFINE gone == {i \in DOMAIN s : s[i].tag \in goneOuts}
           K == DOMAIN s \ gone
           d == DropAt(s, gone)
           q == [k \in DOMAIN d |-> CleanOutbound(d[k], goneOuts)]
<1>1. CleanOutbounds(s, goneOuts) = q
  BY DEF CleanOutbounds, Map, CleanOutbound
<1>2. d \in Seq(Outbound) /\ \E h : Picks(d, s, h, DOMAIN s \ gone)
  BY DropIs
<1>3. PICK h : Picks(d, s, h, K)
  BY <1>2
<1> HIDE DEF d
<1>4. K \subseteq Nat /\ K \subseteq DOMAIN s
  OBVIOUS
<1>5. \A i \in DOMAIN s : i \in K <=> s[i].tag \notin goneOuts
  OBVIOUS
<1> HIDE DEF gone, K
<1>6. /\ \A j, k \in DOMAIN d : h[j] = h[k] => j = k
      /\ h \in Injection(DOMAIN d, K)
  BY <1>2, <1>3, <1>4, PicksInjective
<1>7. \A k \in DOMAIN d : q[k] \in Outbound
  <2>1. \A k \in DOMAIN d : d[k] \in Outbound
    BY <1>2
  <2>2. \A k \in DOMAIN d : CleanOutbound(d[k], goneOuts) \in Outbound
    BY <2>1, CleanOutboundIs
  <2> QED  BY <2>2
<1>8. q \in Seq(Outbound) /\ DOMAIN q = DOMAIN d
  <2>1. q = [k \in DOMAIN d |-> q[k]]
    OBVIOUS
  <2> HIDE DEF q
  <2> QED  BY <1>2, <1>7, <2>1, MapIs
<1>9. \A k \in DOMAIN d : q[k] = CleanOutbound(d[k], goneOuts)
  OBVIOUS
<1> HIDE DEF q
<1>10. OutsCleaned(q, s, h, goneOuts)
  BY <1>3, <1>4, <1>5, <1>6, <1>8, <1>9 DEF OutsCleaned, Picks
<1> QED  BY <1>1, <1>8, <1>10

\* E is T after a deletion.
Cleaned(T, E, goneBals) ==
  /\ Kept(E) /\ Destinationless(E) <= Destinationless(T)
  /\ Len(E.bals) <= Len(T.bals)
  /\ Len(E.bals) = Len(T.bals) =>
       LeadsKept(T, E, 0) /\ \A i \in DOMAIN T.bals : T.bals[i].tag \notin goneBals

\* A cleanup leaves nothing naming what is gone, and no rule black-holes for it.
LEMMA ApplyCleanupIs ==
  ASSUME NEW T, Kept(T), NEW GO, GO \subseteq Outs, NEW GB
  PROVE  Cleaned(T, ApplyCleanup(T, GO, GB), GB)
<1> DEFINE o == CleanOutbounds(T.outs, GO)
           b == CleanBalancers(T.bals, GO, GB)
           r == CleanRules(T.rules, GO, GB)
           P == Make(o, b, r, T.obs)
           E == SyncObservatories(P)
           known == TagsOf(T.outs)
<1>1. /\ Sound(T) /\ T \in Template /\ UniqueVisible(T.outs) /\ UniqueRows(T.bals)
      /\ T.outs \in Seq(Outbound) /\ T.bals \in Seq(Balancer) /\ T.rules \in Seq(Rule)
      /\ T.obs \in Observer /\ OutboundTags(T) = known
  BY KeptIs
<1>2. ApplyCleanup(T, GO, GB) = E
  BY DEF ApplyCleanup, Make
<1>3. /\ o \in Seq(Outbound) /\ \E h : OutsCleaned(o, T.outs, h, GO)
      /\ b \in Seq(Balancer) /\ \E h : BalsCleaned(b, T.bals, h, GO, GB)
      /\ r \in Seq(Rule) /\ \E h : RulesCleaned(r, T.rules, h, GO, GB)
  BY <1>1, CleanOutboundsIs, CleanBalancersIs, CleanRulesIs
<1> HIDE DEF o, b, r
<1>4. PICK ho : OutsCleaned(o, T.outs, ho, GO)
  BY <1>3
<1>5. PICK hb : BalsCleaned(b, T.bals, hb, GO, GB)
  BY <1>3
<1>6. PICK hr : RulesCleaned(r, T.rules, hr, GO, GB)
  BY <1>3
<1>7. P \in Template /\ P.outs = o /\ P.bals = b /\ P.rules = r /\ P.obs = T.obs
  BY <1>1, <1>3, MakeIs
<1> HIDE DEF P
<1>8. \A k \in DOMAIN o : LET x == T.outs[ho[k]] IN
        /\ ho[k] \in DOMAIN T.outs /\ x \in Range(T.outs) /\ x.tag \notin GO
        /\ o[k].tag = x.tag /\ o[k].dialer = Without(x.dialer, GO)
  BY <1>1, <1>4, CleanOutboundIs, Elements DEF OutsCleaned
<1>9. \A k \in DOMAIN b : LET x == T.bals[hb[k]] IN
        /\ hb[k] \in DOMAIN T.bals /\ x \in Range(T.bals) /\ x.tag \notin GB
        /\ b[k].tag = x.tag /\ b[k].sel = x.sel \ GO /\ b[k].fb = Without(x.fb, GO)
  BY <1>1, <1>5, CleanBalancerIs, Elements DEF BalsCleaned
<1>10. \A k \in DOMAIN r : LET x == T.rules[hr[k]] IN
         /\ hr[k] \in DOMAIN T.rules /\ x \in Range(T.rules) /\ ~Dropped(x, GO, GB)
         /\ r[k].in = x.in /\ r[k].out = Without(x.out, GO) /\ r[k].bal = Without(x.bal, GB)
         /\ x.out = r[k].out /\ x.bal = r[k].bal => r[k] = x
         /\ r[k] = CleanRule(x, GO, GB)
  <2> SUFFICES ASSUME NEW k \in DOMAIN r
               PROVE  LET x == T.rules[hr[k]] IN
                      /\ hr[k] \in DOMAIN T.rules /\ x \in Range(T.rules) /\ ~Dropped(x, GO, GB)
                      /\ r[k].in = x.in /\ r[k].out = Without(x.out, GO) /\ r[k].bal = Without(x.bal, GB)
                      /\ x.out = r[k].out /\ x.bal = r[k].bal => r[k] = x
                      /\ r[k] = CleanRule(x, GO, GB)
    OBVIOUS
  <2> DEFINE x == T.rules[hr[k]]
             c == CleanRule(x, GO, GB)
  <2>1. hr[k] \in DOMAIN T.rules /\ ~Dropped(x, GO, GB) /\ r[k] = c
    BY <1>6 DEF RulesCleaned
  <2>2. x \in Rule /\ x \in Range(T.rules)
    BY <1>1, <2>1, Elements
  <2> HIDE DEF x
  <2>3. /\ c \in Rule /\ c.in = x.in
        /\ c.out = Without(x.out, GO) /\ c.bal = Without(x.bal, GB)
        /\ c.out = x.out /\ c.bal = x.bal => c = x
    BY <2>2, CleanRuleIs
  <2> HIDE DEF c
  <2>4. r[k] = CleanRule(x, GO, GB)
    BY <2>1 DEF c
  <2> QED  BY <2>1, <2>2, <2>3, <2>4 DEF x
<1>11. \A t \in known \ GO : t \in OutboundTags(P)
  <2> SUFFICES ASSUME NEW t \in known \ GO PROVE t \in OutboundTags(P)
    OBVIOUS
  <2>1. PICK i \in DOMAIN T.outs : T.outs[i].tag = t
    BY DEF TagsOf, Range
  <2>2. PICK k \in DOMAIN o : ho[k] = i
    BY <1>4, <2>1 DEF OutsCleaned
  <2>3. o[k].tag = t /\ o[k] \in Range(o)
    BY <1>8, <2>1, <2>2 DEF Range
  <2> QED  BY <1>7, <2>3 DEF OutboundTags
<1>12. \A t \in BalancerTags(T) \ GB : t \in BalancerTags(P)
  <2> SUFFICES ASSUME NEW t \in BalancerTags(T) \ GB PROVE t \in BalancerTags(P)
    OBVIOUS
  <2>1. PICK i \in DOMAIN T.bals : T.bals[i].tag = t
    BY DEF BalancerTags, Range
  <2>2. PICK k \in DOMAIN b : hb[k] = i
    BY <1>5, <2>1 DEF BalsCleaned
  <2>3. b[k].tag = t /\ b[k] \in Range(b)
    BY <1>9, <2>1, <2>2 DEF Range
  <2> QED  BY <1>7, <2>3 DEF BalancerTags
<1>13. \A tag, gone : Without(tag, gone) # None => tag \notin gone /\ Without(tag, gone) = tag
  BY DEF Without
<1>14. RulesResolve(P)
  <2> SUFFICES ASSUME NEW k \in DOMAIN r, ~IsLoop(r[k].in)
               PROVE  /\ r[k].bal # None => r[k].bal \in BalancerTags(P)
                      /\ r[k].out \in Outs => r[k].out \in OutboundTags(P) \cup {Warp}
    BY <1>7 DEF RulesResolve, Range
  <2> DEFINE x == T.rules[hr[k]]
  <2>1. /\ x \in Range(T.rules) /\ ~IsLoop(x.in)
        /\ r[k].out = Without(x.out, GO) /\ r[k].bal = Without(x.bal, GB)
    BY <1>10
  <2> HIDE DEF x
  <2>2. x.bal # None => x.bal \in BalancerTags(T)
    BY <1>1, <2>1 DEF Sound, RulesResolve
  <2>3. x.out \in Outs => x.out \in known \cup {Warp}
    BY <1>1, <2>1 DEF Sound, RulesResolve
  <2>4. r[k].bal # None => r[k].bal = x.bal /\ x.bal \notin GB
    BY <1>13, <2>1
  <2>5. r[k].out \in Outs => r[k].out = x.out /\ x.out \notin GO
    BY <1>13, <2>1, LoopIs
  <2> QED  BY <1>11, <1>12, <2>2, <2>3, <2>4, <2>5
<1>15. \A x \in Range(T.rules) : IsLoop(x.in) =>
         /\ x.bal = Target(x.in) /\ x.out = None /\ x.in \in known /\ x.bal # None
         /\ x.out \notin GO /\ x.in \notin GO
  BY <1>1, LoopIs DEF Sound, HiddenRulesLead, IsLoop
<1>16. HiddenRulesLead(P)
  <2> SUFFICES ASSUME NEW k \in DOMAIN r, IsLoop(r[k].in)
               PROVE  r[k].bal = Target(r[k].in) /\ r[k].out = None /\ r[k].in \in OutboundTags(P)
    BY <1>7 DEF HiddenRulesLead, Range
  <2> DEFINE x == T.rules[hr[k]]
  <2>1. /\ x \in Range(T.rules) /\ r[k].in = x.in /\ ~Dropped(x, GO, GB)
        /\ r[k].out = Without(x.out, GO) /\ r[k].bal = Without(x.bal, GB)
        /\ r[k] = CleanRule(x, GO, GB)
    BY <1>10
  <2> HIDE DEF x
  <2>2. /\ x.bal = Target(x.in) /\ x.out = None /\ x.in \in known /\ x.bal # None
        /\ x.out \notin GO /\ x.in \notin GO
    BY <1>15, <2>1
  <2>3. r[k].out = None
    BY <2>1, <2>2, WithoutIs
  <2>4. x.bal \notin GB
    <3> SUFFICES ASSUME x.bal \in GB PROVE FALSE
      OBVIOUS
    <3>1. r[k].bal = None
      BY <2>1, WithoutIs
    <3>2. r[k] # x
      BY <2>2, <3>1
    <3> QED  BY <2>1, <2>3, <3>1, <3>2 DEF Dropped
  <2>5. r[k].bal = x.bal
    BY <2>1, <2>4, WithoutIs
  <2> QED  BY <1>11, <2>1, <2>2, <2>3, <2>5
<1>17. OutboundRefsResolve(P)
  <2> DEFINE after == OutboundTags(P) \cup {Warp, Direct}
  <2>1. \A t \in known \cup {Warp, Direct} : t \notin GO => t \in after
    BY <1>11
  <2>2. ASSUME NEW k \in DOMAIN b PROVE b[k].sel \subseteq after /\ (b[k].fb \in Outs => b[k].fb \in after)
    <3> DEFINE x == T.bals[hb[k]]
    <3>1. x \in Range(T.bals) /\ b[k].sel = x.sel \ GO /\ b[k].fb = Without(x.fb, GO)
      BY <1>9
    <3> HIDE DEF x
    <3>2. /\ x.sel \subseteq known \cup {Warp, Direct}
          /\ x.fb \in Outs => x.fb \in known \cup {Warp, Direct}
      BY <1>1, <3>1 DEF Sound, OutboundRefsResolve
    <3>3. b[k].fb \in Outs => b[k].fb = x.fb /\ x.fb \notin GO
      BY <1>13, <3>1, LoopIs
    <3> HIDE DEF after
    <3> QED  BY <2>1, <3>1, <3>2, <3>3
  <2>3. ASSUME NEW k \in DOMAIN o PROVE o[k].dialer \in Outs => o[k].dialer \in after
    <3> DEFINE x == T.outs[ho[k]]
    <3>1. x \in Range(T.outs) /\ o[k].dialer = Without(x.dialer, GO)
      BY <1>8
    <3> HIDE DEF x
    <3>2. x.dialer \in Outs => x.dialer \in known \cup {Warp, Direct}
      BY <1>1, <3>1 DEF Sound, OutboundRefsResolve
    <3>3. o[k].dialer \in Outs => o[k].dialer = x.dialer /\ x.dialer \notin GO
      BY <1>13, <3>1, LoopIs
    <3> HIDE DEF after
    <3> QED  BY <2>1, <3>2, <3>3
  <2> QED  BY <1>7, <2>2, <2>3 DEF OutboundRefsResolve, Range
<1>18. UniqueTags(P)
  <2>1. \A k \in DOMAIN o : ho[k] \in DOMAIN T.outs /\ o[k].tag = T.outs[ho[k]].tag
    BY <1>8
  <2>2. \A j, k \in DOMAIN o : ho[j] = ho[k] => j = k
    BY <1>4 DEF OutsCleaned
  <2>3. UniqueVisible(o)
    BY <1>1, <2>1, <2>2 DEF UniqueVisible
  <2>4. \A k \in DOMAIN b : hb[k] \in DOMAIN T.bals /\ b[k].tag = T.bals[hb[k]].tag
    BY <1>9
  <2>5. \A j, k \in DOMAIN b : hb[j] = hb[k] => j = k
    BY <1>5 DEF BalsCleaned
  <2>6. UniqueRows(b)
    BY <1>1, <2>4, <2>5 DEF UniqueRows
  <2> QED  BY <1>7, <2>3, <2>6, UniqueTagsIs
<1>19. Sound(P)
  BY <1>7, <1>14, <1>16, <1>17, <1>18 DEF Sound
<1>20. /\ Sound(E) /\ ObserverFits(E)
       /\ E.outs = P.outs /\ E.bals = P.bals /\ E.rules = P.rules
  BY <1>19, SyncIs
<1> HIDE DEF E
<1>21. Len(b) <= Len(T.bals) /\ Len(T.bals) <= MaxBals /\ Len(b) <= MaxBals
  <2>1. Len(b) <= Len(T.bals) /\ Len(T.bals) <= MaxBals
    BY <1>5 DEF BalsCleaned, Kept
  <2>2. Len(b) \in Nat /\ Len(T.bals) \in Nat /\ MaxBals \in Nat
    BY <1>1, <1>3, TagsAssumption
  <2> QED  BY <2>1, <2>2
<1>22. Kept(E)
  BY <1>7, <1>20, <1>21 DEF Kept
<1>23. Destinationless(E) <= Destinationless(T)
  <2>1. ASSUME NEW k \in BareAt(r) PROVE hr[k] \in BareAt(T.rules)
    <3> DEFINE x == T.rules[hr[k]]
    <3>1. /\ hr[k] \in DOMAIN T.rules /\ ~Dropped(x, GO, GB) /\ r[k] = CleanRule(x, GO, GB)
          /\ r[k].out = None /\ r[k].bal = None
      BY <1>10 DEF BareAt
    <3>2. r[k] = x
      BY <3>1 DEF Dropped
    <3> QED  BY <3>1, <3>2 DEF BareAt
  <2>2. \A j, k \in BareAt(r) : hr[j] = hr[k] => j = k
    BY <1>6 DEF RulesCleaned, BareAt
  <2>3. Cardinality(BareAt(r)) <= Cardinality(BareAt(T.rules))
    BY <1>1, <1>3, <2>1, <2>2, BareBound
  <2> QED  BY <1>7, <1>20, <2>3 DEF Destinationless, BareAt
<1>24. ASSUME Len(b) = Len(T.bals)
       PROVE  LeadsKept(T, E, 0) /\ \A i \in DOMAIN T.bals : T.bals[i].tag \notin GB
  <2>1. \A k \in DOMAIN T.bals : T.bals[k].tag \notin GB /\ b[k] = CleanBalancer(T.bals[k], GO)
    BY <1>5, <1>24 DEF BalsCleaned
  <2>2. \A k \in DOMAIN T.bals : b[k].tag = T.bals[k].tag /\ b[k].fb = Without(T.bals[k].fb, GO)
    <3>1. \A k \in DOMAIN T.bals : T.bals[k] \in Balancer
      BY <1>1
    <3> QED  BY <2>1, <3>1, CleanBalancerIs
  <2>3. ASSUME NEW i \in DOMAIN T.bals, NEW j \in DOMAIN T.bals, Leads(T, i, j) PROVE Leads(E, i, j)
    <3>1. T.bals[i].fb \in Loops /\ T.bals[i].fb \in Ins(T) /\ T.bals[j].tag = Target(T.bals[i].fb)
      BY <2>3 DEF Leads, Ins
    <3>2. b[i].fb = T.bals[i].fb /\ b[j].tag = T.bals[j].tag
      <4>1. T.bals[i].fb \notin GO
        BY <3>1, LoopIs
      <4> QED  BY <2>2, <4>1, WithoutIs
    <3>3. PICK m \in DOMAIN T.rules : T.rules[m].in = T.bals[i].fb
      BY <3>1 DEF Ins, Range
    <3> DEFINE x == T.rules[m]
    <3>4. /\ x \in Range(T.rules) /\ x \in Rule /\ IsLoop(x.in) /\ x.bal = Target(x.in)
          /\ x.out \notin GO /\ x.bal \notin GB /\ x.bal # None
      BY <1>1, <1>15, <2>1, <3>1, <3>3, Elements DEF IsLoop
    <3> HIDE DEF x
    <3>5. ~Dropped(x, GO, GB)
      <4>1. Without(x.out, GO) = x.out /\ Without(x.bal, GB) = x.bal
        BY <3>4, WithoutIs
      <4>2. CleanRule(x, GO, GB) = x
        BY <3>4, <4>1, CleanRuleIs
      <4> QED  BY <4>2 DEF Dropped
    <3>6. PICK k \in DOMAIN r : hr[k] = m
      BY <1>6, <3>5 DEF RulesCleaned, x
    <3>7. r[k].in = T.bals[i].fb /\ r[k] \in Range(r)
      BY <1>10, <3>3, <3>6 DEF Range
    <3>8. T.bals[i].fb \in Ins(E)
      BY <1>7, <1>20, <3>1, <3>7 DEF Ins
    <3> QED  BY <1>7, <1>20, <3>1, <3>2, <3>8 DEF Leads
  <2> QED  BY <2>1, <2>3 DEF LeadsKept
<1> QED  BY <1>2, <1>7, <1>20, <1>21, <1>22, <1>23, <1>24 DEF Cleaned

\* Deleting an outbound is sound.
LEMMA DeleteOutboundDone ==
  ASSUME Kept(draft), NEW i \in VisibleOuts(draft), DeleteOutbound(i)
  PROVE  Drafted
<1> DEFINE o == draft.outs[i].tag
           gone == EmptiedBy(draft, {o})
           E == ApplyCleanup(draft, {o}, gone)
<1>1. SetDraft(E, 0)
  BY DEF DeleteOutbound, ApplyOutboundDeletion
<1>2. o \in Outs
  <2>1. draft \in Template /\ i \in DOMAIN draft.outs /\ ~IsLoop(o)
    BY KeptIs DEF VisibleOuts
  <2> QED  BY <2>1, Elements DEF IsLoop
<1> HIDE DEF gone, o
<1>3. {o} \subseteq Outs
  BY <1>2
<1>4. Cleaned(draft, E, gone)
  BY <1>3, ApplyCleanupIs
<1> HIDE DEF E
<1>5. Edited(draft, E, 0)
  BY <1>4 DEF Edited, Cleaned
<1> QED  BY <1>1, <1>5, EditDone, NoRow

\* A fallback that no longer leads through a loopback needs none of it.
LEMMA LoopbacksRemoved ==
  ASSUME NEW T, Kept(T), NEW gone, gone \subseteq Loops
  PROVE  LET E == RemoveLoopbacks(T, gone) IN
         /\ Kept(E) /\ E.bals = T.bals /\ Destinationless(E) <= Destinationless(T)
         /\ Ins(E) = Ins(T) \ gone
<1> DEFINE E == RemoveLoopbacks(T, gone)
<1>1. Sound(T) /\ ObserverFits(T) /\ Len(T.bals) <= MaxBals
  BY DEF Kept
<1>2. /\ Sound(E) /\ E.bals = T.bals /\ E.obs = T.obs
      /\ OutboundTags(E) = OutboundTags(T) \ gone /\ Ins(E) = Ins(T) \ gone
      /\ Destinationless(E) <= Destinationless(T)
      /\ \A tag \in Loops \ gone : Ahead(T.rules, tag) => Ahead(E.rules, tag)
  BY <1>1, RemoveLoopbacksIs
<1> HIDE DEF E
<1>3. ObserverFits(E)
  BY <1>1, <1>2 DEF ObserverFits, NeededObserver
<1> QED  BY <1>1, <1>2, <1>3 DEF Kept, E

\* Deleting a balancer is sound.
LEMMA DeleteBalancerDone ==
  ASSUME Kept(draft), NEW i \in DOMAIN draft.bals, DeleteBalancer(i)
  PROVE  Drafted
<1> DEFINE b == draft.bals[i].tag
           gone == {Loop(b)}
           R == RemoveLoopbacks(draft, gone)
           E == ApplyCleanup(R, {}, {b})
<1>1. SetDraft(E, 0)
  BY DEF DeleteBalancer, ApplyBalancerDeletion, RemoveLoopback
<1>2. draft \in Template /\ b \in Bals /\ gone \subseteq Loops
  <2>1. draft \in Template
    BY KeptIs
  <2>2. b \in Bals
    BY <2>1, Elements
  <2> QED  BY <2>1, <2>2, LoopIs
<1> HIDE DEF gone
<1>3. /\ Kept(R) /\ R.bals = draft.bals /\ Destinationless(R) <= Destinationless(draft)
      /\ Ins(R) = Ins(draft) \ gone
  BY <1>2, LoopbacksRemoved
<1> HIDE DEF R
<1>4. Cleaned(R, E, {b})
  <2>1. {} \subseteq Outs
    OBVIOUS
  <2> HIDE DEF b
  <2> QED  BY <1>3, <2>1, ApplyCleanupIs
<1> HIDE DEF E
<1>5. Kept(E) /\ Len(E.bals) # Len(draft.bals) /\ Destinationless(E) <= Destinationless(R)
  BY <1>3, <1>4 DEF Cleaned
<1>6. Destinationless(E) <= Destinationless(draft)
  <2>1. Destinationless(E) \in Nat /\ Destinationless(R) \in Nat /\ Destinationless(draft) \in Nat
    BY <1>2, <1>3, <1>5, KeptIs, DestinationlessType
  <2> QED  BY <1>3, <1>5, <2>1
<1>7. Edited(draft, E, 0)
  BY <1>5, <1>6 DEF Edited
<1> QED  BY <1>1, <1>7, EditDone, NoRow

-----------------------------------------------------------------------------
(* A balancer that is added.                                               *)

\* What the balancer form confirms resolves, and its tag is free.
Confirmed(T, known, f) ==
  /\ f \in Balancer /\ f.tag \notin known /\ f.fb \notin Loops
  /\ f.sel \subseteq OutboundTags(T) \cup {Warp, Direct}
  /\ f.fb \in Outs => f.fb \in OutboundTags(T) \cup {Warp, Direct}

\* BalancerForm confirms nothing else.
LEMMA FormIs ==
  ASSUME NEW T, Sound(T), NEW known, known \subseteq Bals, NEW form,
         form.sel \subseteq Outs, form.sel \subseteq OutboundTags(T) \cup {Warp, Direct},
         form.fb \in Outs \cup Bals \cup {None},
         form.fb \in Outs => form.fb \in OutboundTags(T) \cup {Warp, Direct},
         NEW f \in BalancerForm(T, known, form)
  PROVE  Confirmed(T, known, f)
<1> DEFINE offered == OutboundTags(T) \ Loops
<1>1. offered \subseteq Outs
  BY TagSets DEF Sound
<1>2. /\ f \in [tag : Bals \ known, sel : (SUBSET (offered \cup form.sel)) \ {{}},
                fb : {None, form.fb} \cup offered \cup known, strat : Strategies]
  BY DEF BalancerForm
<1>3. /\ f.tag \in Bals \ known /\ f.sel \subseteq offered \cup form.sel
      /\ f.fb \in {None, form.fb} \cup offered \cup known /\ f.strat \in Strategies
      /\ f = [tag |-> f.tag, sel |-> f.sel, fb |-> f.fb, strat |-> f.strat]
  BY <1>2
<1>4. offered \subseteq OutboundTags(T)
  OBVIOUS
<1> HIDE DEF offered
<1>5. f.fb \in Outs \cup Bals \cup {None} /\ f.fb \notin Loops
  BY <1>1, <1>3, TagsAssumption
<1>6. f \in Balancer
  BY <1>1, <1>3, <1>5 DEF Balancer
<1>7. f.fb \in Outs => f.fb \in OutboundTags(T) \cup {Warp, Direct}
  BY <1>3, <1>4, LoopIs
<1> QED  BY <1>3, <1>4, <1>5, <1>6, <1>7 DEF Confirmed

\* A fallback to a balancer becomes one to its loopback.
LEMMA WireIs ==
  ASSUME NEW f \in Balancer, NEW known, known \subseteq Bals
  PROVE  LET w == WireBalancer(f, known) IN
         /\ w \in Balancer /\ w.tag = f.tag /\ w.sel = f.sel
         /\ w.fb = IF f.fb \in known THEN Loop(f.fb) ELSE f.fb
<1>1. CASE f.fb \in known
  <2> DEFINE x == Loop(f.fb)
             w == [f EXCEPT !.fb = x]
  <2>1. x \in Loops
    BY <1>1, LoopIs
  <2>2. WireBalancer(f, known) = w
    BY <1>1 DEF WireBalancer
  <2> HIDE DEF x
  <2>3. w \in Balancer /\ w.tag = f.tag /\ w.sel = f.sel /\ w.fb = x
    BY <2>1 DEF Balancer
  <2> QED  BY <1>1, <2>2, <2>3 DEF x
<1>2. CASE f.fb \notin known
  BY <1>2 DEF WireBalancer
<1> QED  BY <1>1, <1>2

\* The loopback of a new fallback is put in, and the observatory follows.
LEMMA EnsureFallbackIs ==
  ASSUME NEW T, Sound(T), NEW known, known \subseteq Bals, NEW f
  PROVE  LET E == SyncObservatories(EnsureFallback(T, f, known)) IN
         /\ Sound(E) /\ ObserverFits(E) /\ E.bals = T.bals /\ Ins(T) \subseteq Ins(E)
         /\ Destinationless(E) <= Destinationless(T)
<1> DEFINE D == EnsureFallback(T, f, known)
           E == SyncObservatories(D)
<1>1. Sound(D) /\ D.bals = T.bals /\ Ins(T) \subseteq Ins(D) /\ Destinationless(D) <= Destinationless(T)
  <2>1. CASE f.fb \in known
    <3> DEFINE b == f.fb
               F == EnsureLoopback(T, b)
    <3>1. b \in Bals /\ D = F
      BY <2>1 DEF EnsureFallback
    <3> HIDE DEF b
    <3>2. /\ Sound(F) /\ F.bals = T.bals /\ F.obs = T.obs
          /\ OutboundTags(F) = OutboundTags(T) \cup {Loop(b)} /\ Ins(F) = Ins(T) \cup {Loop(b)}
          /\ Destinationless(F) <= Destinationless(T)
          /\ Ahead(F.rules, Loop(b))
          /\ \A tag \in Loops : Ahead(T.rules, tag) => Ahead(F.rules, tag)
      BY <3>1, EnsureLoopbackIs
    <3> QED  BY <3>1, <3>2
  <2>2. CASE f.fb \notin known
    <3>1. D = T
      BY <2>2 DEF EnsureFallback
    <3>2. Destinationless(T) \in Nat
      BY DestinationlessType DEF Sound
    <3> QED  BY <3>1, <3>2
  <2> QED  BY <2>1, <2>2
<1> HIDE DEF D
<1>2. /\ Sound(E) /\ ObserverFits(E)
      /\ E.outs = D.outs /\ E.bals = D.bals /\ E.rules = D.rules
  BY <1>1, SyncIs
<1> HIDE DEF E
<1>3. Ins(E) = Ins(D) /\ Destinationless(E) = Destinationless(D)
  BY <1>2 DEF Ins, Destinationless
<1> QED  BY <1>1, <1>2, <1>3 DEF E, D

\* Adding a balancer is sound.
LEMMA AddBalancerDone == ASSUME Kept(draft), AddBalancer PROVE Drafted
<1> DEFINE form == [sel |-> {}, fb |-> None]
           known == BalancerTags(draft)
<1>1. Len(draft.bals) < MaxBals
  BY DEF AddBalancer
<1>2. PICK f \in BalancerForm(draft, known, form) :
        LET pushed == [draft EXCEPT !.bals = Append(@, WireBalancer(f, known))]
        IN  SetDraft(SyncObservatories(EnsureFallback(pushed, f, known)), 0)
  BY DEF AddBalancer
<1> DEFINE w == WireBalancer(f, known)
           b == Append(draft.bals, w)
           P == [draft EXCEPT !.bals = b]
           E == SyncObservatories(EnsureFallback(P, f, known))
<1>3. /\ Sound(draft) /\ draft \in Template /\ UniqueVisible(draft.outs) /\ UniqueRows(draft.bals)
      /\ draft.outs \in Seq(Outbound) /\ draft.bals \in Seq(Balancer) /\ draft.rules \in Seq(Rule)
      /\ draft.obs \in Observer /\ OutboundTags(draft) = TagsOf(draft.outs)
      /\ \A i \in DOMAIN draft.outs : draft.outs[i].tag \in TagsOf(draft.outs)
  BY KeptIs
<1>4. known \subseteq Bals
  BY <1>3, TagSets
<1>5. SetDraft(E, 0)
  BY <1>2
<1>6. Confirmed(draft, known, f)
  <2>1. form.sel = {} /\ form.fb = None /\ None \notin Outs
    BY LoopIs
  <2> HIDE DEF known, form
  <2> QED  BY <1>2, <1>3, <1>4, <2>1, FormIs
<1>7. /\ w \in Balancer /\ w.tag = f.tag /\ w.sel = f.sel
      /\ w.fb = IF f.fb \in known THEN Loop(f.fb) ELSE f.fb
  BY <1>4, <1>6, WireIs DEF Confirmed
<1> HIDE DEF w
<1>8. /\ b \in Seq(Balancer) /\ Len(b) = Len(draft.bals) + 1
      /\ DOMAIN b = 1..(Len(draft.bals) + 1)
      /\ \A k \in 1..Len(draft.bals) : b[k] = draft.bals[k]
      /\ b[Len(draft.bals) + 1] = w
      /\ Range(b) = Range(draft.bals) \cup {w}
  BY <1>3, <1>7, AppendIs
<1> HIDE DEF b
<1>9. P = Make(draft.outs, b, draft.rules, draft.obs)
  BY <1>3, Rewrites, Zenon
<1>10. P \in Template /\ P.outs = draft.outs /\ P.bals = b /\ P.rules = draft.rules /\ P.obs = draft.obs
  BY <1>3, <1>8, <1>9, MakeIs
<1> HIDE DEF P
<1>11. OutboundTags(P) = OutboundTags(draft) /\ BalancerTags(draft) \subseteq BalancerTags(P)
  BY <1>8, <1>10 DEF OutboundTags, BalancerTags
<1>12. RulesResolve(P) /\ HiddenRulesLead(P)
  BY <1>3, <1>10, <1>11 DEF Sound, RulesResolve, HiddenRulesLead
<1>13. OutboundRefsResolve(P)
  <2>1. w.sel \subseteq OutboundTags(draft) \cup {Warp, Direct}
    BY <1>6, <1>7 DEF Confirmed
  <2>2. w.fb \in Outs => w.fb \in OutboundTags(draft) \cup {Warp, Direct}
    BY <1>4, <1>6, <1>7, LoopIs DEF Confirmed
  <2> QED  BY <1>3, <1>8, <1>10, <1>11, <2>1, <2>2 DEF Sound, OutboundRefsResolve
<1>14. UniqueTags(P)
  <2>1. \A k \in 1..Len(draft.bals) : draft.bals[k].tag # w.tag
    <3>1. \A k \in DOMAIN draft.bals : draft.bals[k].tag \in BalancerTags(draft)
      BY <1>3, Elements DEF BalancerTags
    <3>2. DOMAIN draft.bals = 1..Len(draft.bals)
      BY <1>3
    <3> QED  BY <1>6, <1>7, <3>1, <3>2 DEF Confirmed
  <2>2. UniqueRows(b)
    <3> SUFFICES ASSUME NEW j \in DOMAIN b, NEW k \in DOMAIN b, b[j].tag = b[k].tag PROVE j = k
      BY DEF UniqueRows
    <3>1. Len(draft.bals) \in Nat /\ DOMAIN draft.bals = 1..Len(draft.bals)
      BY <1>3
    <3>2. /\ j \in 1..Len(draft.bals) \/ j = Len(draft.bals) + 1
          /\ k \in 1..Len(draft.bals) \/ k = Len(draft.bals) + 1
      BY <1>8, <3>1
    <3>3. CASE j \in 1..Len(draft.bals) /\ k \in 1..Len(draft.bals)
      BY <1>3, <1>8, <3>1, <3>3 DEF UniqueRows
    <3>4. CASE j = Len(draft.bals) + 1 /\ k \in 1..Len(draft.bals)
      BY <1>8, <2>1, <3>4
    <3>5. CASE j \in 1..Len(draft.bals) /\ k = Len(draft.bals) + 1
      BY <1>8, <2>1, <3>5
    <3> QED  BY <3>2, <3>3, <3>4, <3>5
  <2> QED  BY <1>3, <1>10, <2>2, UniqueTagsIs
<1>15. Sound(P)
  BY <1>10, <1>12, <1>13, <1>14 DEF Sound
<1>16. /\ Sound(E) /\ ObserverFits(E) /\ E.bals = P.bals /\ Ins(P) \subseteq Ins(E)
       /\ Destinationless(E) <= Destinationless(P)
  <2> HIDE DEF known
  <2> QED  BY <1>4, <1>15, EnsureFallbackIs
<1> HIDE DEF E
<1>17. Destinationless(P) = Destinationless(draft)
  BY <1>10 DEF Destinationless
<1>18. Len(E.bals) <= MaxBals /\ Len(E.bals) # Len(draft.bals)
  <2>1. Len(draft.bals) \in Nat /\ MaxBals \in Nat
    BY <1>3, TagsAssumption
  <2> QED  BY <1>1, <1>8, <1>10, <1>16, <2>1
<1>19. Edited(draft, E, 0)
  BY <1>16, <1>17, <1>18 DEF Edited, Kept
<1> QED  BY <1>5, <1>19, EditDone, NoRow

-----------------------------------------------------------------------------
(* A balancer that is edited.                                              *)

\* The tags of the other rows, as the form knows them.
OtherTags(T, i) == {T.bals[j].tag : j \in DOMAIN T.bals \ {i}}

\* The row's form tag is not among them, since tags are unique.
LEMMA OtherTagsIs ==
  ASSUME NEW T, Sound(T), NEW i \in DOMAIN T.bals
  PROVE  /\ OtherTags(T, i) \subseteq Bals /\ T.bals[i].tag \in Bals
         /\ T.bals[i].tag \notin OtherTags(T, i)
         /\ \A j \in DOMAIN T.bals \ {i} : T.bals[j].tag \in OtherTags(T, i)
<1>1. T \in Template /\ UniqueRows(T.bals)
  BY UniqueTagsIs DEF Sound
<1>2. \A j \in DOMAIN T.bals : T.bals[j].tag \in Bals
  BY <1>1, Elements
<1>3. \A j \in DOMAIN T.bals : T.bals[j].tag = T.bals[i].tag => j = i
  BY <1>1 DEF UniqueRows
<1> QED  BY <1>2, <1>3 DEF OtherTags

\* The row as the form shows it.
Shown(T, i) == [T.bals[i] EXCEPT !.fb = ResolveFallback(T, @)]

\* What the form shows resolves, loopbacks being shown by their target.
LEMMA ShownIs ==
  ASSUME NEW T, Sound(T), NEW i \in DOMAIN T.bals
  PROVE  LET form == Shown(T, i) IN
         /\ form.sel \subseteq Outs /\ form.sel \subseteq OutboundTags(T) \cup {Warp, Direct}
         /\ form.fb \in Outs \cup Bals \cup {None}
         /\ form.fb \in Outs => form.fb \in OutboundTags(T) \cup {Warp, Direct}
<1> DEFINE b == T.bals[i]
           x == ResolveFallback(T, b.fb)
           form == [b EXCEPT !.fb = x]
<1>1. /\ b \in Balancer /\ b.sel \subseteq Outs
      /\ b.fb \in Outs \cup Bals \cup Loops \cup {None}
      /\ b.sel \subseteq OutboundTags(T) \cup {Warp, Direct}
      /\ b.fb \in Outs => b.fb \in OutboundTags(T) \cup {Warp, Direct}
  <2>1. T \in Template /\ b \in Range(T.bals)
    BY Elements DEF Sound
  <2>2. T.bals \in Seq(Balancer)
    BY <2>1, Fields
  <2> QED  BY <2>1, <2>2, Elements DEF Sound, OutboundRefsResolve
<1>2. (x = b.fb /\ b.fb \notin Loops) \/ x \in Bals
  <2>1. CASE b.fb \notin Loops
    BY <2>1 DEF ResolveFallback, IsLoop
  <2>2. CASE b.fb \in Loops
    <3>1. LoopRuleTarget(T, b.fb) \in {None, Target(b.fb)} /\ Target(b.fb) \in Bals
      BY <2>2, LoopRuleTargetIs, LoopIs
    <3> QED  BY <2>2, <3>1 DEF ResolveFallback, IsLoop
  <2> QED  BY <2>1, <2>2
<1>3. Shown(T, i) = form
  BY DEF Shown
<1> HIDE DEF x, b
<1>4. form.sel = b.sel /\ form.fb = x
  BY <1>1 DEF Balancer
<1> HIDE DEF form
<1> QED  BY <1>1, <1>2, <1>3, <1>4, LoopIs

\* The template with the row i rewritten as w and its tag a become c wherever
\* the others, the loopbacks and the rules name it.
Relabelled(T, N, i, w, a, c) ==
  /\ N \in Template
  /\ DOMAIN N.outs = DOMAIN T.outs /\ DOMAIN N.rules = DOMAIN T.rules
  /\ DOMAIN N.bals = DOMAIN T.bals /\ Len(N.bals) = Len(T.bals)
  /\ \A k \in DOMAIN T.outs : /\ N.outs[k].tag = Renamed(T.outs[k].tag, Loop(a), Loop(c))
                              /\ N.outs[k].dialer = T.outs[k].dialer
  /\ \A k \in DOMAIN T.rules : /\ N.rules[k].in = Renamed(T.rules[k].in, Loop(a), Loop(c))
                               /\ N.rules[k].out = T.rules[k].out
                               /\ N.rules[k].bal = Renamed(T.rules[k].bal, a, c)
  /\ \A k \in DOMAIN T.bals \ {i} : /\ N.bals[k].tag = T.bals[k].tag
                                    /\ N.bals[k].sel = T.bals[k].sel
                                    /\ N.bals[k].fb = Renamed(T.bals[k].fb, Loop(a), Loop(c))
  /\ N.bals[i].tag = w.tag /\ N.bals[i].sel = w.sel /\ N.bals[i].fb = w.fb

\* A row put in another's place.
Put(T, i, w) == [T EXCEPT !.bals[i] = w]

\* One row replaced, the others left alone.
LEMMA PutIs ==
  ASSUME NEW T \in Template, NEW i \in DOMAIN T.bals, NEW w \in Balancer
  PROVE  LET P == Put(T, i, w) IN
         /\ P \in Template /\ P.outs = T.outs /\ P.rules = T.rules /\ P.obs = T.obs
         /\ DOMAIN P.bals = DOMAIN T.bals /\ Len(P.bals) = Len(T.bals)
         /\ \A k \in DOMAIN T.bals \ {i} : P.bals[k] = T.bals[k]
         /\ P.bals[i] = w
<1> DEFINE b == [T.bals EXCEPT ![i] = w]
           P == [T EXCEPT !.bals = b]
<1>1. Put(T, i, w) = P
  BY DEF Put
<1>2. /\ T.outs \in Seq(Outbound) /\ T.bals \in Seq(Balancer) /\ T.rules \in Seq(Rule)
      /\ T.obs \in Observer
  BY Fields
<1>3. /\ b \in Seq(Balancer) /\ DOMAIN b = DOMAIN T.bals /\ Len(b) = Len(T.bals)
      /\ \A k \in DOMAIN T.bals \ {i} : b[k] = T.bals[k]
      /\ b[i] = w
  BY <1>2
<1> HIDE DEF b
<1>4. P = Make(T.outs, b, T.rules, T.obs)
  BY Rewrites
<1>5. P \in Template /\ P.outs = T.outs /\ P.bals = b /\ P.rules = T.rules /\ P.obs = T.obs
  BY <1>2, <1>3, <1>4, MakeIs
<1> HIDE DEF P
<1> QED  BY <1>1, <1>3, <1>5

\* What a rename of a balancer does to one outbound, rule and row.
ReTag(o, old, new) == [o EXCEPT !.tag = Renamed(@, Loop(old), Loop(new))]
ReIn(r, old, new) == [r EXCEPT !.in = Renamed(@, Loop(old), Loop(new))]
ReBal(r, old, new) == [r EXCEPT !.bal = Renamed(@, old, new)]
ReLoop(b, old, new) == [b EXCEPT !.fb = Renamed(@, Loop(old), Loop(new))]

\* A loopback outbound that follows its balancer.
LEMMA ReTagIs ==
  ASSUME NEW o \in Outbound, NEW old \in Bals, NEW new \in Bals
  PROVE  /\ ReTag(o, old, new) \in Outbound /\ ReTag(o, old, new).dialer = o.dialer
         /\ ReTag(o, old, new).tag = Renamed(o.tag, Loop(old), Loop(new))
<1> DEFINE x == Renamed(o.tag, Loop(old), Loop(new))
<1>1. x \in Outs \cup Loops
  BY LoopIs, RenamedIs DEF Outbound
<1>2. ReTag(o, old, new) = [o EXCEPT !.tag = x]
  BY DEF ReTag
<1> HIDE DEF x
<1>3. /\ [o EXCEPT !.tag = x] \in Outbound /\ [o EXCEPT !.tag = x].dialer = o.dialer
      /\ [o EXCEPT !.tag = x].tag = x
  BY <1>1 DEF Outbound
<1> QED  BY <1>2, <1>3 DEF x

\* A hidden rule that follows its loopback.
LEMMA ReInIs ==
  ASSUME NEW r \in Rule, NEW old \in Bals, NEW new \in Bals
  PROVE  /\ ReIn(r, old, new) \in Rule /\ ReIn(r, old, new).out = r.out
         /\ ReIn(r, old, new).bal = r.bal
         /\ ReIn(r, old, new).in = Renamed(r.in, Loop(old), Loop(new))
<1> DEFINE x == Renamed(r.in, Loop(old), Loop(new))
<1>1. x \in {AnyIn, Src} \cup Loops
  BY LoopIs, RenamedIs DEF Rule
<1>2. ReIn(r, old, new) = [r EXCEPT !.in = x]
  BY DEF ReIn
<1> HIDE DEF x
<1>3. /\ [r EXCEPT !.in = x] \in Rule /\ [r EXCEPT !.in = x].out = r.out
      /\ [r EXCEPT !.in = x].bal = r.bal /\ [r EXCEPT !.in = x].in = x
  BY <1>1 DEF Rule
<1> QED  BY <1>2, <1>3 DEF x

\* A rule that follows its balancer.
LEMMA ReBalIs ==
  ASSUME NEW r \in Rule, NEW old \in Bals, NEW new \in Bals
  PROVE  /\ ReBal(r, old, new) \in Rule /\ ReBal(r, old, new).in = r.in
         /\ ReBal(r, old, new).out = r.out
         /\ ReBal(r, old, new).bal = Renamed(r.bal, old, new)
<1> DEFINE x == Renamed(r.bal, old, new)
<1>1. x \in Bals \cup {None}
  BY RenamedIs DEF Rule
<1>2. ReBal(r, old, new) = [r EXCEPT !.bal = x]
  BY DEF ReBal
<1> HIDE DEF x
<1>3. /\ [r EXCEPT !.bal = x] \in Rule /\ [r EXCEPT !.bal = x].out = r.out
      /\ [r EXCEPT !.bal = x].in = r.in /\ [r EXCEPT !.bal = x].bal = x
  BY <1>1 DEF Rule
<1> QED  BY <1>2, <1>3 DEF x

\* A fallback that follows its loopback.
LEMMA ReLoopIs ==
  ASSUME NEW b \in Balancer, NEW old \in Bals, NEW new \in Bals
  PROVE  /\ ReLoop(b, old, new) \in Balancer /\ ReLoop(b, old, new).tag = b.tag
         /\ ReLoop(b, old, new).sel = b.sel
         /\ ReLoop(b, old, new).fb = Renamed(b.fb, Loop(old), Loop(new))
<1> DEFINE x == Renamed(b.fb, Loop(old), Loop(new))
<1>1. x \in Outs \cup Bals \cup Loops \cup {None}
  BY LoopIs, RenamedIs DEF Balancer
<1>2. ReLoop(b, old, new) = [b EXCEPT !.fb = x]
  BY DEF ReLoop
<1> HIDE DEF x
<1>3. /\ [b EXCEPT !.fb = x] \in Balancer /\ [b EXCEPT !.fb = x].tag = b.tag
      /\ [b EXCEPT !.fb = x].sel = b.sel /\ [b EXCEPT !.fb = x].fb = x
  BY <1>1 DEF Balancer
<1> QED  BY <1>2, <1>3 DEF x

Relabel(T, o, r, b) == [T EXCEPT !.outs = o, !.rules = r, !.bals = b]

\* The three tables rewritten at once.
LEMMA RelabelIs ==
  ASSUME NEW T \in Template, NEW o, NEW b, NEW r
  PROVE  Relabel(T, o, r, b) = Make(o, b, r, T.obs)
<1>1. T = Make(T.outs, T.bals, T.rules, T.obs)
  BY Fields
<1>2. WithOuts(T, o) = Make(o, T.bals, T.rules, T.obs)
  BY <1>1, RewriteOne
<1>3. WithBals(WithRules(WithOuts(T, o), r), b) = Make(o, b, r, T.obs)
  BY <1>2, RewriteOne
<1> QED  BY <1>3 DEF Relabel, WithOuts, WithBals, WithRules

\* ReplaceBalancer's second step: the rules follow the new tag.
Rebound(T, a, c) == [T EXCEPT !.rules = Map(@, LAMBDA r : [r EXCEPT !.bal = Renamed(@, a, c)])]

\* The rules follow the new tag, and nothing else changes.
LEMMA ReboundIs ==
  ASSUME NEW T \in Template, NEW a \in Bals, NEW c \in Bals
  PROVE  LET R == Rebound(T, a, c) IN
         /\ R \in Template /\ R.outs = T.outs /\ R.bals = T.bals
         /\ DOMAIN R.rules = DOMAIN T.rules
         /\ \A k \in DOMAIN T.rules : /\ R.rules[k].in = T.rules[k].in
                                      /\ R.rules[k].out = T.rules[k].out
                                      /\ R.rules[k].bal = Renamed(T.rules[k].bal, a, c)
<1> DEFINE r == [k \in DOMAIN T.rules |-> ReBal(T.rules[k], a, c)]
           R == [T EXCEPT !.rules = r]
<1>1. /\ T.outs \in Seq(Outbound) /\ T.bals \in Seq(Balancer) /\ T.rules \in Seq(Rule)
      /\ T.obs \in Observer
  BY Fields
<1>2. Rebound(T, a, c) = R
  BY DEF Rebound, Map, ReBal
<1>3. \A k \in DOMAIN T.rules :
        /\ r[k] \in Rule /\ r[k].in = T.rules[k].in /\ r[k].out = T.rules[k].out
        /\ r[k].bal = Renamed(T.rules[k].bal, a, c)
  <2>1. \A k \in DOMAIN T.rules : T.rules[k] \in Rule /\ r[k] = ReBal(T.rules[k], a, c)
    BY <1>1
  <2> HIDE DEF r
  <2> QED  BY <2>1, ReBalIs
<1>4. r \in Seq(Rule) /\ DOMAIN r = DOMAIN T.rules
  <2>1. r = [k \in DOMAIN T.rules |-> r[k]]
    OBVIOUS
  <2> HIDE DEF r
  <2> QED  BY <1>1, <1>3, <2>1, MapIs, Zenon
<1> HIDE DEF r
<1>5. R = Make(T.outs, T.bals, r, T.obs)
  BY Rewrites
<1>6. R \in Template /\ R.outs = T.outs /\ R.bals = T.bals /\ R.rules = r
  BY <1>1, <1>4, <1>5, MakeIs
<1> HIDE DEF R
<1> QED  BY <1>2, <1>3, <1>4, <1>6

\* PropagateBalancerRename, row by row.
LEMMA PropagateIs ==
  ASSUME NEW T \in Template, NEW a \in Bals, NEW c \in Bals
  PROVE  LET N == PropagateBalancerRename(T, a, c) IN
         /\ N \in Template
         /\ DOMAIN N.outs = DOMAIN T.outs /\ DOMAIN N.rules = DOMAIN T.rules
         /\ DOMAIN N.bals = DOMAIN T.bals /\ Len(N.bals) = Len(T.bals)
         /\ \A k \in DOMAIN T.outs : /\ N.outs[k].tag = Renamed(T.outs[k].tag, Loop(a), Loop(c))
                                     /\ N.outs[k].dialer = T.outs[k].dialer
         /\ \A k \in DOMAIN T.rules : /\ N.rules[k].in = Renamed(T.rules[k].in, Loop(a), Loop(c))
                                      /\ N.rules[k].out = T.rules[k].out
                                      /\ N.rules[k].bal = T.rules[k].bal
         /\ \A k \in DOMAIN T.bals : /\ N.bals[k].tag = T.bals[k].tag
                                     /\ N.bals[k].sel = T.bals[k].sel
                                     /\ N.bals[k].fb = Renamed(T.bals[k].fb, Loop(a), Loop(c))
<1> DEFINE o == [k \in DOMAIN T.outs |-> ReTag(T.outs[k], a, c)]
           r == [k \in DOMAIN T.rules |-> ReIn(T.rules[k], a, c)]
           b == [k \in DOMAIN T.bals |-> ReLoop(T.bals[k], a, c)]
           N == Make(o, b, r, T.obs)
<1>1. /\ T.outs \in Seq(Outbound) /\ T.bals \in Seq(Balancer) /\ T.rules \in Seq(Rule)
      /\ T.obs \in Observer
  BY Fields
<1>2. PropagateBalancerRename(T, a, c) = N
  <2>1. PropagateBalancerRename(T, a, c) = Relabel(T, o, r, b)
    BY DEF PropagateBalancerRename, Map, ReTag, ReIn, ReLoop, Relabel
  <2> HIDE DEF o, r, b
  <2> QED  BY <2>1, RelabelIs
<1>3. \A k \in DOMAIN T.outs :
        /\ o[k] \in Outbound /\ o[k].tag = Renamed(T.outs[k].tag, Loop(a), Loop(c))
        /\ o[k].dialer = T.outs[k].dialer
  <2>1. \A k \in DOMAIN T.outs : T.outs[k] \in Outbound /\ o[k] = ReTag(T.outs[k], a, c)
    BY <1>1
  <2> HIDE DEF o
  <2> QED  BY <2>1, ReTagIs
<1>4. \A k \in DOMAIN T.rules :
        /\ r[k] \in Rule /\ r[k].in = Renamed(T.rules[k].in, Loop(a), Loop(c))
        /\ r[k].out = T.rules[k].out /\ r[k].bal = T.rules[k].bal
  <2>1. \A k \in DOMAIN T.rules : T.rules[k] \in Rule /\ r[k] = ReIn(T.rules[k], a, c)
    BY <1>1
  <2> HIDE DEF r
  <2> QED  BY <2>1, ReInIs
<1>5. \A k \in DOMAIN T.bals :
        /\ b[k] \in Balancer /\ b[k].tag = T.bals[k].tag /\ b[k].sel = T.bals[k].sel
        /\ b[k].fb = Renamed(T.bals[k].fb, Loop(a), Loop(c))
  <2>1. \A k \in DOMAIN T.bals : T.bals[k] \in Balancer /\ b[k] = ReLoop(T.bals[k], a, c)
    BY <1>1
  <2> HIDE DEF b
  <2> QED  BY <2>1, ReLoopIs
<1>6. /\ o \in Seq(Outbound) /\ DOMAIN o = DOMAIN T.outs
      /\ b \in Seq(Balancer) /\ DOMAIN b = DOMAIN T.bals /\ Len(b) = Len(T.bals)
      /\ r \in Seq(Rule) /\ DOMAIN r = DOMAIN T.rules
  <2>1. /\ o = [k \in DOMAIN T.outs |-> o[k]] /\ b = [k \in DOMAIN T.bals |-> b[k]]
        /\ r = [k \in DOMAIN T.rules |-> r[k]]
    OBVIOUS
  <2> HIDE DEF o, b, r
  <2>2. o \in Seq(Outbound) /\ Len(o) = Len(T.outs) /\ DOMAIN o = DOMAIN T.outs
    BY <1>1, <1>3, <2>1, MapIs
  <2>3. b \in Seq(Balancer) /\ Len(b) = Len(T.bals) /\ DOMAIN b = DOMAIN T.bals
    BY <1>1, <1>5, <2>1, MapIs
  <2>4. r \in Seq(Rule) /\ Len(r) = Len(T.rules) /\ DOMAIN r = DOMAIN T.rules
    BY <1>1, <1>4, <2>1, MapIs
  <2> QED  BY <2>2, <2>3, <2>4
<1> HIDE DEF o, b, r
<1>7. N \in Template /\ N.outs = o /\ N.bals = b /\ N.rules = r
  BY <1>1, <1>6, MakeIs
<1> HIDE DEF N
<1> QED  BY <1>2, <1>3, <1>4, <1>5, <1>6, <1>7

\* The third step of ReplaceBalancer, whether or not the tag is a new one.
Retagged(T, i, w, a, c) ==
  IF a = c THEN Put(T, i, w) ELSE PropagateBalancerRename(Rebound(Put(T, i, w), a, c), a, c)

\* Both branches of ReplaceBalancer relabel.
LEMMA RetaggedIs ==
  ASSUME NEW T \in Template, NEW i \in DOMAIN T.bals, NEW w \in Balancer,
         NEW a \in Bals, NEW c \in Bals, w.fb # Loop(a)
  PROVE  Relabelled(T, Retagged(T, i, w, a, c), i, w, a, c)
<1> DEFINE P == Put(T, i, w)
<1>1. /\ P \in Template /\ P.outs = T.outs /\ P.rules = T.rules /\ P.obs = T.obs
      /\ DOMAIN P.bals = DOMAIN T.bals /\ Len(P.bals) = Len(T.bals)
      /\ \A k \in DOMAIN T.bals \ {i} : P.bals[k] = T.bals[k]
      /\ P.bals[i] = w
  BY PutIs
<1> HIDE DEF P
<1>2. CASE a = c
  <2>1. Retagged(T, i, w, a, c) = P
    BY <1>2 DEF Retagged, P
  <2>2. \A tag : Renamed(tag, Loop(a), Loop(c)) = tag /\ Renamed(tag, a, c) = tag
    BY <1>2, RenamedIs
  <2> QED  BY <1>1, <2>1, <2>2 DEF Relabelled
<1>3. CASE a # c
  <2> DEFINE R == Rebound(P, a, c)
             N == PropagateBalancerRename(R, a, c)
  <2>1. Retagged(T, i, w, a, c) = N
    BY <1>3 DEF Retagged, P
  <2>2. /\ R \in Template /\ R.outs = P.outs /\ R.bals = P.bals
        /\ DOMAIN R.rules = DOMAIN P.rules
        /\ \A k \in DOMAIN P.rules : /\ R.rules[k].in = P.rules[k].in
                                     /\ R.rules[k].out = P.rules[k].out
                                     /\ R.rules[k].bal = Renamed(P.rules[k].bal, a, c)
    BY <1>1, ReboundIs
  <2> HIDE DEF R
  <2>3. /\ N \in Template
        /\ DOMAIN N.outs = DOMAIN R.outs /\ DOMAIN N.rules = DOMAIN R.rules
        /\ DOMAIN N.bals = DOMAIN R.bals /\ Len(N.bals) = Len(R.bals)
        /\ \A k \in DOMAIN R.outs : /\ N.outs[k].tag = Renamed(R.outs[k].tag, Loop(a), Loop(c))
                                    /\ N.outs[k].dialer = R.outs[k].dialer
        /\ \A k \in DOMAIN R.rules : /\ N.rules[k].in = Renamed(R.rules[k].in, Loop(a), Loop(c))
                                     /\ N.rules[k].out = R.rules[k].out
                                     /\ N.rules[k].bal = R.rules[k].bal
        /\ \A k \in DOMAIN R.bals : /\ N.bals[k].tag = R.bals[k].tag
                                    /\ N.bals[k].sel = R.bals[k].sel
                                    /\ N.bals[k].fb = Renamed(R.bals[k].fb, Loop(a), Loop(c))
    BY <2>2, PropagateIs
  <2> HIDE DEF N
  <2>4. Renamed(w.fb, Loop(a), Loop(c)) = w.fb
    BY RenamedIs
  <2>5. N.bals[i].tag = w.tag /\ N.bals[i].sel = w.sel /\ N.bals[i].fb = w.fb
    BY <1>1, <2>2, <2>3, <2>4
  <2>6. \A k \in DOMAIN T.bals \ {i} : /\ N.bals[k].tag = T.bals[k].tag
                                       /\ N.bals[k].sel = T.bals[k].sel
                                       /\ N.bals[k].fb = Renamed(T.bals[k].fb, Loop(a), Loop(c))
    BY <1>1, <2>2, <2>3
  <2>7. \A k \in DOMAIN T.rules : /\ N.rules[k].in = Renamed(T.rules[k].in, Loop(a), Loop(c))
                                  /\ N.rules[k].out = T.rules[k].out
                                  /\ N.rules[k].bal = Renamed(T.rules[k].bal, a, c)
    BY <1>1, <2>2, <2>3
  <2> QED  BY <1>1, <2>1, <2>2, <2>3, <2>5, <2>6, <2>7 DEF Relabelled
<1> QED  BY <1>2, <1>3

\* A relabelled template is sound, and the other rows lead where they did.
LEMMA RelabelledIs ==
  ASSUME NEW T, Sound(T), NEW i \in DOMAIN T.bals, NEW f, Confirmed(T, OtherTags(T, i), f),
         NEW w \in Balancer, w.tag = f.tag, w.sel = f.sel,
         w.fb = IF f.fb \in OtherTags(T, i) THEN Loop(f.fb) ELSE f.fb,
         NEW N, Relabelled(T, N, i, w, T.bals[i].tag, f.tag)
  PROVE  /\ Sound(N) /\ LeadsKept(T, N, i) /\ Len(N.bals) = Len(T.bals)
         /\ Destinationless(N) = Destinationless(T)
<1> DEFINE a == T.bals[i].tag
           c == f.tag
<1>1. /\ T \in Template /\ UniqueRows(T.bals) /\ UniqueVisible(T.outs)
      /\ RulesResolve(T) /\ OutboundRefsResolve(T) /\ HiddenRulesLead(T)
  BY UniqueTagsIs DEF Sound
<1>2. /\ a \in Bals /\ a \notin OtherTags(T, i) /\ OtherTags(T, i) \subseteq Bals
      /\ \A j \in DOMAIN T.bals \ {i} : T.bals[j].tag \in OtherTags(T, i)
  BY OtherTagsIs
<1>3. /\ c \in Bals /\ c \notin OtherTags(T, i) /\ w.tag = c
      /\ w.sel \subseteq OutboundTags(T) \cup {Warp, Direct}
      /\ w.fb \in Outs => w.fb \in OutboundTags(T) \cup {Warp, Direct}
  <2>1. f.tag \in Bals
    BY DEF Confirmed, Balancer
  <2>2. f.fb \in OtherTags(T, i) => w.fb \notin Outs
    BY <1>2, LoopIs
  <2> QED  BY <2>1, <2>2 DEF Confirmed
<1>4. /\ N \in Template
      /\ DOMAIN N.outs = DOMAIN T.outs /\ DOMAIN N.rules = DOMAIN T.rules
      /\ DOMAIN N.bals = DOMAIN T.bals /\ Len(N.bals) = Len(T.bals)
      /\ \A k \in DOMAIN T.outs : /\ N.outs[k].tag = Renamed(T.outs[k].tag, Loop(a), Loop(c))
                                  /\ N.outs[k].dialer = T.outs[k].dialer
      /\ \A k \in DOMAIN T.rules : /\ N.rules[k].in = Renamed(T.rules[k].in, Loop(a), Loop(c))
                                   /\ N.rules[k].out = T.rules[k].out
                                   /\ N.rules[k].bal = Renamed(T.rules[k].bal, a, c)
      /\ \A k \in DOMAIN T.bals \ {i} : /\ N.bals[k].tag = T.bals[k].tag
                                        /\ N.bals[k].sel = T.bals[k].sel
                                        /\ N.bals[k].fb = Renamed(T.bals[k].fb, Loop(a), Loop(c))
      /\ N.bals[i].tag = w.tag /\ N.bals[i].sel = w.sel /\ N.bals[i].fb = w.fb
  BY DEF Relabelled
<1>5. \A j \in DOMAIN T.bals : T.bals[j].tag = a => j = i
  BY <1>1 DEF UniqueRows
<1> HIDE DEF a, c
<1>6. Loop(a) \in Loops /\ Loop(c) \in Loops /\ a # None /\ c # None
  BY <1>2, <1>3, LoopIs
<1>7. \A tag : /\ Renamed(tag, Loop(a), Loop(c)) \notin Loops <=> tag \notin Loops
               /\ tag \notin Loops => Renamed(tag, Loop(a), Loop(c)) = tag
               /\ Renamed(tag, a, c) = None <=> tag = None
  <2> SUFFICES ASSUME NEW tag
               PROVE  /\ Renamed(tag, Loop(a), Loop(c)) \notin Loops <=> tag \notin Loops
                      /\ tag \notin Loops => Renamed(tag, Loop(a), Loop(c)) = tag
                      /\ Renamed(tag, a, c) = None <=> tag = None
    OBVIOUS
  <2> QED  BY <1>6, RenamedIs
<1>8. \A k \in DOMAIN T.bals : T.bals[k].tag \in BalancerTags(T) /\ N.bals[k].tag \in BalancerTags(N)
  BY <1>1, <1>4, Elements DEF BalancerTags
<1>9. \A t \in BalancerTags(T) : Renamed(t, a, c) \in BalancerTags(N)
  <2> SUFFICES ASSUME NEW t \in BalancerTags(T) PROVE Renamed(t, a, c) \in BalancerTags(N)
    OBVIOUS
  <2>1. PICK k \in DOMAIN T.bals : T.bals[k].tag = t
    BY DEF BalancerTags, Range
  <2>2. CASE t = a
    <3>1. c \in BalancerTags(N)
      BY <1>3, <1>4, <1>8
    <3> QED  BY <2>2, <3>1, RenamedIs
  <2>3. CASE t # a
    <3>1. k # i
      BY <2>1, <2>3 DEF a
    <3>2. t \in BalancerTags(N)
      BY <1>4, <1>8, <2>1, <3>1
    <3> QED  BY <2>3, <3>2, RenamedIs
  <2> QED  BY <2>2, <2>3
<1>10. \A t \in OutboundTags(T) : Renamed(t, Loop(a), Loop(c)) \in OutboundTags(N)
  <2> SUFFICES ASSUME NEW t \in OutboundTags(T)
               PROVE  Renamed(t, Loop(a), Loop(c)) \in OutboundTags(N)
    OBVIOUS
  <2>1. PICK k \in DOMAIN T.outs : T.outs[k].tag = t
    BY DEF OutboundTags, Range
  <2>2. N.outs[k] \in Range(N.outs) /\ N.outs[k].tag = Renamed(t, Loop(a), Loop(c))
    BY <1>4, <2>1, Elements
  <2> QED  BY <2>2 DEF OutboundTags
<1>11. \A t \in Outs : t \in OutboundTags(T) => t \in OutboundTags(N)
  BY <1>7, <1>10, LoopIs
<1>12. RulesResolve(N)
  <2> SUFFICES ASSUME NEW k \in DOMAIN N.rules, ~IsLoop(N.rules[k].in)
               PROVE  /\ N.rules[k].bal # None => N.rules[k].bal \in BalancerTags(N)
                      /\ N.rules[k].out \in Outs => N.rules[k].out \in OutboundTags(N) \cup {Warp}
    BY DEF RulesResolve, Range
  <2>1. T.rules[k] \in Range(T.rules) /\ ~IsLoop(T.rules[k].in)
    BY <1>1, <1>4, <1>7, Elements DEF IsLoop
  <2>2. /\ T.rules[k].bal # None => T.rules[k].bal \in BalancerTags(T)
        /\ T.rules[k].out \in Outs => T.rules[k].out \in OutboundTags(T) \cup {Warp}
    BY <1>1, <2>1 DEF RulesResolve
  <2> QED  BY <1>4, <1>7, <1>9, <1>11, <2>2
<1>13. HiddenRulesLead(N)
  <2> SUFFICES ASSUME NEW k \in DOMAIN N.rules, IsLoop(N.rules[k].in)
               PROVE  /\ N.rules[k].bal = Target(N.rules[k].in) /\ N.rules[k].out = None
                      /\ N.rules[k].in \in OutboundTags(N)
    BY DEF HiddenRulesLead, Range
  <2>1. T.rules[k] \in Range(T.rules) /\ T.rules[k].in \in Loops
    BY <1>1, <1>4, <1>7, Elements DEF IsLoop
  <2>2. /\ T.rules[k].bal = Target(T.rules[k].in) /\ T.rules[k].out = None
        /\ T.rules[k].in \in OutboundTags(T)
    BY <1>1, <2>1 DEF HiddenRulesLead, IsLoop
  <2>3. CASE T.rules[k].in = Loop(a)
    <3>1. T.rules[k].bal = a
      BY <2>2, <2>3, LoopIs
    <3>2. N.rules[k].in = Loop(c) /\ N.rules[k].bal = c
      BY <1>4, <2>3, <3>1, RenamedIs
    <3> QED  BY <1>4, <1>10, <2>2, <3>2, LoopIs
  <2>4. CASE T.rules[k].in # Loop(a)
    <3>1. T.rules[k].bal # a
      BY <2>1, <2>2, <2>4, LoopIs
    <3>2. N.rules[k].in = T.rules[k].in /\ N.rules[k].bal = T.rules[k].bal
      BY <1>4, <2>4, <3>1, RenamedIs
    <3> QED  BY <1>4, <1>10, <2>2, <3>2
  <2> QED  BY <2>3, <2>4
<1>14. OutboundRefsResolve(N)
  <2>1. ASSUME NEW k \in DOMAIN N.bals
        PROVE  /\ N.bals[k].sel \subseteq OutboundTags(N) \cup {Warp, Direct}
               /\ N.bals[k].fb \in Outs => N.bals[k].fb \in OutboundTags(N) \cup {Warp, Direct}
    <3>1. CASE k = i
      <4>1. w.sel \subseteq Outs
        BY DEF Balancer
      <4> QED  BY <1>3, <1>4, <1>11, <3>1, <4>1
    <3>2. CASE k # i
      <4>1. T.bals[k] \in Range(T.bals) /\ T.bals[k].sel \subseteq Outs
        BY <1>1, <1>4, Elements
      <4>2. /\ T.bals[k].sel \subseteq OutboundTags(T) \cup {Warp, Direct}
            /\ T.bals[k].fb \in Outs => T.bals[k].fb \in OutboundTags(T) \cup {Warp, Direct}
        BY <1>1, <4>1 DEF OutboundRefsResolve
      <4>3. N.bals[k].sel = T.bals[k].sel /\ N.bals[k].fb = Renamed(T.bals[k].fb, Loop(a), Loop(c))
        BY <1>4, <3>2
      <4>4. N.bals[k].fb \in Outs => N.bals[k].fb = T.bals[k].fb
        BY <1>7, <4>3, LoopIs
      <4> QED  BY <1>11, <4>1, <4>2, <4>3, <4>4
    <3> QED  BY <3>1, <3>2
  <2>2. ASSUME NEW k \in DOMAIN N.outs
        PROVE  N.outs[k].dialer \in Outs => N.outs[k].dialer \in OutboundTags(N) \cup {Warp, Direct}
    <3>1. T.outs[k] \in Range(T.outs)
      BY <1>1, <1>4, Elements
    <3>2. T.outs[k].dialer \in Outs => T.outs[k].dialer \in OutboundTags(T) \cup {Warp, Direct}
      BY <1>1, <3>1 DEF OutboundRefsResolve
    <3> QED  BY <1>4, <1>11, <3>2
  <2> QED  BY <2>1, <2>2 DEF OutboundRefsResolve, Range
<1>15. UniqueTags(N)
  <2>1. UniqueRows(N.bals)
    <3> SUFFICES ASSUME NEW j \in DOMAIN T.bals, NEW k \in DOMAIN T.bals, N.bals[j].tag = N.bals[k].tag
                 PROVE  j = k
      BY <1>4 DEF UniqueRows
    <3>1. \A m \in DOMAIN T.bals \ {i} : N.bals[m].tag # c
      BY <1>2, <1>3, <1>4
    <3>2. N.bals[i].tag = c
      BY <1>3, <1>4
    <3>3. CASE j # i /\ k # i
      BY <1>1, <1>4, <3>3 DEF UniqueRows
    <3> QED  BY <3>1, <3>2, <3>3
  <2>2. UniqueVisible(N.outs)
    <3> SUFFICES ASSUME NEW j \in DOMAIN T.outs, NEW k \in DOMAIN T.outs,
                        ~IsLoop(N.outs[j].tag), N.outs[j].tag = N.outs[k].tag
                 PROVE  j = k
      BY <1>4 DEF UniqueVisible
    <3>1. ~IsLoop(T.outs[j].tag) /\ T.outs[j].tag = T.outs[k].tag
      BY <1>4, <1>7 DEF IsLoop
    <3> QED  BY <1>1, <3>1 DEF UniqueVisible
  <2> QED  BY <2>1, <2>2, UniqueTagsIs
<1>16. Destinationless(N) = Destinationless(T)
  <2>1. \A k \in DOMAIN T.rules : /\ N.rules[k].out = T.rules[k].out
                                  /\ N.rules[k].bal = None <=> T.rules[k].bal = None
    BY <1>4, <1>7
  <2>2. BareAt(N.rules) = BareAt(T.rules)
    BY <1>4, <2>1 DEF BareAt
  <2> QED  BY <2>2 DEF Destinationless, BareAt
<1>17. LeadsKept(T, N, i)
  <2> SUFFICES ASSUME NEW j \in DOMAIN T.bals \ {i}, NEW m \in DOMAIN T.bals, Leads(T, j, m)
               PROVE  Leads(N, j, m)
    BY DEF LeadsKept
  <2> DEFINE x == T.bals[j].fb
             y == Renamed(x, Loop(a), Loop(c))
  <2>1. x \in Loops /\ T.bals[m].tag = Target(x) /\ N.bals[j].fb = y
    BY <1>4 DEF Leads, Ins
  <2>2. PICK k \in DOMAIN T.rules : T.rules[k].in = x
    BY DEF Leads, Ins, Range
  <2>3. N.rules[k].in = y /\ N.rules[k] \in Range(N.rules)
    BY <1>4, <2>2, Elements
  <2> HIDE DEF x, y
  <2>4. y \in Loops
    BY <1>7, <2>1 DEF y
  <2>5. y \in Ins(N)
    BY <2>3, <2>4 DEF Ins
  <2>6. N.bals[m].tag = Target(y)
    <3>1. CASE x = Loop(a)
      <4>1. T.bals[m].tag = a /\ y = Loop(c)
        BY <2>1, <3>1, LoopIs, RenamedIs DEF y
      <4>2. m = i
        BY <1>5, <4>1
      <4> QED  BY <1>3, <1>4, <4>1, <4>2, LoopIs
    <3>2. CASE x # Loop(a)
      <4>1. Target(x) # a /\ y = x
        BY <2>1, <3>2, LoopIs, RenamedIs DEF y
      <4>2. m # i
        BY <2>1, <4>1 DEF a
      <4> QED  BY <1>4, <2>1, <4>1, <4>2
    <3> QED  BY <3>1, <3>2
  <2> QED  BY <2>1, <2>5, <2>6 DEF Leads
<1>18. Sound(N)
  BY <1>4, <1>12, <1>13, <1>14, <1>15 DEF Sound
<1> QED  BY <1>4, <1>16, <1>17, <1>18

\* Without the loopbacks nobody falls back to, every row leads where it did.
LEMMA TidiedIs ==
  ASSUME NEW T, Sound(T), NEW g \in Bals
  PROVE  LET E == RemoveLoopbackIfOrphaned(T, g) IN
         /\ Sound(E) /\ E.bals = T.bals /\ Destinationless(E) <= Destinationless(T)
         /\ \A j \in DOMAIN T.bals : T.bals[j].fb \in Ins(T) => T.bals[j].fb \in Ins(E)
<1>1. CASE LoopbackInUse(T, g)
  <2>1. RemoveLoopbackIfOrphaned(T, g) = T
    BY <1>1 DEF RemoveLoopbackIfOrphaned
  <2>2. Destinationless(T) \in Nat
    BY DestinationlessType DEF Sound
  <2> QED  BY <2>1, <2>2
<1>2. CASE ~LoopbackInUse(T, g)
  <2> DEFINE gone == {Loop(g)}
             E == RemoveLoopbacks(T, gone)
  <2>1. RemoveLoopbackIfOrphaned(T, g) = E
    BY <1>2 DEF RemoveLoopbackIfOrphaned, RemoveLoopback
  <2>2. gone \subseteq Loops
    BY LoopIs
  <2>3. \A j \in DOMAIN T.bals : T.bals[j].fb \notin gone
    BY <1>2 DEF LoopbackInUse, Range
  <2> HIDE DEF gone
  <2>4. /\ Sound(E) /\ E.bals = T.bals /\ E.obs = T.obs
        /\ OutboundTags(E) = OutboundTags(T) \ gone /\ Ins(E) = Ins(T) \ gone
        /\ Destinationless(E) <= Destinationless(T)
        /\ \A tag \in Loops \ gone : Ahead(T.rules, tag) => Ahead(E.rules, tag)
    BY <2>2, RemoveLoopbacksIs
  <2> HIDE DEF E
  <2> QED  BY <2>1, <2>3, <2>4
<1> QED  BY <1>1, <1>2

\* What a row led to it still leads to when its hidden rule stays.
LEMMA LeadsOn ==
  ASSUME NEW T, NEW D, NEW E, NEW row, LeadsKept(T, D, row), E.bals = D.bals, Len(D.bals) = Len(T.bals),
         DOMAIN D.bals = DOMAIN T.bals,
         \A j \in DOMAIN D.bals : D.bals[j].fb \in Ins(D) => D.bals[j].fb \in Ins(E)
  PROVE  LeadsKept(T, E, row)
  BY DEF LeadsKept, Leads

\* Editing one row leaves the others falling back where they did.
LEMMA ReplacedIs ==
  ASSUME NEW T, Kept(T), NEW i \in DOMAIN T.bals, NEW f, Confirmed(T, OtherTags(T, i), f)
  PROVE  Edited(T, ReplaceBalancer(T, i, f, OtherTags(T, i)), i)
<1> DEFINE known == OtherTags(T, i)
           w == WireBalancer(f, known)
           old == T.bals[i]
           N == Retagged(T, i, w, old.tag, f.tag)
           D == IF IsLoop(old.fb) /\ Target(old.fb) # f.fb
                THEN RemoveLoopbackIfOrphaned(N, Target(old.fb)) ELSE N
           E == SyncObservatories(EnsureFallback(D, f, known))
<1>1. /\ Sound(T) /\ T \in Template /\ Len(T.bals) <= MaxBals /\ T.bals \in Seq(Balancer)
  BY KeptIs DEF Kept
<1>2. /\ old.tag \in Bals /\ old.tag \notin known /\ known \subseteq Bals
  BY <1>1, OtherTagsIs
<1>3. f \in Balancer /\ f.tag \in Bals /\ f.fb \notin Loops
  BY DEF Confirmed, Balancer
<1>4. /\ w \in Balancer /\ w.tag = f.tag /\ w.sel = f.sel
      /\ w.fb = IF f.fb \in known THEN Loop(f.fb) ELSE f.fb
  BY <1>2, <1>3, WireIs
<1>5. w.fb # Loop(old.tag)
  BY <1>2, <1>3, <1>4, LoopIs
<1>6. ReplaceBalancer(T, i, f, known) = E
  BY DEF ReplaceBalancer, Retagged, Put, Rebound
<1> HIDE DEF w
<1>7. Relabelled(T, N, i, w, old.tag, f.tag)
  BY <1>1, <1>2, <1>3, <1>4, <1>5, RetaggedIs
<1> HIDE DEF N
<1>8. /\ Sound(N) /\ LeadsKept(T, N, i) /\ Len(N.bals) = Len(T.bals)
      /\ Destinationless(N) = Destinationless(T)
  BY <1>1, <1>4, <1>7, RelabelledIs
<1>9. /\ Sound(D) /\ D.bals = N.bals /\ Destinationless(D) <= Destinationless(N)
      /\ \A j \in DOMAIN N.bals : N.bals[j].fb \in Ins(N) => N.bals[j].fb \in Ins(D)
  <2>1. CASE IsLoop(old.fb) /\ Target(old.fb) # f.fb
    <3> DEFINE g == Target(old.fb)
    <3>1. g \in Bals /\ D = RemoveLoopbackIfOrphaned(N, g)
      BY <2>1, LoopIs DEF IsLoop
    <3> HIDE DEF g, D
    <3> QED  BY <1>8, <3>1, TidiedIs
  <2>2. CASE ~(IsLoop(old.fb) /\ Target(old.fb) # f.fb)
    <3>1. D = N
      BY <2>2
    <3>2. Destinationless(N) \in Nat
      BY <1>8, DestinationlessType DEF Sound
    <3> HIDE DEF D
    <3> QED  BY <1>8, <3>1, <3>2
  <2> QED  BY <2>1, <2>2
<1> HIDE DEF D
<1>10. /\ Sound(E) /\ ObserverFits(E) /\ E.bals = D.bals /\ Ins(D) \subseteq Ins(E)
       /\ Destinationless(E) <= Destinationless(D)
  <2> HIDE DEF known
  <2> QED  BY <1>2, <1>9, EnsureFallbackIs
<1> HIDE DEF E
<1>11. LeadsKept(T, E, i)
  <2>1. N.bals \in Seq(Balancer)
    BY <1>8, Fields DEF Sound
  <2>2. DOMAIN N.bals = DOMAIN T.bals
    BY <1>1, <1>8, <2>1
  <2>3. \A j \in DOMAIN N.bals : N.bals[j].fb \in Ins(N) => N.bals[j].fb \in Ins(E)
    BY <1>9, <1>10
  <2> QED  BY <1>8, <1>9, <1>10, <2>2, <2>3, LeadsOn
<1>12. Destinationless(E) <= Destinationless(T)
  <2>1. /\ Destinationless(E) \in Nat /\ Destinationless(D) \in Nat /\ Destinationless(N) \in Nat
        /\ Destinationless(T) \in Nat
    BY <1>1, <1>8, <1>9, <1>10, DestinationlessType DEF Sound
  <2> QED  BY <1>8, <1>9, <1>10, <2>1
<1>13. Len(E.bals) <= MaxBals
  BY <1>1, <1>8, <1>9, <1>10
<1> QED  BY <1>6, <1>10, <1>11, <1>12, <1>13 DEF Edited, Kept

\* Editing a balancer is sound.
LEMMA EditBalancerDone ==
  ASSUME Kept(draft), NEW i \in DOMAIN draft.bals, EditBalancer(i)
  PROVE  Drafted
<1> DEFINE known == OtherTags(draft, i)
           form == Shown(draft, i)
<1>1. PICK f \in BalancerForm(draft, known, form) : SetDraft(ReplaceBalancer(draft, i, f, known), i)
  BY DEF EditBalancer, OtherTags, Shown
<1> DEFINE E == ReplaceBalancer(draft, i, f, known)
<1>2. /\ Sound(draft) /\ draft.bals \in Seq(Balancer) /\ Len(draft.bals) <= MaxBals
  BY KeptIs DEF Kept
<1>3. known \subseteq Bals
  BY <1>2, OtherTagsIs
<1>4. /\ form.sel \subseteq Outs /\ form.sel \subseteq OutboundTags(draft) \cup {Warp, Direct}
      /\ form.fb \in Outs \cup Bals \cup {None}
      /\ form.fb \in Outs => form.fb \in OutboundTags(draft) \cup {Warp, Direct}
  BY <1>2, ShownIs
<1>5. Confirmed(draft, known, f)
  <2> HIDE DEF known, form
  <2> QED  BY <1>1, <1>2, <1>3, <1>4, FormIs
<1>6. Edited(draft, E, i)
  BY <1>5, ReplacedIs
<1>7. i \in 0..MaxBals
  <2>1. i \in 1..Len(draft.bals) /\ Len(draft.bals) \in Nat /\ MaxBals \in Nat
    BY <1>2, TagsAssumption
  <2> QED  BY <1>2, <2>1
<1> HIDE DEF E
<1>8. SetDraft(E, i)
  BY <1>1 DEF E
<1> QED  BY <1>6, <1>7, <1>8, EditDone

-----------------------------------------------------------------------------
(* Every step of the editor.                                               *)

\* What is put on the server is wired; the template under edit is kept.
EditorInv ==
  /\ Kept(draft)
  /\ saved \in Template /\ Wired(saved)
  /\ edits \in 0..MaxDraftEdits /\ touched \in 0..MaxBals

\* What a step of either kind does.
Stepped ==
  /\ Edited(draft, draft', touched') /\ touched' \in 0..MaxBals
  /\ \/ edits < MaxDraftEdits /\ edits' = edits + 1 /\ saved' = saved
     \/ edits' = edits /\ (saved' = saved \/ (saved' = draft' /\ Wired(draft')))

\* A save normalises the draft: no row falls back elsewhere for it.
LEMMA SaveDone == ASSUME Kept(draft), Save PROVE Stepped
<1> DEFINE E == Normalise(draft)
<1>1. /\ Sound(draft) /\ ObserverFits(draft) /\ Len(draft.bals) <= MaxBals
  BY DEF Kept
<1>2. /\ draft' = E /\ DetectCycles(E) = {} /\ saved' \in {saved, draft'} /\ touched' = 0 /\ edits' = edits
  BY DEF Save
<1>3. /\ Sound(E) /\ E.bals = draft.bals /\ E.obs = draft.obs
      /\ Destinationless(E) <= Destinationless(draft)
      /\ FallbacksWired(E) /\ NoOrphanLoopback(E)
      /\ \A i, j \in DOMAIN draft.bals : Leads(draft, i, j) => Leads(E, i, j)
  BY <1>1, NormaliseIs
<1> HIDE DEF E
<1>4. Wired(E)
  <2>1. E \in Template /\ UniqueTags(E)
    BY <1>3 DEF Sound
  <2>2. NoFallbackCycle(E)
    BY <1>2, <2>1, NoCycle
  <2> QED  BY <1>3, <2>2 DEF Wired
<1>5. Kept(E)
  <2>1. ObserverFits(E)
    BY <1>1, <1>3 DEF ObserverFits, NeededObserver
  <2> QED  BY <1>1, <1>3, <2>1 DEF Kept
<1>6. Edited(draft, E, 0)
  BY <1>3, <1>5 DEF Edited, LeadsKept
<1> QED  BY <1>2, <1>4, <1>6, NoRow DEF Stepped

\* Every edit of every tab is sound.
LEMMA EditSomethingDone == ASSUME Kept(draft), EditSomething PROVE Drafted
<1>1. CASE AddBalancer
  BY <1>1, AddBalancerDone
<1>2. CASE AddOutbound
  BY <1>2, AddOutboundDone
<1>3. CASE AddRule
  BY <1>3, AddRuleDone
<1>4. ASSUME NEW i \in DOMAIN draft.bals, EditBalancer(i) PROVE Drafted
  BY <1>4, EditBalancerDone
<1>5. ASSUME NEW i \in DOMAIN draft.bals, DeleteBalancer(i) PROVE Drafted
  BY <1>5, DeleteBalancerDone
<1>6. ASSUME NEW i \in VisibleOuts(draft), EditOutbound(i) PROVE Drafted
  BY <1>6, EditOutboundDone
<1>7. ASSUME NEW i \in VisibleOuts(draft), DeleteOutbound(i) PROVE Drafted
  BY <1>7, DeleteOutboundDone
<1>8. ASSUME NEW i \in DOMAIN draft.outs, SetFirst(i) PROVE Drafted
  BY <1>8, SetFirstDone
<1>9. ASSUME NEW i \in VisibleOuts(draft), NEW j \in VisibleOuts(draft), MoveOutbound(i, j) PROVE Drafted
  BY <1>9, MoveOutboundDone
<1>10. ASSUME NEW i \in VisibleRules(draft), EditRule(i) PROVE Drafted
  BY <1>10, EditRuleDone
<1>11. ASSUME NEW i \in VisibleRules(draft), DeleteRule(i) PROVE Drafted
  BY <1>11, DeleteRuleDone
<1>12. ASSUME NEW i \in VisibleRules(draft), NEW j \in VisibleRules(draft), MoveRule(i, j) PROVE Drafted
  BY <1>12, MoveRuleDone
<1>13. ASSUME NEW i \in VisibleRules(draft), NEW j \in VisibleRules(draft), DragRule(i, j) PROVE Drafted
  BY <1>13, DragRuleDone
<1>14. CASE RemoveWarp
  BY <1>14, RemoveWarpDone
<1>15. CASE SetDirect
  BY <1>15, SetDirectDone
<1>16. CASE ResetDefault
  BY <1>16, ResetDefaultDone
<1> QED
  BY <1>1, <1>2, <1>3, <1>4, <1>5, <1>6, <1>7, <1>8, <1>9, <1>10, <1>11, <1>12, <1>13, <1>14,
     <1>15, <1>16 DEF EditSomething

\* So is every step.
LEMMA NextDone == ASSUME Kept(draft), EditorNext PROVE Stepped
<1>1. CASE edits < MaxDraftEdits /\ EditSomething
  <2>1. Drafted
    BY <1>1, EditSomethingDone
  <2> QED  BY <1>1, <2>1 DEF Drafted, Stepped
<1>2. CASE Save
  BY <1>2, SaveDone
<1> QED  BY <1>1, <1>2 DEF EditorNext

\* A session begins with the invariant.
LEMMA EditorInitInv == ASSUME EditorInit PROVE EditorInv
<1>1. draft \in InitialTemplates /\ saved = draft /\ edits = 0 /\ touched = 0
  BY DEF EditorInit
<1>2. /\ draft \in Template /\ Len(draft.bals) <= MaxBals /\ UniqueTags(draft)
      /\ Consistent(draft) /\ HiddenRulesLead(draft) /\ Wired(draft)
  BY <1>1, TemplatesAssumption
<1>3. Kept(draft)
  BY <1>2 DEF Kept, Sound, Consistent
<1>4. edits \in 0..MaxDraftEdits
  BY <1>1, TagsAssumption
<1> QED  BY <1>1, <1>2, <1>3, <1>4, NoRow DEF EditorInv

\* Every step keeps it.
LEMMA EditorStepInv == ASSUME EditorInv, [EditorNext]_editorVars PROVE EditorInv'
<1>1. CASE EditorNext
  <2>1. Stepped
    BY <1>1, NextDone DEF EditorInv
  <2>2. Kept(draft)'
    BY <2>1 DEF Stepped, Edited
  <2>3. (saved \in Template)' /\ Wired(saved)'
    <3>1. draft' \in Template
      BY <2>1 DEF Stepped, Edited, Kept, Sound
    <3>2. CASE saved' = saved
      BY <3>2 DEF EditorInv
    <3>3. CASE saved' = draft' /\ Wired(draft')
      BY <3>1, <3>3
    <3> QED  BY <2>1, <3>2, <3>3 DEF Stepped
  <2>4. (edits \in 0..MaxDraftEdits)'
    <3>1. edits \in 0..MaxDraftEdits /\ MaxDraftEdits \in Nat
      BY TagsAssumption DEF EditorInv
    <3> QED  BY <2>1, <3>1 DEF Stepped
  <2> QED  BY <2>1, <2>2, <2>3, <2>4 DEF EditorInv, Stepped
<1>2. CASE UNCHANGED editorVars
  BY <1>2 DEF EditorInv, editorVars
<1> QED  BY <1>1, <1>2

\* Whatever sequence of edits and saves the operator makes, on a server that
\* takes or loses any of them, the draft is kept and what was saved is wired.
THEOREM EditorInvariant == EditorSpec => []EditorInv
<1>1. EditorInit => EditorInv
  BY EditorInitInv
<1>2. EditorInv /\ [EditorNext]_editorVars => EditorInv'
  BY EditorStepInv
<1> QED  BY <1>1, <1>2, PTL DEF EditorSpec

\* The draft and the server's template stay templates, and no form lets a tag be
\* used twice (BalancerFormModal, OutboundFormModal).
THEOREM EditorTypeSafe == EditorSpec => []EditorTypeOK
<1>1. EditorInv => EditorTypeOK
  BY DEF EditorInv, Kept, Sound, EditorTypeOK
<1> QED  BY <1>1, EditorInvariant, PTL

\* After any edit of any tab every rule, balancer and dialer names something
\* that is there, and the observatory is the one the balancers need
\* (reference-cleanup.ts, balancer-helpers.ts): the renames and the deletions
\* of the five tabs miss no reference.
THEOREM EditorConsistent == EditorSpec => []DraftConsistent
<1>1. EditorInv => DraftConsistent
  BY DEF EditorInv, Kept, Sound, DraftConsistent, Consistent
<1> QED  BY <1>1, EditorInvariant, PTL

\* What onSaveAll sends has a loopback and a leading hidden rule for every
\* fallback to a balancer, none besides, and no circle of fallbacks
\* (balancer-loopback.ts).
THEOREM EditorSavesWired == EditorSpec => []LoopbacksWired
<1>1. EditorInv => LoopbacksWired
  BY DEF EditorInv, LoopbacksWired
<1> QED  BY <1>1, EditorInvariant, PTL

\* No edit of another row, of an outbound or of a rule, and no save, redirects
\* what a balancer falls back to: renames, hidden rules moved in front and
\* orphans swept away never take over another's traffic (balancer-loopback.ts).
THEOREM EditorKeepsFallbacks == EditorSpec => OthersFallbackKept
<1> DEFINE A == Len(draft'.bals) = Len(draft.bals) =>
                  \A i \in DOMAIN draft.bals \ {touched'} :
                    Reach(draft, i) > 0 => Reach(draft', i) = Reach(draft, i)
<1>1. EditorInv /\ [EditorNext]_editorVars => [A]_editorVars
  <2> SUFFICES ASSUME EditorInv, EditorNext PROVE A
    OBVIOUS
  <2> SUFFICES ASSUME Len(draft'.bals) = Len(draft.bals), NEW i \in DOMAIN draft.bals \ {touched'},
                      Reach(draft, i) > 0
               PROVE  Reach(draft', i) = Reach(draft, i)
    OBVIOUS
  <2> DEFINE r == Reach(draft, i)
  <2>1. Edited(draft, draft', touched')
    BY NextDone DEF EditorInv, Stepped
  <2>2. Sound(draft) /\ Sound(draft')
    BY <2>1 DEF EditorInv, Edited, Kept
  <2>3. draft.bals \in Seq(Balancer) /\ draft'.bals \in Seq(Balancer)
    BY <2>2, Fields DEF Sound
  <2>4. r \in 0..Len(draft.bals) /\ (r \in DOMAIN draft.bals => Leads(draft, i, r))
    BY <2>2, ReachIs
  <2>5. r \in DOMAIN draft.bals /\ i \in DOMAIN draft'.bals /\ r \in DOMAIN draft'.bals
    BY <2>3, <2>4
  <2> HIDE DEF r
  <2>6. Leads(draft', i, r)
    BY <2>1, <2>4, <2>5 DEF Edited, LeadsKept
  <2>7. Reach(draft', i) = r
    BY <2>2, <2>5, <2>6, ReachIs
  <2> QED  BY <2>7 DEF r
<1>2. OthersFallbackKept <=> [][A]_editorVars
  BY DEF OthersFallbackKept
<1> HIDE DEF A
<1> QED  BY <1>1, <1>2, EditorInvariant, PTL DEF EditorSpec

\* A deletion never leaves a rule without a destination that had one: it is
\* dropped rather than left to black-hole its traffic (applyCleanup).
THEOREM EditorDropsNoDestination == EditorSpec => DeletionLeavesNoBlackHole
<1> DEFINE A == Len(draft'.bals) < Len(draft.bals) \/ Len(draft'.outs) < Len(draft.outs) =>
                  Destinationless(draft') <= Destinationless(draft)
<1>1. EditorInv /\ [EditorNext]_editorVars => [A]_editorVars
  <2> SUFFICES ASSUME EditorInv, EditorNext PROVE A
    OBVIOUS
  <2>1. Edited(draft, draft', touched')
    BY NextDone DEF EditorInv, Stepped
  <2> QED  BY <2>1 DEF Edited
<1>2. DeletionLeavesNoBlackHole <=> [][A]_editorVars
  BY DEF DeletionLeavesNoBlackHole
<1> HIDE DEF A
<1> QED  BY <1>1, <1>2, EditorInvariant, PTL DEF EditorSpec
=============================================================================
