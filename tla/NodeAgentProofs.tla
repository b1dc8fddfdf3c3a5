--------------------------- MODULE NodeAgentProofs ---------------------------
(***************************************************************************)
(* Proofs about the leaf node, for any number of accounts, any quotas and  *)
(* any bounds: the types, the marker, samples and the accounts of traffic. *)
(***************************************************************************)
EXTENDS NodeAgent, TLAPS

-----------------------------------------------------------------------------
(* Lemmas about the operators the steps are built from.                    *)

\* The empty configuration is a configuration.
LEMMA BlankType == Blank \in Configs
  BY ResultsAssumption DEF Blank, Configs

\* Zero counts nothing for every key.
LEMMA ZeroType == Zero \in [Keys -> Nat]
  BY DEF Zero

\* The state of a new node (load without a file) is a state.
LEMMA FreshType == Fresh \in States
  BY ZeroType, ResultsAssumption DEF Fresh, States, Zero

\* desired() returns a configuration, whatever the state.
LEMMA DesiredType ==
  ASSUME NEW s \in States
  PROVE  Desired(s) \in Configs
  <1>1. CASE s.skel = NoInbounds \/ ~s.on[Inbound] \/ Exhausted(s, Inbound)
    BY <1>1, BlankType DEF Desired
  <1>2. CASE ~(s.skel = NoInbounds \/ ~s.on[Inbound] \/ Exhausted(s, Inbound))
    <2>1. s.skel \in Skeletons /\ s.clients \in SUBSET Accounts
      BY DEF States
    <2> QED BY <1>2, <2>1 DEF Desired, Configs
  <1> QED BY <1>1, <1>2

\* What the caller of Apply knows of its result: a process that was kept was
\* there before and its counters go on, and any other one has just been started.
LEMMA AppliedResult ==
  ASSUME NEW e \in Engines, NEW c \in Configs, NEW r \in Applied(e, c)
  PROVE  /\ r \in [eng : Engines, ok : BOOLEAN, kept : BOOLEAN]
         /\ r.kept => r.ok
         /\ r.kept /\ r.eng.up => e.up
         /\ r.kept => r.eng.fresh = e.fresh
         /\ ~r.kept /\ r.eng.up => r.eng.fresh
  <1> DEFINE Good(x) == /\ x \in [eng : Engines, ok : BOOLEAN, kept : BOOLEAN]
                        /\ x.kept => x.ok
                        /\ x.kept /\ x.eng.up => e.up
                        /\ x.kept => x.eng.fresh = e.fresh
                        /\ ~x.kept /\ x.eng.up => x.eng.fresh
  <1>0. e.memo \in Configs /\ e.up \in BOOLEAN /\ e.fresh \in BOOLEAN /\ e.cfg \in Configs
    BY DEF Engines
  <1>1. \A d \in Configs : Good(Result(Started(d), FALSE, FALSE))
                           /\ Good(Result(Started(d), TRUE, FALSE))
    BY DEF Result, Started, Engines
  <1>2. \A f \in Failed(e) : /\ f \in Engines /\ ~f.up
                             /\ \A d \in Configs : [f EXCEPT !.memo = d] \in Engines
                                                   /\ ~[f EXCEPT !.memo = d].up
    BY <1>0, BlankType DEF Failed, Stopped, Engines
  <1>3. \A f \in Failed(e) : Good(Result(f, FALSE, FALSE))
    BY <1>2 DEF Result
  <1>4. \A f \in Failed(e), d \in Configs : Good(Result([f EXCEPT !.memo = d], FALSE, FALSE))
    BY <1>2 DEF Result
  <1>7. e.up => Good(Result([e EXCEPT !.cfg = c, !.memo = c], TRUE, TRUE))
    BY DEF Result, Engines
  <1>9. \A x : Good(x) => Good([x EXCEPT !.eng = Stopped(x.eng)])
    BY BlankType DEF Stopped, Engines
  <1> HIDE DEF Good
  <1>5. \A x \in RestartResults(e, c) : Good(x)
    BY <1>0, <1>1, <1>3 DEF RestartResults
  <1>6. \A x \in HotFailures(e, c) : Good(x)
    <2>1. Between(e.memo, c) \subseteq Configs
      BY DEF Between
    <2> SUFFICES ASSUME NEW x \in HotFailures(e, c) PROVE Good(x)
      OBVIOUS
    <2>2. CASE x = Result(Started(e.memo), FALSE, FALSE)
      BY <1>0, <1>1, <2>2
    <2>3. CASE \E f \in Failed(e) : \E d \in Between(e.memo, c) :
                  x = Result([f EXCEPT !.memo = d], FALSE, FALSE)
      BY <1>4, <2>1, <2>3
    <2> QED BY <2>2, <2>3 DEF HotFailures
  <1>8. \A x \in ApplyResults(e, c) : Good(x)
    BY <1>5, <1>6, <1>7 DEF ApplyResults
  <1>10. Good(r)
    BY <1>8, <1>9 DEF Applied, MayBeDead
  <1> QED BY <1>10 DEF Good

\* What crediting progress d does to a state: nothing but usage, expiry and
\* switches, and every known key's account grows by its progress.
LEMMA CreditedResult ==
  ASSUME NEW s \in States, NEW d \in [Keys -> Nat], now \in Int
  PROVE  /\ Credited(s, d) \in States
         /\ Credited(s, d).running = s.running
         /\ \A k \in Keys : Account(Credited(s, d))[k] =
                             Account(s)[k] + (IF k \in Known(s) THEN d[k] ELSE 0)
  <1> DEFINE nused == [k \in Keys |-> IF k \in Known(s) THEN s.used[k] + d[k] ELSE s.used[k]]
             nuntil == [k \in Keys |-> IF k \in s.clients /\ d[k] > 0 /\ s.until[k] < 0
                                       THEN now - s.until[k] ELSE s.until[k]]
             u == [s EXCEPT !.used = nused, !.until = nuntil]
             non == [k \in Keys |-> s.on[k] /\ ~(k \in Known(s) /\ Exhausted(u, k))]
  <1>1. nused \in [Keys -> Nat] /\ nuntil \in [Keys -> Int]
    BY DEF States
  <1>2. non \in [Keys -> BOOLEAN]
    <2>1. s.on \in [Keys -> BOOLEAN]
      BY DEF States
    <2> HIDE DEF u
    <2> QED BY <2>1
  <1>3. u \in States /\ u.on = s.on
    BY <1>1 DEF States
  <1>4. Credited(s, d) = [u EXCEPT !.on = non]
    BY <1>3 DEF Credited
  <1> HIDE DEF nused, nuntil, non
  <1>5. [u EXCEPT !.on = non] \in States /\ [u EXCEPT !.on = non].running = s.running
        /\ [u EXCEPT !.on = non].used = nused /\ [u EXCEPT !.on = non].paid = s.paid
    BY <1>1, <1>2, <1>3 DEF States
  <1>6. \A k \in Keys : Account([u EXCEPT !.on = non])[k] = nused[k] + s.paid[k]
    BY <1>5 DEF Account, Plus
  <1>7. \A k \in Keys : Account(s)[k] = s.used[k] + s.paid[k]
    BY DEF Account, Plus
  <1>8. \A k \in Keys : s.used[k] \in Nat /\ s.paid[k] \in Nat
    BY DEF States
  <1>9. d \in [Keys -> Nat] /\ \A k \in Keys :
          nused[k] = s.used[k] + (IF k \in Known(s) THEN d[k] ELSE 0)
    BY <1>8 DEF nused
  <1>10. \A k \in Keys : nused[k] + s.paid[k] =
                           Account(s)[k] + (IF k \in Known(s) THEN d[k] ELSE 0)
    BY <1>7, <1>8, <1>9
  <1> QED BY <1>4, <1>5, <1>6, <1>10

\* Clearing usage moves it to what has been paid: the account stays the same.
LEMMA ClearedResult ==
  ASSUME NEW s \in States, NEW K \in SUBSET Keys
  PROVE  /\ Cleared(s, K) \in States /\ Cleared(s, K).running = s.running
         /\ Account(Cleared(s, K)) = Account(s)
  <1> DEFINE nused == [k \in Keys |-> IF k \in K THEN 0 ELSE s.used[k]]
             npaid == [k \in Keys |-> IF k \in K THEN s.paid[k] + s.used[k] ELSE s.paid[k]]
  <1>1. nused \in [Keys -> Nat] /\ npaid \in [Keys -> Nat]
    BY DEF States
  <1>2. \A k \in Keys : nused[k] + npaid[k] = s.used[k] + s.paid[k]
    BY DEF States
  <1>3. Cleared(s, K) = [s EXCEPT !.used = nused, !.paid = npaid]
    BY DEF Cleared, States
  <1> HIDE DEF nused, npaid
  <1>4. [s EXCEPT !.used = nused, !.paid = npaid] \in States
        /\ [s EXCEPT !.used = nused, !.paid = npaid].running = s.running
        /\ [s EXCEPT !.used = nused, !.paid = npaid].used = nused
        /\ [s EXCEPT !.used = nused, !.paid = npaid].paid = npaid
    BY <1>1 DEF States
  <1> QED BY <1>2, <1>3, <1>4 DEF Account, Plus

\* Resetting or deleting accounts keeps a state a state, its marker, and what every
\* key amounts to.
LEMMA WithoutResult ==
  ASSUME NEW s \in States, NEW K \in SUBSET Keys
  PROVE  /\ Renewed(s, K) \in States /\ Renewed(s, K).running = s.running
         /\ Account(Renewed(s, K)) = Account(s)
         /\ Without(s, K) \in States /\ Without(s, K).running = s.running
         /\ Account(Without(s, K)) = Account(s)
  <1>1. Renewed(s, K) \in States /\ Renewed(s, K).running = s.running
        /\ Renewed(s, K).used = Cleared(s, K).used /\ Renewed(s, K).paid = Cleared(s, K).paid
    BY ClearedResult DEF Renewed, States
  <1>2. Without(s, K) \in States /\ Without(s, K).running = s.running
        /\ Without(s, K).used = Cleared(s, K).used /\ Without(s, K).paid = Cleared(s, K).paid
    <2> DEFINE r == Renewed(s, K)
               nuntil == [k \in Keys |-> IF k \in K THEN 0 ELSE r.until[k]]
    <2>1. nuntil \in [Keys -> Int] /\ r.clients \ K \in SUBSET Accounts
      BY <1>1 DEF States
    <2>2. Without(s, K) = [r EXCEPT !.clients = r.clients \ K, !.until = nuntil]
      BY <1>1 DEF Without, States
    <2> HIDE DEF nuntil
    <2>3. [r EXCEPT !.clients = r.clients \ K, !.until = nuntil] \in States
      BY <1>1, <2>1 DEF States
    <2>4. /\ Without(s, K).running = r.running
          /\ Without(s, K).used = r.used /\ Without(s, K).paid = r.paid
      BY <1>1, <2>2 DEF States
    <2> QED BY <1>1, <2>2, <2>3, <2>4
  <1> QED BY <1>1, <1>2, ClearedResult DEF Account

\* A command neither forges traffic nor forgets any, and leaves the marker.
LEMMA CommandResult ==
  ASSUME NEW s \in States, NEW n \in Commands(s)
  PROVE  n \in States /\ n.running = s.running /\ Account(n) = Account(s)
  <1> DEFINE Good(x) == x \in States /\ x.running = s.running /\ Account(x) = Account(s)
  <1>0. s.clients \in SUBSET Accounts /\ Accounts \subseteq Keys /\ Inbound \in Keys
    BY DEF States, Keys
  <1>1. CASE n \in PutInbound(s)
    <2>0. PICK x \in Skeletons \ {NoInbounds}, C \in SUBSET Accounts :
            \E t \in Expiries(C) : \E f \in [C \cup {Inbound} -> BOOLEAN] :
              n = Replaced(s, C, x, f, t)
      BY <1>1, SMTT(30) DEF PutInbound
    <2>1. PICK t \in Expiries(C), f \in [C \cup {Inbound} -> BOOLEAN] :
            n = Replaced(s, C, x, f, t)
      BY <2>0
    <2> DEFINE w == Without(s, s.clients \ C)
               non == [k \in Keys |-> IF k \in C \cup {Inbound} THEN f[k] ELSE w.on[k]]
               nuntil == [k \in Keys |-> IF k \in C \cup {Inbound} THEN t[k] ELSE w.until[k]]
    <2>2. Good(w)
      BY <1>0, WithoutResult
    <2> HIDE DEF w
    <2>3. non \in [Keys -> BOOLEAN] /\ nuntil \in [Keys -> Int]
      <3>1. \A k \in C \cup {Inbound} : t[k] \in Int
        BY AgentAssumption DEF Expiries
      <3> QED BY <2>2, <3>1 DEF States
    <2>4. n = [w EXCEPT !.skel = x, !.clients = C, !.on = non, !.until = nuntil]
      BY <2>1, <2>2 DEF Replaced, States, w
    <2> HIDE DEF non, nuntil
    <2>5. n \in States /\ n.running = w.running /\ n.used = w.used /\ n.paid = w.paid
      BY <2>2, <2>3, <2>4 DEF States
    <2> QED BY <2>2, <2>5 DEF Account
  <1>2. CASE n \in DeleteInbound(s)
    <2> DEFINE w == Without(s, s.clients \cup {Inbound})
    <2>1. Good(w)
      BY <1>0, WithoutResult
    <2>2. n = [w EXCEPT !.skel = NoInbounds]
      BY <1>2 DEF DeleteInbound
    <2> HIDE DEF w
    <2>3. n \in States /\ n.running = w.running /\ n.used = w.used /\ n.paid = w.paid
      BY <2>1, <2>2, ResultsAssumption DEF States
    <2> QED BY <2>1, <2>3 DEF Account
  <1>3. CASE n \in PutClient(s)
    <2>1. PICK u \in Accounts, b \in BOOLEAN, t \in Terms :
            n = Entered(s, u, b, t)
      BY <1>3 DEF PutClient
    <2>2. n \in States /\ n.running = s.running /\ n.used = s.used /\ n.paid = s.paid
      BY <1>0, <2>1, AgentAssumption DEF States, Entered
    <2> QED BY <2>2 DEF Account
  <1>4. CASE n \in DeleteClient(s)
    <2>1. PICK u \in s.clients : n = Without(s, {u})
      BY <1>4 DEF DeleteClient
    <2>2. {u} \in SUBSET Keys
      BY <1>0
    <2> QED BY <2>1, <2>2, WithoutResult
  <1>5. CASE n \in ResetTraffic(s)
    <2>1. CASE n = Cleared(s, {Inbound})
      <3>1. {Inbound} \in SUBSET Keys
        BY <1>0
      <3> QED BY <2>1, <3>1, ClearedResult
    <2>2. CASE \E K \in SUBSET s.clients : n = Renewed(s, K)
      <3>1. PICK K \in SUBSET s.clients : n = Renewed(s, K)
        BY <2>2
      <3>2. K \in SUBSET Keys
        BY <1>0
      <3> QED BY <3>1, <3>2, WithoutResult
    <2> QED BY <1>5, <2>1, <2>2 DEF ResetTraffic
  <1> QED BY <1>1, <1>2, <1>3, <1>4, <1>5 DEF Commands

-----------------------------------------------------------------------------
(* The inductive invariants.                                               *)

\* What the running marker, the disk and the engine have to do with each other.
Booted == pc \notin {"down", "bootSave"}
Serving == Booted /\ pc # "stopSave" /\ loop # "returned"

Marks ==
  /\ eng.up => disk.running
  /\ Serving => disk.running
  /\ Serving \/ pc = "bootSave" => state.running
  /\ Serving /\ ~halted => disk = state
  /\ pc \in {"sampleApply", "sampleSave", "txnApply", "txnSave", "txnUndo"} => next.running
  /\ loop = "returned" => pc = "free"
  /\ loop = "returned" \/ ~Booted \/ pc = "stopSave" => ~eng.up
  /\ pc = "down" => state = Fresh

\* Where every unit of traffic is, and what the copies of the state amount to.
Counted == IF Sampling THEN vals ELSE base

Books ==
  /\ pc # "down" => \A k \in Keys :
       Account(state)[k] + Read[k] + Tail[k] + lost[k] = served[k]
  /\ \A k \in Keys : lost[k] >= 0
  /\ \A k \in Keys : Account(disk)[k] <= served[k]
  /\ Sampling => \A k \in Keys :
       /\ base[k] <= vals[k]
       /\ Account(next)[k] =
            Account(state)[k] + (IF k \in Known(state) THEN vals[k] - base[k] ELSE 0)
  /\ eng.up /\ ~eng.fresh => \A k \in Keys : Counted[k] <= cnt[k]
  /\ pc \in {"txnApply", "txnSave", "txnUndo"} => Account(next) = Account(state)
  /\ pc \notin {"sampleApply", "sampleSave", "txnApply", "txnSave", "txnUndo"} => next = Fresh

-----------------------------------------------------------------------------
(* Types.                                                                  *)

\* The unread tail is an integer for every key.
LEMMA TailType ==
  ASSUME TypeOK
  PROVE  Tail \in [Keys -> Int] /\ Read \in [Keys -> Int]
  <1>1. cnt \in [Keys -> Nat] /\ base \in [Keys -> Nat] /\ vals \in [Keys -> Nat]
    BY DEF TypeOK
  <1>2. \A k \in Keys : cnt[k] \in Int /\ vals[k] \in Int /\ base[k] \in Int
                        /\ cnt[k] - base[k] \in Int /\ cnt[k] - vals[k] \in Int
                        /\ vals[k] - base[k] \in Int
    BY <1>1
  <1> QED BY <1>2 DEF Tail, Read

\* Sums of integer functions are integer functions.
LEMMA PlusType ==
  ASSUME NEW f \in [Keys -> Int], NEW g \in [Keys -> Int]
  PROVE  Plus(f, g) \in [Keys -> Int]
  BY DEF Plus

\* Counter progress is never negative, also when a counter went back.
LEMMA DeltaType ==
  ASSUME NEW v \in [Keys -> Nat], NEW b \in [Keys -> Nat]
  PROVE  Delta(v, b) \in [Keys -> Nat]
  <1>1. \A k \in Keys : (IF v[k] < b[k] THEN v[k] ELSE v[k] - b[k]) \in Nat
    OBVIOUS
  <1> QED BY <1>1 DEF Delta

\* The engine step keeps the types of the engine, the counters and lost.
LEMMA EngineIsType ==
  ASSUME TypeOK, NEW r \in [eng : Engines, ok : BOOLEAN, kept : BOOLEAN], EngineIs(r)
  PROVE  eng' \in Engines /\ cnt' \in [Keys -> Nat] /\ lost' \in [Keys -> Int]
  <1>1. cnt \in [Keys -> Nat] /\ lost \in [Keys -> Int]
    BY DEF TypeOK
  <1>2. Plus(lost, Tail) \in [Keys -> Int]
    BY <1>1, TailType, PlusType
  <1> QED BY <1>1, <1>2, ZeroType DEF EngineIs

\* So does the engine step that resetGeneration() follows.
LEMMA EngineIsSeenType ==
  ASSUME TypeOK, NEW r \in [eng : Engines, ok : BOOLEAN, kept : BOOLEAN], EngineIsSeen(r)
  PROVE  /\ eng' \in Engines /\ cnt' \in [Keys -> Nat] /\ lost' \in [Keys -> Int]
         /\ base' \in [Keys -> Nat]
  <1>1. [r EXCEPT !.eng.fresh = FALSE] \in [eng : Engines, ok : BOOLEAN, kept : BOOLEAN]
    BY DEF Engines
  <1>2. eng' \in Engines /\ cnt' \in [Keys -> Nat] /\ lost' \in [Keys -> Int]
    BY <1>1, EngineIsType DEF EngineIsSeen
  <1>3. base \in [Keys -> Nat]
    BY DEF TypeOK
  <1> QED BY <1>2, <1>3, ZeroType DEF EngineIsSeen

\* A stopped engine is an engine.
LEMMA StoppedType ==
  ASSUME NEW e \in Engines
  PROVE  Stopped(e) \in Engines /\ ~Stopped(e).up
  BY BlankType DEF Stopped, Engines

\* engine.Stop() keeps the types of the engine, the counters and lost.
LEMMA EngineStopsType ==
  ASSUME TypeOK, EngineStops
  PROVE  eng' \in Engines /\ ~eng'.up /\ cnt' \in [Keys -> Nat] /\ lost' \in [Keys -> Int]
  <1> DEFINE r == Result(Stopped(eng), TRUE, FALSE)
  <1>1. eng \in Engines
    BY DEF TypeOK
  <1>2. r \in [eng : Engines, ok : BOOLEAN, kept : BOOLEAN] /\ ~r.eng.up
    BY <1>1, StoppedType DEF Result
  <1>3. EngineIs(r)
    BY DEF EngineStops
  <1> HIDE DEF r
  <1>4. eng' = r.eng
    BY <1>3 DEF EngineIs
  <1> QED BY <1>2, <1>3, <1>4, EngineIsType

\* Releasing the mutex or going on keeps the types of the locals.
LEMMA GoOnType ==
  ASSUME NEW l \in Places, GoOn(l)
  PROVE  /\ pc' \in Places /\ job' \in Jobs /\ next' \in States
         /\ vals' \in [Keys -> Nat] /\ prior' \in Configs
  BY FreshType, ZeroType, BlankType DEF GoOn, Jobs

\* So does the end of a sample, for every operation it is part of.
LEMMA AfterSampleType ==
  ASSUME NEW j \in Jobs, NEW ok \in BOOLEAN, AfterSample(j, ok)
  PROVE  \E l \in {"free", "edit", "restart", "stopping"} : GoOn(l)
  BY DEF AfterSample, Jobs

\* What a sample drops is an integer for every key.
LEMMA DroppedType ==
  ASSUME TypeOK, NEW v \in [Keys -> Nat], NEW b \in [Keys -> Nat]
  PROVE  Dropped(v, b) \in [Keys -> Int]
  <1>1. \A k \in Keys : (IF k \in Known(state) THEN 0 ELSE v[k] - b[k]) \in Int
    OBVIOUS
  <1> QED BY <1>1 DEF Dropped

\* The end of the agent process keeps the types.
LEMMA DownType ==
  ASSUME Down
  PROVE  /\ state' = Fresh /\ state' \in States /\ base' \in [Keys -> Nat] /\ halted' \in BOOLEAN
         /\ eng' \in Engines /\ ~eng'.up /\ cnt' \in [Keys -> Nat] /\ lost' \in [Keys -> Int]
         /\ loop' = "select" /\ ctx' \in BOOLEAN /\ pc' = "down" /\ job' \in Jobs
         /\ next' \in States /\ vals' \in [Keys -> Nat] /\ prior' \in Configs
         /\ now' = now /\ served' = served
  <1>1. GoOn("down") /\ "down" \in Places
    BY DEF Down, Places
  <1>2. Zero \in [Keys -> Int]
    BY DEF Zero
  <1>3. [up |-> FALSE, cfg |-> Blank, memo |-> Blank, fresh |-> FALSE] \in Engines
    BY BlankType DEF Engines
  <1> QED BY <1>1, <1>2, <1>3, GoOnType, FreshType, ZeroType DEF Down, GoOn, env

\* Starting a sample keeps the types: sampleLocked up to its Apply.
LEMMA SampleType ==
  ASSUME TypeOK, NEW j \in Jobs, Sample(j)
  PROVE  TypeOK'
  <1>0. /\ eng \in Engines /\ base \in [Keys -> Nat] /\ cnt \in [Keys -> Nat]
        /\ state \in States /\ lost \in [Keys -> Int] /\ now \in Int
        /\ prior \in Configs
    BY AgentAssumption DEF TypeOK
  <1>1. CurrentBase \in [Keys -> Nat]
    BY <1>0, ZeroType DEF CurrentBase
  <1>2. [eng EXCEPT !.fresh = FALSE] \in Engines
    BY <1>0 DEF Engines
  <1>3. CASE SampleUnread(j)
    <2>1. PICK l \in Places : GoOn(l)
      BY <1>3, AfterSampleType DEF SampleUnread, Places
    <2> QED BY <1>1, <1>2, <1>3, <2>1, GoOnType DEF SampleUnread, TypeOK, Places, Jobs, env
  <1>4. CASE SampleBegin(j)
    <2> DEFINE n == Credited(state, Delta(cnt, CurrentBase))
    <2>1. n \in States
      BY <1>0, <1>1, DeltaType, CreditedResult
    <2>2. Plus(lost, Dropped(cnt, CurrentBase)) \in [Keys -> Int]
      BY <1>0, <1>1, DroppedType, PlusType
    <2> HIDE DEF n
    <2>3. CASE n = state
      <3>1. /\ base' = cnt /\ lost' = Plus(lost, Dropped(cnt, CurrentBase))
            /\ AfterSample(j, TRUE)
        BY <1>4, <2>3 DEF SampleBegin, n
      <3>2. PICK l \in Places : GoOn(l)
        BY <3>1, AfterSampleType DEF Places
      <3> QED BY <1>0, <1>2, <1>4, <2>2, <3>1, <3>2, GoOnType
              DEF SampleBegin, TypeOK, Places, Jobs, env
    <2>4. CASE n # state
      <3>1. /\ pc' = "sampleApply" /\ job' = j /\ next' = n /\ vals' = cnt
            /\ base' = CurrentBase /\ lost' = lost /\ prior' = prior
        BY <1>4, <2>4 DEF SampleBegin, n
      <3> QED BY <1>0, <1>1, <1>2, <1>4, <2>1, <3>1 DEF SampleBegin, TypeOK, Places, Jobs, env
    <2> QED BY <2>3, <2>4
  <1> QED BY <1>3, <1>4 DEF Sample

\* Every step of the agent keeps the types.
LEMMA NextType ==
  ASSUME TypeOK, Next
  PROVE  TypeOK'
  <1>0. /\ eng \in Engines /\ state \in States /\ next \in States /\ disk \in States
        /\ lost \in [Keys -> Int] /\ base \in [Keys -> Nat] /\ vals \in [Keys -> Nat]
        /\ prior \in Configs
    BY DEF TypeOK
  <1>1. \A e \in Engines, s \in States :
          Applied(e, Desired(s)) \subseteq [eng : Engines, ok : BOOLEAN, kept : BOOLEAN]
    BY AppliedResult, DesiredType
  <1>2. Plus(lost, Plus(Tail, Read)) \in [Keys -> Int]
    BY <1>0, TailType, PlusType
  <1>3. \A l \in Places : GoOn(l) =>
          /\ pc' \in Places /\ job' \in Jobs /\ next' \in States
          /\ vals' \in [Keys -> Nat] /\ prior' \in Configs
    BY GoOnType
  <1> USE DEF TypeOK, env, run, locals, Places
  <1>4. CASE SampleApply
    <2>1. PICK r \in Applied(eng, Desired(next)) :
            IF r.ok THEN EngineIs(r) /\ pc' = "sampleSave" /\ UNCHANGED locals
            ELSE /\ eng' = r.eng /\ cnt' = Zero /\ lost' = Plus(lost, Plus(Tail, Read))
                 /\ AfterSample(job, FALSE)
      BY <1>4 DEF SampleApply
    <2>2. r \in [eng : Engines, ok : BOOLEAN, kept : BOOLEAN]
      BY <1>0, <1>1, <2>1
    <2>3. CASE r.ok
      <3>1. eng' \in Engines /\ cnt' \in [Keys -> Nat] /\ lost' \in [Keys -> Int]
        BY <2>1, <2>2, <2>3, EngineIsType
      <3> QED BY <1>4, <2>1, <2>3, <3>1 DEF SampleApply
    <2>4. CASE ~r.ok
      <3>1. PICK l \in Places : GoOn(l)
        BY <2>1, <2>4, AfterSampleType
      <3> QED BY <1>2, <1>3, <1>4, <2>1, <2>2, <2>4, <3>1, ZeroType DEF SampleApply
    <2> QED BY <2>3, <2>4
  <1>5. CASE SampleSaved
    <2>1. PICK l \in Places : GoOn(l)
      BY <1>5, AfterSampleType DEF SampleSaved
    <2>2. [eng EXCEPT !.fresh = FALSE] \in Engines
      BY <1>0 DEF Engines
    <2>3. Plus(lost, Dropped(vals, base)) \in [Keys -> Int]
      BY <1>0, DroppedType, PlusType
    <2> QED BY <1>0, <1>3, <1>5, <2>1, <2>2, <2>3, ZeroType DEF SampleSaved
  <1>6. CASE SampleUnsaved
    <2>1. PICK l \in Places : GoOn(l)
      BY <1>6, AfterSampleType DEF SampleUnsaved
    <2> QED BY <1>0, <1>2, <1>3, <1>6, <2>1, StoppedType, ZeroType DEF SampleUnsaved, SaveDoubt
  <1>7. CASE Edit
    <2>1. CASE GoOn("free")
      BY <1>3, <1>7, <2>1 DEF Edit
    <2>2. CASE \E n \in Commands(state) \ {state} :
                 pc' = "txnApply" /\ next' = n /\ prior' = Desired(state) /\ UNCHANGED <<job, vals>>
      <3>1. next' \in States /\ prior' \in Configs
        BY <1>0, <2>2, CommandResult, DesiredType
      <3> QED BY <1>7, <2>2, <3>1 DEF Edit
    <2> QED BY <1>7, <2>1, <2>2 DEF Edit
  <1>8. CASE TxnApply
    <2>1. PICK r \in Applied(eng, Desired(next)) :
            /\ EngineIsSeen(r)
            /\ IF r.ok THEN pc' = "txnSave" /\ UNCHANGED locals ELSE GoOn("free")
      BY <1>8 DEF TxnApply
    <2>2. r \in [eng : Engines, ok : BOOLEAN, kept : BOOLEAN]
      BY <1>0, <1>1, <2>1
    <2> QED BY <1>3, <1>8, <2>1, <2>2, EngineIsSeenType DEF TxnApply
  <1>9. CASE TxnSaved
    BY <1>0, <1>3, <1>9 DEF TxnSaved
  <1>10. CASE TxnInDoubt
    BY <1>0, <1>3, <1>10, EngineStopsType DEF TxnInDoubt, SaveDoubt
  <1>11. CASE TxnUnsaved
    BY <1>11 DEF TxnUnsaved
  <1>12. CASE TxnUndo
    <2>1. PICK r \in Applied(eng, prior) :
            IF r.ok THEN EngineIsSeen(r)
            ELSE EngineIs([r EXCEPT !.eng = Stopped(r.eng)]) /\ UNCHANGED base
      BY <1>12 DEF TxnUndo
    <2>2. r \in [eng : Engines, ok : BOOLEAN, kept : BOOLEAN]
      BY <1>0, <2>1, AppliedResult
    <2>3. [r EXCEPT !.eng = Stopped(r.eng)] \in [eng : Engines, ok : BOOLEAN, kept : BOOLEAN]
      BY <2>2, StoppedType
    <2>4. /\ eng' \in Engines /\ cnt' \in [Keys -> Nat] /\ lost' \in [Keys -> Int]
          /\ base' \in [Keys -> Nat]
      BY <1>0, <2>1, <2>2, <2>3, EngineIsType, EngineIsSeenType
    <2> QED BY <1>3, <1>12, <2>4 DEF TxnUndo
  <1>13. CASE RestartCore
    <2>1. PICK r \in Applied(Stopped(eng), Desired(state)) : EngineIsSeen(r)
      BY <1>13 DEF RestartCore
    <2>2. r \in [eng : Engines, ok : BOOLEAN, kept : BOOLEAN]
      BY <1>0, <1>1, <2>1, StoppedType
    <2> QED BY <1>3, <1>13, <2>1, <2>2, EngineIsSeenType DEF RestartCore
  <1>14. CASE StopCore
    <2>1. [state EXCEPT !.running = FALSE] \in States
      BY <1>0 DEF States
    <2> QED BY <1>14, <2>1, EngineStopsType DEF StopCore
  <1>15. CASE StopSave
    BY <1>15 DEF StopSave, SaveDoubt
  <1>16. CASE BootSave
    <2>1. CASE Down
      BY <1>0, <1>16, <2>1, DownType DEF BootSave, SaveDoubt, Down
    <2> QED BY <1>16, <2>1 DEF BootSave
  <1>17. CASE BootApply
    <2>1. PICK r \in Applied(eng, Desired(state)) :
            \/ /\ r.ok /\ EngineIsSeen(r) /\ pc' = "free"
               /\ UNCHANGED <<state, halted, disk, locals, run, env>>
            \/ ~r.ok /\ Down /\ UNCHANGED disk
      BY <1>17 DEF BootApply
    <2>2. r \in [eng : Engines, ok : BOOLEAN, kept : BOOLEAN]
      BY <1>0, <1>1, <2>1
    <2>3. CASE Down /\ UNCHANGED disk
      BY <2>3, DownType
    <2>4. CASE EngineIsSeen(r) /\ pc' = "free" /\ UNCHANGED <<state, halted, disk, locals, run, env>>
      BY <2>2, <2>4, EngineIsSeenType
    <2> QED BY <2>1, <2>3, <2>4
  <1>18. CASE Exit \/ Killed
    <2>1. Down /\ UNCHANGED disk
      BY <1>18 DEF Exit, Killed
    <2> QED BY <2>1, DownType
  <1>19. CASE BeginEdit \/ BeginRestart \/ BeginStop
    <2>1. CASE \E j \in {"edit", "restart", "stop"} : Sample(j)
      BY <2>1, SampleType DEF Jobs
    <2>2. CASE \E l \in {"edit", "restart", "stopping"} :
                 GoOn(l) /\ UNCHANGED <<state, base, halted, eng, cnt, disk, run, env, lost>>
      BY <1>3, <2>2
    <2> QED BY <1>19, <2>1, <2>2 DEF BeginEdit, BeginRestart, BeginStop
  <1>20. CASE Tick
    BY <1>20, SampleType DEF Tick, Jobs
  <1>21. CASE FindDead \/ StopWaiting
    BY <1>21 DEF FindDead, StopWaiting
  <1>22. CASE Recover
    <2>1. PICK r \in Applied(eng, Desired(state)) :
            IF r.ok THEN EngineIsSeen(r) ELSE EngineIs(r) /\ UNCHANGED base
      BY <1>22 DEF Recover
    <2>2. r \in [eng : Engines, ok : BOOLEAN, kept : BOOLEAN]
      BY <1>0, <1>1, <2>1
    <2>3. /\ eng' \in Engines /\ cnt' \in [Keys -> Nat] /\ lost' \in [Keys -> Int]
          /\ base' \in [Keys -> Nat]
      BY <1>0, <2>1, <2>2, EngineIsType, EngineIsSeenType
    <2> QED BY <1>22, <2>3 DEF Recover
  <1>23. CASE Boot
    <2>1. [disk EXCEPT !.running = TRUE] \in States
      BY <1>0 DEF States
    <2>2. \A k \in Keys : served[k] - Account(disk)[k] \in Int
      BY <1>0 DEF Account, Plus, States
    <2> QED BY <1>23, <2>1, <2>2 DEF Boot
  <1>24. CASE Terminate
    BY <1>24 DEF Terminate
  <1>25. CASE CoreDies
    BY <1>25, EngineStopsType DEF CoreDies
  <1>26. CASE PassTime
    BY <1>26, AgentAssumption DEF PassTime
  <1>27. CASE \E u \in Accounts : Use(u)
    <2>1. PICK u \in Accounts : Use(u)
      BY <1>27
    <2> DEFINE more(f) == [k \in Keys |-> IF k \in {u, Inbound} THEN f[k] + 1 ELSE f[k]]
    <2>2. cnt' = more(cnt) /\ served' = more(served)
      BY <2>1 DEF Use
    <2>3. more(cnt) \in [Keys -> Nat] /\ more(served) \in [Keys -> Nat]
      OBVIOUS
    <2> HIDE DEF more
    <2> QED BY <2>1, <2>2, <2>3 DEF Use
  <1> HIDE DEF TypeOK, env, run, locals, Places
  <1> QED BY <1>4, <1>5, <1>6, <1>7, <1>8, <1>9, <1>10, <1>11, <1>12, <1>13, <1>14, <1>15,
             <1>16, <1>17, <1>18, <1>19, <1>20, <1>21, <1>22, <1>23, <1>24, <1>25, <1>26, <1>27
          DEF Next, Holder

\* Type correctness of every variable of the agent (node.go's Node, its disk
\* and its core), whatever fails.
THEOREM TypeCorrect == Spec => []TypeOK
  <1>1. Init => TypeOK
    <2>1. [up |-> FALSE, cfg |-> Blank, memo |-> Blank, fresh |-> FALSE] \in Engines
      BY BlankType DEF Engines
    <2>2. Zero \in [Keys -> Int] /\ 0 \in 0..MaxTime
      BY AgentAssumption DEF Zero
    <2> QED BY <2>1, <2>2, FreshType, ZeroType, BlankType DEF Init, TypeOK, Places, Jobs
  <1>2. TypeOK /\ [Next]_vars => TypeOK'
    <2>1. CASE Next
      BY <2>1, NextType
    <2>2. CASE UNCHANGED vars
      BY <2>2 DEF vars, TypeOK
    <2> QED BY <2>1, <2>2
  <1> QED BY <1>1, <1>2, PTL DEF Spec

-----------------------------------------------------------------------------
(* The running marker.                                                     *)

\* A sample ends at the operation it was part of, or releases the mutex.
LEMMA AfterSamplePlace ==
  ASSUME NEW j \in Jobs, NEW ok \in BOOLEAN, AfterSample(j, ok)
  PROVE  /\ pc' \in {"free", "edit", "restart", "stopping"}
         /\ next' = Fresh
  BY DEF AfterSample, GoOn, Jobs

\* Starting a sample keeps Marks.
LEMMA SampleMarks ==
  ASSUME TypeOK, Marks, pc = "free", eng.up, loop # "returned", NEW j \in Jobs, Sample(j)
  PROVE  Marks'
  <1>0. disk' = disk /\ state' = state /\ loop' = loop /\ halted' = halted
    BY DEF Sample, SampleBegin, SampleUnread
  <1>1. Serving /\ disk.running /\ state.running
    BY DEF Marks, Serving, Booted
  <1>2. CASE AfterSample(j, TRUE) \/ AfterSample(j, FALSE)
    <2>1. pc' \in {"free", "edit", "restart", "stopping"}
      BY <1>2, AfterSamplePlace
    <2> QED BY <1>0, <1>1, <2>1 DEF Marks, Serving, Booted
  <1>3. CASE pc' = "sampleApply" /\ next' = Credited(state, Delta(cnt, CurrentBase))
    <2>1. state \in States /\ cnt \in [Keys -> Nat] /\ CurrentBase \in [Keys -> Nat] /\ now \in Int
      BY ZeroType, AgentAssumption DEF TypeOK, CurrentBase
    <2>2. next'.running
      BY <1>1, <1>3, <2>1, DeltaType, CreditedResult
    <2> QED BY <1>0, <1>1, <1>3, <2>2 DEF Marks, Serving, Booted
  <1> QED BY <1>2, <1>3 DEF Sample, SampleBegin, SampleUnread

\* Every step of the agent keeps Marks.
LEMMA NextMarks ==
  ASSUME TypeOK, Marks, Next
  PROVE  Marks'
  <1> USE DEF Marks, Serving, Booted, env, run, locals
  <1>1. \A e \in Engines : ~Stopped(e).up
    BY StoppedType
  <1>2. eng \in Engines /\ job \in Jobs /\ state \in States
    BY DEF TypeOK
  <1>3. CASE SampleApply
    <2>1. (pc' = "sampleSave" /\ next' = next) \/ pc' \in {"free", "edit", "restart", "stopping"}
      BY <1>2, <1>3, AfterSamplePlace DEF SampleApply
    <2> QED BY <1>3, <2>1 DEF SampleApply
  <1>4. CASE SampleSaved
    <2>1. pc' \in {"free", "edit", "restart", "stopping"}
      BY <1>2, <1>4, AfterSamplePlace DEF SampleSaved
    <2>2. disk' = next /\ state' = next /\ next.running /\ loop' = loop /\ loop # "returned"
      BY <1>4 DEF SampleSaved
    <2> QED BY <1>4, <2>1, <2>2
  <1>5. CASE SampleUnsaved
    <2>1. pc' \in {"free", "edit", "restart", "stopping"}
      BY <1>2, <1>5, AfterSamplePlace DEF SampleUnsaved
    <2> QED BY <1>1, <1>2, <1>5, <2>1 DEF SampleUnsaved, SaveDoubt
  <1>6. CASE Edit
    <2>1. \A n \in Commands(state) : n.running = state.running
      BY <1>2, CommandResult
    <2> QED BY <1>6, <2>1 DEF Edit, GoOn
  <1>7. CASE TxnApply
    BY <1>7 DEF TxnApply, GoOn
  <1>8. CASE TxnSaved
    BY <1>8 DEF TxnSaved, GoOn
  <1>9. CASE TxnInDoubt
    <2>1. ~eng'.up
      BY <1>9, EngineStopsType DEF TxnInDoubt
    <2> QED BY <1>9, <2>1 DEF TxnInDoubt, SaveDoubt, GoOn
  <1>10. CASE TxnUnsaved
    BY <1>10 DEF TxnUnsaved
  <1>11. CASE TxnUndo
    BY <1>11 DEF TxnUndo, GoOn
  <1>12. CASE RestartCore
    BY <1>12 DEF RestartCore, GoOn
  <1>13. CASE StopCore
    <2>1. ~eng'.up
      BY <1>13, EngineStopsType DEF StopCore
    <2> QED BY <1>13, <2>1 DEF StopCore
  <1>14. CASE StopSave
    BY <1>14 DEF StopSave, SaveDoubt
  <1>15. CASE Down
    <2>1. pc' = "down" /\ ~eng'.up /\ state' = Fresh /\ loop' = "select"
      BY <1>15, DownType
    <2> QED BY <2>1
  <1>16. CASE BootSave
    BY <1>15, <1>16 DEF BootSave
  <1>17. CASE BootApply
    <2>1. CASE pc' = "free" /\ UNCHANGED <<state, halted, disk, locals, run, env>>
      BY <1>17, <2>1 DEF BootApply
    <2> QED BY <1>15, <1>17, <2>1 DEF BootApply
  <1>18. CASE Exit \/ Killed
    BY <1>15, <1>18 DEF Exit, Killed
  <1>19. CASE BeginEdit \/ BeginRestart \/ BeginStop
    <2>1. CASE eng.up
      <3>1. \E j \in {"edit", "restart", "stop"} : Sample(j)
        BY <1>19, <2>1 DEF BeginEdit, BeginRestart, BeginStop
      <3>2. pc = "free" /\ loop # "returned"
        BY <1>19 DEF BeginEdit, BeginRestart, BeginStop
      <3> HIDE DEF Marks
      <3> QED BY <2>1, <3>1, <3>2, SampleMarks DEF Jobs
    <2>2. CASE ~eng.up
      <3>1. \E l \in {"edit", "restart", "stopping"} :
              GoOn(l) /\ UNCHANGED <<state, base, halted, eng, cnt, disk, run, env, lost>>
        BY <1>19, <2>2 DEF BeginEdit, BeginRestart, BeginStop
      <3>2. pc = "free" /\ loop # "returned"
        BY <1>19 DEF BeginEdit, BeginRestart, BeginStop
      <3> QED BY <2>2, <3>1, <3>2 DEF GoOn
    <2> QED BY <2>1, <2>2
  <1>20. CASE Tick
    <2> HIDE DEF Marks
    <2> QED BY <1>20, SampleMarks DEF Tick, Jobs
  <1>21. CASE FindDead \/ StopWaiting
    BY <1>21 DEF FindDead, StopWaiting
  <1>22. CASE Recover
    BY <1>22 DEF Recover
  <1>23. CASE Boot
    <2>1. disk \in States /\ ~eng.up
      BY <1>23 DEF TypeOK, Boot
    <2>2. [disk EXCEPT !.running = TRUE].running
      BY <2>1 DEF States
    <2> QED BY <1>23, <2>1, <2>2 DEF Boot
  <1>24. CASE Terminate
    BY <1>24 DEF Terminate
  <1>25. CASE CoreDies
    <2>1. ~eng'.up
      BY <1>25, EngineStopsType DEF CoreDies
    <2> QED BY <1>25, <2>1 DEF CoreDies
  <1>26. CASE PassTime
    BY <1>26 DEF PassTime
  <1>27. CASE \E u \in Accounts : Use(u)
    BY <1>27 DEF Use
  <1> HIDE DEF Marks, Serving, Booted, env, run, locals
  <1> QED BY <1>3, <1>4, <1>5, <1>6, <1>7, <1>8, <1>9, <1>10, <1>11, <1>12, <1>13, <1>14,
             <1>16, <1>17, <1>18, <1>19, <1>20, <1>21, <1>22, <1>23, <1>24, <1>25, <1>26, <1>27
          DEF Next, Holder

\* The unclean marker and the disk at every place of the code: a state that is
\* about to be installed carries Running, the disk carries it from BootSave to
\* StopCore, and the core is down before New has saved the marker and after Run
\* has cleared it (node.go:38-46, 271-279).
THEOREM MarksHold == Spec => []Marks
  <1>1. Init => Marks
    BY DEF Init, Marks, Serving, Booted
  <1>2. TypeOK /\ Marks /\ [Next]_vars => Marks'
    <2>1. CASE UNCHANGED vars
      BY <2>1 DEF vars, Marks, Serving, Booted
    <2> QED BY <2>1, NextMarks
  <1> QED BY <1>1, <1>2, TypeCorrect, PTL DEF Spec

\* A core that may be serving is never paired with a state file that calls the
\* last stop clean: Run writes Running before the first Apply and clears it only
\* after the core has been stopped.
THEOREM UncleanMarked == Spec => []UncleanIsMarked
  <1>1. Marks => UncleanIsMarked
    BY DEF Marks, UncleanIsMarked
  <1> QED BY <1>1, MarksHold, PTL

\* Between operations a node that has not halted remembers what its disk does:
\* transaction and sampleLocked install and save a state together or not at all.
THEOREM DiskAgrees == Spec => []DiskMatchesMemory
  <1>1. Marks => DiskMatchesMemory
    BY DEF Marks, DiskMatchesMemory, Serving, Booted
  <1> QED BY <1>1, MarksHold, PTL

-----------------------------------------------------------------------------
(* Samples.                                                                *)

\* While a sample waits to be saved, the core admits only accounts that the
\* state about to be installed has switched on.
CutOff ==
  pc = "sampleSave" => \A u \in eng.cfg.users : u \in next.clients /\ next.on[u]

\* desired() lists only accounts that are configured and switched on.
LEMMA DesiredIsOn ==
  ASSUME NEW s \in States, NEW u \in Desired(s).users
  PROVE  u \in s.clients /\ s.on[u]
  BY DEF Desired, Blank

\* An Apply that succeeds leaves the core with what was asked for, or dead.
LEMMA AppliedServes ==
  ASSUME NEW e \in Engines, NEW c \in Configs, NEW r \in Applied(e, c), r.ok
  PROVE  r.eng.cfg \in {c, Blank}
  <1>1. \A x \in ApplyResults(e, c) : x.ok => x.eng.cfg = c
    <2>1. \A x \in RestartResults(e, c) : x.ok => x.eng.cfg = c
      BY DEF RestartResults, Result, Started
    <2>2. \A x \in HotFailures(e, c) : ~x.ok
      BY DEF HotFailures, Result
    <2>3. Result([e EXCEPT !.cfg = c, !.memo = c], TRUE, TRUE).eng.cfg = c
      BY DEF Result, Engines
    <2> QED BY <2>1, <2>2, <2>3 DEF ApplyResults
  <1>2. PICK x \in ApplyResults(e, c) : r \in MayBeDead(x)
    BY DEF Applied
  <1>3. CASE r = x
    BY <1>1, <1>3
  <1>4. CASE r = [x EXCEPT !.eng = Stopped(x.eng)]
    <2>1. x \in Applied(e, c)
      BY <1>2 DEF Applied, MayBeDead
    <2>2. x \in [eng : Engines, ok : BOOLEAN, kept : BOOLEAN]
      BY <2>1, AppliedResult
    <2>3. r.eng = Stopped(x.eng) /\ x.eng \in Engines
      BY <1>4, <2>2
    <2> QED BY <2>3 DEF Stopped, Engines
  <1> QED BY <1>2, <1>3, <1>4 DEF MayBeDead

\* Every step keeps CutOff.
LEMMA NextCutOff ==
  ASSUME TypeOK, CutOff, [Next]_vars
  PROVE  CutOff'
  <1> SUFFICES ASSUME pc' = "sampleSave" PROVE CutOff'
    BY DEF CutOff
  <1>1. CASE SampleApply
    <2>1. PICK r \in Applied(eng, Desired(next)) :
            r.ok /\ EngineIs(r) /\ pc' = "sampleSave" /\ UNCHANGED locals
      <3>1. job \in Jobs
        BY DEF TypeOK
      <3> QED BY <1>1, <3>1, AfterSamplePlace DEF SampleApply
    <2>2. eng' = r.eng /\ next' = next
      BY <2>1 DEF EngineIs, locals
    <2>3. eng \in Engines /\ next \in States
      BY DEF TypeOK
    <2>4. eng'.cfg \in {Desired(next), Blank}
      BY <2>1, <2>2, <2>3, AppliedServes, DesiredType
    <2> QED BY <2>2, <2>3, <2>4, DesiredIsOn DEF CutOff, Blank
  <1>2. CASE CoreDies
    <2>1. eng' = Stopped(eng) /\ next' = next /\ eng \in Engines
      BY <1>2 DEF CoreDies, EngineStops, EngineIs, Result, locals, TypeOK
    <2> QED BY <2>1 DEF CutOff, Stopped, Engines, Blank
  <1>3. CASE StopWaiting \/ Terminate \/ PassTime \/ (\E u \in Accounts : Use(u)) \/ UNCHANGED vars
    BY <1>3 DEF CutOff, StopWaiting, Terminate, PassTime, Use, vars, locals
  <1>4. CASE SampleSaved \/ SampleUnsaved
    <2>1. job \in Jobs
      BY DEF TypeOK
    <2> QED BY <1>4, <2>1, AfterSamplePlace DEF SampleSaved, SampleUnsaved
  <1>5. CASE Edit \/ TxnApply \/ TxnSaved \/ TxnInDoubt \/ TxnUnsaved \/ TxnUndo \/ RestartCore
    BY <1>5 DEF Edit, TxnApply, TxnSaved, TxnInDoubt, TxnUnsaved, TxnUndo, RestartCore, GoOn
  <1>6. CASE StopCore \/ StopSave \/ BootSave \/ BootApply \/ Boot \/ Exit \/ Killed
    BY <1>6 DEF StopCore, StopSave, BootSave, BootApply, Boot, Exit, Killed, Down, GoOn
  <1>7. CASE BeginEdit \/ BeginRestart \/ BeginStop \/ Tick
    <2>1. \/ \E j \in Jobs : Sample(j)
          \/ GoOn("edit") \/ GoOn("restart") \/ GoOn("stopping")
      BY <1>7 DEF BeginEdit, BeginRestart, BeginStop, Tick, Jobs
    <2>2. ASSUME NEW j \in Jobs, Sample(j) PROVE FALSE
      BY <2>2, AfterSamplePlace DEF Sample, SampleBegin, SampleUnread
    <2> QED BY <2>1, <2>2 DEF GoOn
  <1>8. CASE FindDead \/ Recover
    BY <1>8 DEF FindDead, Recover, locals
  <1> QED BY <1>1, <1>2, <1>3, <1>4, <1>5, <1>6, <1>7, <1>8 DEF Next, Holder

\* Saving a sample leaves the core as it is, unless it stops it.
LEMMA SavingKeepsCore ==
  ASSUME TypeOK, Next, pc = "sampleSave", ~halted', eng'.up, pc' # "down"
  PROVE  eng'.cfg = eng.cfg
  <1>1. CASE SampleSaved
    BY <1>1 DEF SampleSaved, TypeOK, Engines
  <1>2. CASE SampleUnsaved
    BY <1>2 DEF SampleUnsaved
  <1>3. CASE StopWaiting \/ Terminate \/ PassTime \/ \E u \in Accounts : Use(u)
    BY <1>3 DEF StopWaiting, Terminate, PassTime, Use
  <1>4. CASE CoreDies
    BY <1>4, EngineStopsType DEF CoreDies
  <1>5. CASE Killed
    BY <1>5 DEF Killed, Down, GoOn
  <1>6. ~(SampleApply \/ Edit \/ TxnApply \/ TxnSaved \/ TxnInDoubt \/ TxnUnsaved \/ TxnUndo
            \/ RestartCore \/ StopCore \/ StopSave \/ BootSave \/ BootApply)
    BY DEF SampleApply, Edit, TxnApply, TxnSaved, TxnInDoubt, TxnUnsaved, TxnUndo, RestartCore,
           StopCore, StopSave, BootSave, BootApply
  <1>7. ~(BeginEdit \/ BeginRestart \/ Tick \/ FindDead \/ Recover \/ BeginStop \/ Boot \/ Exit)
    BY DEF BeginEdit, BeginRestart, Tick, FindDead, Recover, BeginStop, Boot, Exit
  <1> QED BY <1>1, <1>2, <1>3, <1>4, <1>5, <1>6, <1>7 DEF Next, Holder

\* For any accounts, quotas and expiries: when a sample is saved, nobody whom
\* it switched off is still admitted by the core, although the core may have
\* been replaced, died or been used between the reading, the Apply and the save
\* (sampleLocked derives the configuration from the credited state).
THEOREM SampleLeavesNobody == Spec => SampleCutsOff
  <1>1. Init => CutOff
    BY DEF Init, CutOff
  <1>2. TypeOK /\ CutOff /\ [Next]_vars =>
          [(pc = "sampleSave" /\ state' = next /\ ~halted' /\ eng'.up /\ pc' # "down")
             => \A u \in eng'.cfg.users : u \in state'.clients /\ state'.on[u]]_vars
    BY SavingKeepsCore DEF CutOff
  <1> QED BY <1>1, <1>2, NextCutOff, TypeCorrect, PTL DEF Spec, SampleCutsOff
-----------------------------------------------------------------------------
(* The accounting of traffic.                                              *)

\* What one key amounts to in a state.
LEMMA AccountAt ==
  ASSUME NEW s \in States, NEW k \in Keys
  PROVE  Account(s)[k] = s.used[k] + s.paid[k] /\ Account(s)[k] \in Nat
  BY DEF Account, Plus, States

\* What the counters hold, key by key.
LEMMA Parts ==
  ASSUME TypeOK, Books, NEW k \in Keys
  PROVE  /\ Tail[k] = (IF ~eng.up THEN 0 ELSE IF eng.fresh THEN cnt[k] ELSE cnt[k] - Counted[k])
         /\ Read[k] = (IF Sampling THEN vals[k] - base[k] ELSE 0)
         /\ Tail[k] \in Nat /\ Read[k] \in Nat /\ lost[k] \in Nat
         /\ Plus(Tail, Read)[k] = Tail[k] + Read[k]
         /\ Plus(lost, Tail)[k] = lost[k] + Tail[k]
         /\ Plus(lost, Plus(Tail, Read))[k] = lost[k] + Tail[k] + Read[k]
  <1>1. /\ cnt[k] \in Nat /\ vals[k] \in Nat /\ base[k] \in Nat /\ lost[k] \in Int /\ lost[k] >= 0
    BY DEF TypeOK, Books
  <1>2. Tail[k] = (IF ~eng.up THEN 0 ELSE IF eng.fresh THEN cnt[k] ELSE cnt[k] - Counted[k])
    BY DEF Tail, Counted
  <1>3. Read[k] = (IF Sampling THEN vals[k] - base[k] ELSE 0)
    BY DEF Read
  <1>4. Counted[k] \in Nat
    BY <1>1 DEF Counted
  <1>5. Tail[k] \in Nat
    BY <1>1, <1>2, <1>4 DEF Books
  <1>6. Read[k] \in Nat
    BY <1>1, <1>3 DEF Books
  <1>7. Plus(lost, Tail)[k] = lost[k] + Tail[k] /\ Plus(Tail, Read)[k] = Tail[k] + Read[k]
    BY DEF Plus
  <1>8. Plus(lost, Plus(Tail, Read))[k] = lost[k] + (Tail[k] + Read[k])
    BY <1>7 DEF Plus
  <1> QED BY <1>1, <1>2, <1>3, <1>5, <1>6, <1>7, <1>8

\* What a copy of the state claims has been used.
LEMMA Covered ==
  ASSUME TypeOK, Books, pc # "down", NEW k \in Keys
  PROVE  Account(state)[k] <= served[k] /\ Account(next)[k] <= served[k]
  <1>1. Account(state)[k] + Read[k] + Tail[k] + lost[k] = served[k]
    BY DEF Books
  <1>2. /\ Account(state)[k] \in Nat /\ Account(next)[k] \in Nat /\ served[k] \in Nat
        /\ base[k] \in Nat /\ vals[k] \in Nat
    BY AccountAt DEF TypeOK
  <1>3. CASE Sampling
    <2>1. Account(next)[k] =
            Account(state)[k] + (IF k \in Known(state) THEN vals[k] - base[k] ELSE 0)
      BY <1>3 DEF Books
    <2>2. Read[k] = vals[k] - base[k]
      BY <1>3 DEF Read
    <2> QED BY <1>1, <1>2, <2>1, <2>2, Parts
  <1>4. CASE pc \in {"txnApply", "txnSave", "txnUndo"}
    BY <1>1, <1>2, <1>4, Parts DEF Books
  <1>5. CASE ~Sampling /\ pc \notin {"txnApply", "txnSave", "txnUndo"}
    <2>1. next = Fresh
      BY <1>5 DEF Books, Sampling
    <2>2. Account(Fresh)[k] = 0
      BY DEF Account, Plus, Fresh, Zero
    <2> QED BY <1>1, <1>2, <2>1, <2>2, Parts
  <1> QED BY <1>3, <1>4, <1>5

\* The engine changes: what it had counted is still in its counters beyond the
\* baseline, or lost with them.
Settled(k) ==
  /\ Tail'[k] + lost'[k] = Tail[k] + lost[k]
  /\ Tail'[k] \in Nat /\ lost'[k] \in Nat
  /\ eng'.up /\ ~eng'.fresh => Counted'[k] <= cnt'[k]

\* What Apply does to the books when the generation is not looked at: traffic
\* moves from the tail to lost, and nothing else moves.
LEMMA EngineIsBooks ==
  ASSUME TypeOK, Books, NEW r \in [eng : Engines, ok : BOOLEAN, kept : BOOLEAN],
         r.kept /\ r.eng.up => eng.up, r.kept => r.eng.fresh = eng.fresh,
         ~r.kept /\ r.eng.up => r.eng.fresh,
         EngineIs(r), Counted' = Counted, NEW k \in Keys
  PROVE  Settled(k)
  <1>1. Tail'[k] = (IF ~eng'.up THEN 0 ELSE IF eng'.fresh THEN cnt'[k] ELSE cnt'[k] - Counted'[k])
    BY DEF Tail, Counted
  <1>2. Zero[k] = 0
    BY DEF Zero
  <1>3. cnt[k] \in Nat /\ Counted[k] \in Nat
    BY DEF TypeOK, Counted
  <1>4. eng' = r.eng /\ r.eng.up \in BOOLEAN /\ r.eng.fresh \in BOOLEAN
    BY DEF EngineIs, Engines
  <1>5. CASE r.kept /\ r.eng.up
    <2>1. cnt' = cnt /\ lost' = lost
      BY <1>5 DEF EngineIs
    <2>2. eng.up /\ eng'.up /\ eng'.fresh = eng.fresh
      BY <1>4, <1>5
    <2>3. eng.fresh \/ Counted[k] <= cnt[k]
      BY <2>2 DEF Books
    <2> QED BY <1>1, <1>3, <2>1, <2>2, <2>3, Parts DEF Settled
  <1>6. CASE ~(r.kept /\ r.eng.up)
    <2>1. cnt' = Zero /\ lost' = Plus(lost, Tail)
      BY <1>6 DEF EngineIs
    <2>2. ~eng'.up \/ eng'.fresh
      BY <1>4, <1>6
    <2> QED BY <1>1, <1>2, <1>3, <2>1, <2>2, Parts DEF Settled
  <1> QED BY <1>5, <1>6

\* The same when resetGeneration() follows.
LEMMA EngineIsSeenBooks ==
  ASSUME TypeOK, Books, NEW r \in [eng : Engines, ok : BOOLEAN, kept : BOOLEAN],
         r.kept /\ r.eng.up => eng.up, r.kept => r.eng.fresh = eng.fresh,
         ~r.kept /\ r.eng.up => r.eng.fresh,
         EngineIsSeen(r), ~Sampling, ~Sampling', NEW k \in Keys
  PROVE  Settled(k)
  <1>1. Tail'[k] = (IF ~eng'.up THEN 0 ELSE cnt'[k] - base'[k])
    <2>1. ~eng'.fresh
      BY DEF EngineIsSeen, EngineIs, Engines
    <2> QED BY <2>1 DEF Tail
  <1>2. Zero[k] = 0
    BY DEF Zero
  <1>3. cnt[k] \in Nat /\ base[k] \in Nat /\ Counted[k] = base[k] /\ Counted'[k] = base'[k]
    BY DEF TypeOK, Counted
  <1>4. eng'.up = r.eng.up /\ r.eng.up \in BOOLEAN /\ r.eng.fresh \in BOOLEAN
        /\ eng.fresh \in BOOLEAN
    BY DEF EngineIsSeen, EngineIs, Engines, TypeOK
  <1>7. base'[k] = IF r.eng.fresh THEN 0 ELSE base[k]
    BY <1>2 DEF EngineIsSeen
  <1>5. CASE r.kept /\ r.eng.up
    <2>1. cnt' = cnt /\ lost' = lost
      BY <1>5 DEF EngineIsSeen, EngineIs, Engines
    <2>2. eng.up /\ eng'.up /\ r.eng.fresh = eng.fresh
      BY <1>4, <1>5
    <2>3. eng.fresh \/ Counted[k] <= cnt[k]
      BY <2>2 DEF Books
    <2> QED BY <1>1, <1>3, <1>7, <2>1, <2>2, <2>3, Parts DEF Settled
  <1>6. CASE ~(r.kept /\ r.eng.up)
    <2>1. cnt' = Zero /\ lost' = Plus(lost, Tail)
      BY <1>6 DEF EngineIsSeen, EngineIs, Engines
    <2>2. ~eng'.up \/ r.eng.fresh
      BY <1>4, <1>6
    <2> QED BY <1>1, <1>2, <1>3, <1>7, <2>1, <2>2, Parts DEF Settled
  <1> QED BY <1>5, <1>6

\* engine.Stop() moves the tail to lost.
LEMMA EngineStopsBooks ==
  ASSUME TypeOK, Books, EngineStops, Counted' = Counted, NEW k \in Keys
  PROVE  Settled(k)
  <1> DEFINE r == Result(Stopped(eng), TRUE, FALSE)
  <1>1. r \in [eng : Engines, ok : BOOLEAN, kept : BOOLEAN] /\ ~r.eng.up /\ ~r.kept
    BY StoppedType DEF Result, TypeOK
  <1>2. EngineIs(r)
    BY DEF EngineStops
  <1> HIDE DEF r
  <1> QED BY <1>1, <1>2, EngineIsBooks

\* A step that leaves the accounts alone keeps the books if the engine settles.
LEMMA Quiet ==
  ASSUME TypeOK, Books, pc # "down", pc' # "down", ~Sampling, ~Sampling',
         state' = state, served' = served, \A k \in Keys : Settled(k)
  PROVE  /\ \A k \in Keys : Account(state')[k] + Read'[k] + Tail'[k] + lost'[k] = served'[k]
         /\ \A k \in Keys : lost'[k] >= 0
         /\ eng'.up /\ ~eng'.fresh => \A k \in Keys : Counted'[k] <= cnt'[k]
  <1>1. \A k \in Keys : Read[k] = 0 /\ Read'[k] = 0
    BY DEF Read
  <1>2. \A k \in Keys : Account(state)[k] + Read[k] + Tail[k] + lost[k] = served[k]
    BY DEF Books
  <1>3. \A k \in Keys : Account(state)[k] \in Nat /\ Tail[k] \in Nat /\ lost[k] \in Nat
    BY AccountAt, Parts DEF TypeOK
  <1> SUFFICES ASSUME NEW k \in Keys
               PROVE /\ Account(state')[k] + Read'[k] + Tail'[k] + lost'[k] = served'[k]
                     /\ lost'[k] >= 0
                     /\ eng'.up /\ ~eng'.fresh => Counted'[k] <= cnt'[k]
    OBVIOUS
  <1>4. Settled(k)
    OBVIOUS
  <1>5. Account(state')[k] = Account(state)[k]
    OBVIOUS
  <1> HIDE DEF Settled
  <1>6. Tail'[k] + lost'[k] = Tail[k] + lost[k] /\ Tail'[k] \in Nat /\ lost'[k] \in Nat
        /\ (eng'.up /\ ~eng'.fresh => Counted'[k] <= cnt'[k])
    BY <1>4 DEF Settled
  <1> QED BY <1>1, <1>2, <1>3, <1>5, <1>6

\* Starting a sample keeps Books: what it reads it credits once.
LEMMA SampleBooks ==
  ASSUME TypeOK, TypeOK', Books, pc = "free", eng.up, NEW j \in Jobs, Sample(j)
  PROVE  Books'
  <1> DEFINE b == CurrentBase
             d == Delta(cnt, b)
             n == Credited(state, d)
  <1>0. /\ cnt \in [Keys -> Nat] /\ base \in [Keys -> Nat] /\ lost \in [Keys -> Int]
        /\ state \in States /\ eng \in Engines /\ now \in Int /\ served \in [Keys -> Nat]
    BY AgentAssumption DEF TypeOK
  <1>1. b \in [Keys -> Nat] /\ \A k \in Keys : b[k] = IF eng.fresh THEN 0 ELSE base[k]
    BY <1>0, ZeroType DEF CurrentBase, Zero
  <1>2. \A k \in Keys : b[k] <= cnt[k] /\ Tail[k] = cnt[k] - b[k] /\ Read[k] = 0
    <2> SUFFICES ASSUME NEW k \in Keys
                 PROVE b[k] <= cnt[k] /\ Tail[k] = cnt[k] - b[k] /\ Read[k] = 0
      OBVIOUS
    <2>1. Counted[k] = base[k] /\ ~Sampling
      BY DEF Counted, Sampling
    <2>2. ~eng.fresh => base[k] <= cnt[k]
      BY <2>1 DEF Books
    <2> HIDE DEF b
    <2> QED BY <1>0, <1>1, <2>1, <2>2, Parts
  <1>3. d \in [Keys -> Nat] /\ \A k \in Keys : d[k] = cnt[k] - b[k]
    <2>1. d \in [Keys -> Nat]
      BY <1>0, <1>1, DeltaType
    <2>2. \A k \in Keys : ~(cnt[k] < b[k])
      BY <1>0, <1>1, <1>2
    <2> HIDE DEF b
    <2>3. \A k \in Keys : d[k] = cnt[k] - b[k]
      BY <2>2 DEF Delta
    <2> QED BY <2>1, <2>3
  <1>4. \A k \in Keys : Account(n)[k] = Account(state)[k] + (IF k \in Known(state) THEN d[k] ELSE 0)
    BY <1>0, <1>3, CreditedResult
  <1>5. /\ eng' = [eng EXCEPT !.fresh = FALSE] /\ cnt' = cnt /\ state' = state
        /\ disk' = disk /\ served' = served
    BY DEF Sample, SampleBegin, SampleUnread, env
  <1>6. eng'.up /\ ~eng'.fresh
    BY <1>0, <1>5 DEF Engines
  <1>7. \A k \in Keys : /\ Account(state)[k] \in Nat /\ cnt[k] \in Nat /\ b[k] \in Nat
                        /\ lost[k] \in Nat /\ served[k] \in Nat
    BY <1>0, <1>1, AccountAt, Parts
  <1>8. \A k \in Keys : Account(state)[k] + (cnt[k] - b[k]) + lost[k] = served[k]
    <2> SUFFICES ASSUME NEW k \in Keys
                 PROVE Account(state)[k] + (cnt[k] - b[k]) + lost[k] = served[k]
      OBVIOUS
    <2>1. Account(state)[k] + Read[k] + Tail[k] + lost[k] = served[k]
      BY DEF Books
    <2> QED BY <1>2, <1>7, <2>1
  <1>9. \A k \in Keys : Account(disk)[k] <= served[k]
    BY DEF Books
  <1> HIDE DEF b, d, n
  <1>10. CASE AfterSample(j, FALSE) /\ base' = b /\ lost' = lost
    <2>1. ~Sampling' /\ next' = Fresh /\ pc' \notin {"txnApply", "txnSave", "txnUndo", "down"}
      BY <1>10, AfterSamplePlace DEF Sampling
    <2>2. \A k \in Keys : Tail'[k] = cnt[k] - b[k] /\ Read'[k] = 0 /\ Counted'[k] = b[k]
      BY <1>5, <1>6, <1>10, <2>1 DEF Tail, Read, Counted
    <2>3. \A k \in Keys : Account(state')[k] + Read'[k] + Tail'[k] + lost'[k] = served'[k]
      BY <1>5, <1>7, <1>8, <1>10, <2>2
    <2> QED BY <1>2, <1>5, <1>6, <1>7, <1>9, <1>10, <2>1, <2>2, <2>3 DEF Books, Sampling
  <1>11. CASE n = state /\ AfterSample(j, TRUE) /\ base' = cnt
              /\ lost' = Plus(lost, Dropped(cnt, b))
    <2>1. ~Sampling' /\ next' = Fresh /\ pc' \notin {"txnApply", "txnSave", "txnUndo", "down"}
      BY <1>11, AfterSamplePlace DEF Sampling
    <2>2. \A k \in Keys : Tail'[k] = cnt[k] - cnt[k] /\ Read'[k] = 0 /\ Counted'[k] = cnt[k]
      BY <1>5, <1>6, <1>11, <2>1 DEF Tail, Read, Counted
    <2>3. \A k \in Keys : lost'[k] = lost[k] + (cnt[k] - b[k])
      <3> SUFFICES ASSUME NEW k \in Keys PROVE lost'[k] = lost[k] + (cnt[k] - b[k])
        OBVIOUS
      <3>1. Account(state)[k] = Account(state)[k] + (IF k \in Known(state) THEN d[k] ELSE 0)
        BY <1>4, <1>11
      <3>2. k \in Known(state) => cnt[k] - b[k] = 0
        BY <1>3, <1>7, <3>1
      <3>3. lost'[k] = lost[k] + (IF k \in Known(state) THEN 0 ELSE cnt[k] - b[k])
        BY <1>11 DEF Plus, Dropped
      <3> QED BY <1>7, <3>2, <3>3
    <2>4. \A k \in Keys : /\ Account(state')[k] + Read'[k] + Tail'[k] + lost'[k] = served'[k]
                          /\ lost'[k] >= 0 /\ Counted'[k] <= cnt'[k]
      BY <1>2, <1>5, <1>7, <1>8, <2>2, <2>3
    <2> QED BY <1>5, <1>9, <2>1, <2>4 DEF Books, Sampling
  <1>12. CASE /\ pc' = "sampleApply" /\ next' = n /\ vals' = cnt /\ base' = b /\ lost' = lost
    <2>1. \A k \in Keys : Tail'[k] = cnt[k] - cnt[k] /\ Read'[k] = cnt[k] - b[k]
                          /\ Counted'[k] = cnt[k]
      BY <1>5, <1>6, <1>12 DEF Tail, Read, Counted, Sampling
    <2>2. \A k \in Keys : /\ Account(state')[k] + Read'[k] + Tail'[k] + lost'[k] = served'[k]
                          /\ lost'[k] >= 0 /\ Counted'[k] <= cnt'[k]
      BY <1>2, <1>5, <1>7, <1>8, <1>12, <2>1
    <2>3. \A k \in Keys :
            /\ base'[k] <= vals'[k]
            /\ Account(next')[k] = Account(state')[k]
                 + (IF k \in Known(state') THEN vals'[k] - base'[k] ELSE 0)
      BY <1>2, <1>3, <1>4, <1>5, <1>12
    <2> QED BY <1>5, <1>9, <1>12, <2>2, <2>3 DEF Books
  <1> QED BY <1>5, <1>10, <1>11, <1>12 DEF Sample, SampleBegin, SampleUnread, b, d, n

\* The books after a step that leaves the disk, the clock of use and the
\* holder's copy out of it.
LEMMA QuietBooks ==
  ASSUME TypeOK, Books, pc # "down", pc' # "down", ~Sampling, ~Sampling',
         state' = state, served' = served, disk' = disk, \A k \in Keys : Settled(k),
         \/ next' = Fresh /\ pc' \notin {"txnApply", "txnSave", "txnUndo"}
         \/ /\ next' = next
            /\ pc' \in {"txnApply", "txnSave", "txnUndo"}
                 <=> pc \in {"txnApply", "txnSave", "txnUndo"}
  PROVE  Books'
  <1>1. /\ \A k \in Keys : Account(state')[k] + Read'[k] + Tail'[k] + lost'[k] = served'[k]
        /\ \A k \in Keys : lost'[k] >= 0
        /\ eng'.up /\ ~eng'.fresh => \A k \in Keys : Counted'[k] <= cnt'[k]
    BY Quiet
  <1>2. \A k \in Keys : Account(disk')[k] <= served'[k]
    BY DEF Books
  <1>3. pc' \in {"txnApply", "txnSave", "txnUndo"} => Account(next') = Account(state')
    BY DEF Books
  <1>4. pc' \notin {"txnApply", "txnSave", "txnUndo"} => next' = Fresh
    BY DEF Books, Sampling
  <1> QED BY <1>1, <1>2, <1>3, <1>4 DEF Books, Sampling

\* The end of the agent process keeps Books: only the disk counts then.
LEMMA DownBooks ==
  ASSUME TypeOK, Books, Down, \A k \in Keys : Account(disk')[k] <= served[k]
  PROVE  Books'
  <1>1. pc' = "down" /\ ~eng'.up /\ next' = Fresh /\ lost' = Zero /\ served' = served
    BY DownType DEF Down, GoOn
  <1>2. \A k \in Keys : lost'[k] >= 0
    BY <1>1 DEF Zero
  <1> QED BY <1>1, <1>2 DEF Books, Sampling

\* Every step of the agent keeps Books.
LEMMA NextBooks ==
  ASSUME TypeOK, TypeOK', Marks, Books, Next
  PROVE  Books'
  <1>0. /\ eng \in Engines /\ state \in States /\ next \in States /\ disk \in States
        /\ prior \in Configs /\ served \in [Keys -> Nat] /\ job \in Jobs
        /\ base \in [Keys -> Nat] /\ vals \in [Keys -> Nat] /\ cnt \in [Keys -> Nat]
    BY DEF TypeOK
  <1>1. \A e \in Engines, c \in Configs : \A r \in Applied(e, c) :
          /\ r \in [eng : Engines, ok : BOOLEAN, kept : BOOLEAN]
          /\ r.kept => r.ok
          /\ r.kept /\ r.eng.up => e.up
          /\ r.kept => r.eng.fresh = e.fresh
          /\ ~r.kept /\ r.eng.up => r.eng.fresh
    BY AppliedResult
  <1>2. \A s \in States : Desired(s) \in Configs
    BY DesiredType
  <1>3. \A k \in Keys : Account(disk)[k] <= served[k]
    BY DEF Books
  <1>4. \A k \in Keys : /\ Account(state)[k] \in Nat /\ Account(next)[k] \in Nat
                        /\ Tail[k] \in Nat /\ Read[k] \in Nat /\ lost[k] \in Nat
                        /\ served[k] \in Nat
    BY <1>0, AccountAt, Parts
  <1>5. pc # "down" => \A k \in Keys :
          Account(state)[k] + Read[k] + Tail[k] + lost[k] = served[k]
    BY DEF Books
  \* A sample that comes to nothing after the engine lost its counters.
  <1>6. ASSUME Sampling, AfterSample(job, FALSE), state' = state, served' = served,
               disk' \in {disk, next}, cnt' = Zero, ~eng'.up \/ eng'.fresh,
               lost' = Plus(lost, Plus(Tail, Read))
        PROVE  Books'
    <2>1. ~Sampling' /\ next' = Fresh /\ pc' \notin {"txnApply", "txnSave", "txnUndo", "down"}
      BY <1>0, <1>6, AfterSamplePlace DEF Sampling
    <2>2. \A k \in Keys : Tail'[k] = 0 /\ Read'[k] = 0
      BY <1>6, <2>1 DEF Tail, Read, Zero
    <2>3. \A k \in Keys : lost'[k] = lost[k] + Tail[k] + Read[k]
      BY <1>6, Parts
    <2>4. \A k \in Keys : /\ Account(state')[k] + Read'[k] + Tail'[k] + lost'[k] = served'[k]
                          /\ lost'[k] >= 0
      BY <1>4, <1>5, <1>6, <2>2, <2>3 DEF Sampling
    <2>5. \A k \in Keys : Account(disk')[k] <= served'[k]
      BY <1>3, <1>6, Covered DEF Sampling
    <2> QED BY <1>6, <2>1, <2>4, <2>5 DEF Books, Sampling
  <1>7. CASE SampleApply
    <2>1. PICK r \in Applied(eng, Desired(next)) :
            IF r.ok THEN EngineIs(r) /\ pc' = "sampleSave" /\ UNCHANGED locals
            ELSE /\ eng' = r.eng /\ cnt' = Zero /\ lost' = Plus(lost, Plus(Tail, Read))
                 /\ AfterSample(job, FALSE)
      BY <1>7 DEF SampleApply
    <2>2. /\ pc = "sampleApply" /\ state' = state /\ base' = base /\ disk' = disk
          /\ served' = served
      BY <1>7 DEF SampleApply, env
    <2>3. CASE r.ok
      <3>1. pc' = "sampleSave" /\ next' = next /\ vals' = vals /\ EngineIs(r)
        BY <2>1, <2>3 DEF locals
      <3>2. Counted' = Counted
        BY <2>2, <3>1 DEF Counted, Sampling
      <3>3. \A k \in Keys : Settled(k)
        BY <1>0, <1>1, <1>2, <2>1, <3>1, <3>2, EngineIsBooks
      <3>4. \A k \in Keys : Read'[k] = Read[k]
        BY <2>2, <3>1 DEF Read, Sampling
      <3>5. \A k \in Keys : /\ Account(state')[k] + Read'[k] + Tail'[k] + lost'[k] = served'[k]
                            /\ lost'[k] >= 0
        BY <1>4, <1>5, <2>2, <3>3, <3>4 DEF Settled
      <3>6. eng'.up /\ ~eng'.fresh => \A k \in Keys : Counted'[k] <= cnt'[k]
        BY <3>3 DEF Settled
      <3>7. \A k \in Keys :
              /\ base'[k] <= vals'[k]
              /\ Account(next')[k] = Account(state')[k]
                   + (IF k \in Known(state') THEN vals'[k] - base'[k] ELSE 0)
        BY <2>2, <3>1 DEF Books, Sampling
      <3> QED BY <1>3, <2>2, <3>1, <3>5, <3>6, <3>7 DEF Books
    <2>4. CASE ~r.ok
      <3>1. ~r.kept
        BY <1>0, <1>1, <1>2, <2>1, <2>4
      <3>2. ~eng'.up \/ eng'.fresh
        BY <1>0, <1>1, <1>2, <2>1, <2>4, <3>1
      <3> QED BY <1>6, <2>1, <2>2, <2>4, <3>2 DEF Sampling
    <2> QED BY <2>3, <2>4
  <1>8. CASE SampleSaved
    <2>1. /\ pc = "sampleSave" /\ disk' = next /\ state' = next
          /\ base' = (IF eng.fresh THEN Zero ELSE vals) /\ eng' = [eng EXCEPT !.fresh = FALSE]
          /\ lost' = Plus(lost, Dropped(vals, base)) /\ AfterSample(job, TRUE)
          /\ cnt' = cnt /\ served' = served
      BY <1>8 DEF SampleSaved, env
    <2>2. ~Sampling' /\ next' = Fresh /\ pc' \notin {"txnApply", "txnSave", "txnUndo", "down"}
      BY <1>0, <2>1, AfterSamplePlace DEF Sampling
    <2>3. eng'.up = eng.up /\ ~eng'.fresh
      BY <1>0, <2>1 DEF Engines
    <2>4. \A k \in Keys : Tail'[k] = Tail[k] /\ Read'[k] = 0
                          /\ (eng'.up => Counted'[k] <= cnt'[k])
      <3> SUFFICES ASSUME NEW k \in Keys
                   PROVE Tail'[k] = Tail[k] /\ Read'[k] = 0 /\ (eng'.up => Counted'[k] <= cnt'[k])
        OBVIOUS
      <3>1. Tail'[k] = IF eng.up THEN cnt[k] - base'[k] ELSE 0
        BY <2>1, <2>2, <2>3 DEF Tail
      <3>2. base'[k] = (IF eng.fresh THEN 0 ELSE vals[k]) /\ Counted'[k] = base'[k]
        BY <2>1, <2>2 DEF Zero, Counted
      <3>3. Tail[k] = IF ~eng.up THEN 0 ELSE IF eng.fresh THEN cnt[k] ELSE cnt[k] - vals[k]
        BY <2>1 DEF Tail, Sampling
      <3>4. eng.up /\ ~eng.fresh => vals[k] <= cnt[k]
        BY <2>1 DEF Books, Counted, Sampling
      <3>5. Read'[k] = 0
        BY <2>2 DEF Read
      <3> QED BY <1>0, <2>1, <2>3, <3>1, <3>2, <3>3, <3>4, <3>5
    <2>5. \A k \in Keys : /\ Account(next)[k] = Account(state)[k]
                               + (IF k \in Known(state) THEN vals[k] - base[k] ELSE 0)
                          /\ lost'[k] = lost[k]
                               + (IF k \in Known(state) THEN 0 ELSE vals[k] - base[k])
                          /\ Read[k] = vals[k] - base[k]
      BY <2>1 DEF Books, Sampling, Plus, Dropped, Read
    <2>6. \A k \in Keys : /\ Account(state')[k] + Read'[k] + Tail'[k] + lost'[k] = served'[k]
                          /\ lost'[k] >= 0
      BY <1>4, <1>5, <2>1, <2>4, <2>5
    <2>7. \A k \in Keys : Account(disk')[k] <= served'[k]
      BY <2>1, Covered
    <2> QED BY <2>2, <2>4, <2>6, <2>7 DEF Books, Sampling
  <1>9. CASE SampleUnsaved
    <2>1. /\ Sampling /\ disk' \in {disk, next} /\ state' = state /\ served' = served
          /\ eng' = Stopped(eng) /\ cnt' = Zero /\ lost' = Plus(lost, Plus(Tail, Read))
          /\ AfterSample(job, FALSE)
      BY <1>9 DEF SampleUnsaved, SaveDoubt, env, Sampling
    <2> QED BY <1>0, <1>6, <2>1, StoppedType
  \* Steps that have nothing to do with the engine.
  <1>10. ASSUME UNCHANGED <<eng, cnt, base, vals, lost>>, Sampling' = Sampling, NEW k \in Keys
         PROVE  /\ Tail'[k] = Tail[k] /\ Read'[k] = Read[k]
                /\ Counted'[k] = Counted[k] /\ lost'[k] = lost[k]
    BY <1>10 DEF Tail, Read, Counted
  <1>11. ASSUME UNCHANGED <<eng, cnt, base, lost>>, ~Sampling, ~Sampling', NEW k \in Keys
         PROVE  Settled(k)
    <2>1. Tail'[k] = Tail[k] /\ Counted'[k] = Counted[k] /\ lost'[k] = lost[k]
      BY <1>11 DEF Tail, Counted
    <2> QED BY <1>4, <1>11, <2>1 DEF Settled, Books
  <1>12. CASE Edit
    <2>1. /\ pc = "edit" /\ UNCHANGED <<eng, cnt, base, lost>>
          /\ state' = state /\ disk' = disk /\ served' = served
      BY <1>12 DEF Edit, env
    <2>2. CASE GoOn("free")
      BY <1>11, <2>1, <2>2, QuietBooks DEF GoOn, Sampling
    <2>3. CASE pc' = "txnApply" /\ next' \in Commands(state)
      <3>1. ~Sampling /\ ~Sampling' /\ pc # "down" /\ pc' # "down"
        BY <2>1, <2>3 DEF Sampling
      <3>2. /\ \A k \in Keys : Account(state')[k] + Read'[k] + Tail'[k] + lost'[k] = served'[k]
            /\ \A k \in Keys : lost'[k] >= 0
            /\ eng'.up /\ ~eng'.fresh => \A k \in Keys : Counted'[k] <= cnt'[k]
        BY <1>11, <2>1, <3>1, Quiet
      <3>3. Account(next') = Account(state')
        BY <1>0, <2>1, <2>3, CommandResult
      <3> QED BY <1>3, <2>1, <2>3, <3>1, <3>2, <3>3 DEF Books, Sampling
    <2> QED BY <1>12, <2>2, <2>3 DEF Edit
  <1>13. CASE TxnApply
    <2>1. PICK r \in Applied(eng, Desired(next)) :
            /\ EngineIsSeen(r)
            /\ IF r.ok THEN pc' = "txnSave" /\ UNCHANGED locals ELSE GoOn("free")
      BY <1>13 DEF TxnApply
    <2>2. /\ pc = "txnApply" /\ state' = state /\ disk' = disk /\ served' = served
          /\ (pc' = "txnSave" /\ next' = next) \/ (pc' = "free" /\ next' = Fresh)
      BY <1>13, <2>1 DEF TxnApply, env, GoOn, locals
    <2>3. ~Sampling /\ ~Sampling'
      BY <2>2 DEF Sampling
    <2>4. \A k \in Keys : Settled(k)
      BY <1>0, <1>1, <1>2, <2>1, <2>3, EngineIsSeenBooks
    <2> QED BY <2>2, <2>3, <2>4, QuietBooks
  <1>14. CASE TxnSaved
    <2>1. /\ pc = "txnSave" /\ pc' = "free" /\ disk' = next /\ state' = next /\ next' = Fresh
          /\ UNCHANGED <<eng, cnt, base, lost, served>>
      BY <1>14 DEF TxnSaved, env, GoOn
    <2>2. ~Sampling /\ ~Sampling'
      BY <2>1 DEF Sampling
    <2>3. Account(next) = Account(state)
      BY <2>1 DEF Books
    <2>4. \A k \in Keys : Settled(k)
      BY <1>11, <2>1, <2>2
    <2>5. \A k \in Keys : Read[k] = 0 /\ Read'[k] = 0
      BY <2>2 DEF Read
    <2>6. \A k \in Keys : /\ Account(state')[k] + Read'[k] + Tail'[k] + lost'[k] = served'[k]
                          /\ lost'[k] >= 0
      BY <1>4, <1>5, <2>1, <2>3, <2>4, <2>5 DEF Settled
    <2>7. \A k \in Keys : Account(disk')[k] <= served'[k]
      BY <2>1, Covered
    <2>8. eng'.up /\ ~eng'.fresh => \A k \in Keys : Counted'[k] <= cnt'[k]
      BY <2>4 DEF Settled
    <2> QED BY <2>1, <2>2, <2>6, <2>7, <2>8 DEF Books, Sampling
  <1>15. CASE TxnInDoubt
    <2>1. /\ pc = "txnSave" /\ pc' = "free" /\ disk' \in {disk, next} /\ state' = state
          /\ next' = Fresh /\ base' = base /\ served' = served /\ EngineStops
      BY <1>15 DEF TxnInDoubt, SaveDoubt, env, GoOn
    <2>2. ~Sampling /\ ~Sampling' /\ Counted' = Counted
      BY <2>1 DEF Sampling, Counted
    <2>3. \A k \in Keys : Settled(k)
      BY <2>1, <2>2, EngineStopsBooks
    <2>4. /\ \A k \in Keys : Account(state')[k] + Read'[k] + Tail'[k] + lost'[k] = served'[k]
          /\ \A k \in Keys : lost'[k] >= 0
          /\ eng'.up /\ ~eng'.fresh => \A k \in Keys : Counted'[k] <= cnt'[k]
      BY <2>1, <2>2, <2>3, Quiet
    <2>5. \A k \in Keys : Account(disk')[k] <= served'[k]
      BY <1>3, <2>1, Covered
    <2> QED BY <2>1, <2>2, <2>4, <2>5 DEF Books, Sampling
  <1>16. CASE TxnUnsaved
    <2>1. /\ pc = "txnSave" /\ pc' = "txnUndo" /\ ~Sampling /\ ~Sampling'
          /\ UNCHANGED <<eng, cnt, base, lost, state, served, disk, next>>
      BY <1>16 DEF TxnUnsaved, env, locals, Sampling
    <2> QED BY <1>11, <2>1, QuietBooks
  <1>17. CASE TxnUndo
    <2>1. PICK r \in Applied(eng, prior) :
            IF r.ok THEN EngineIsSeen(r)
            ELSE EngineIs([r EXCEPT !.eng = Stopped(r.eng)]) /\ UNCHANGED base
      BY <1>17 DEF TxnUndo
    <2>2. /\ pc = "txnUndo" /\ pc' = "free" /\ state' = state /\ disk' = disk
          /\ served' = served /\ next' = Fresh
      BY <1>17 DEF TxnUndo, env, GoOn
    <2>3. ~Sampling /\ ~Sampling'
      BY <2>2 DEF Sampling
    <2>4. CASE r.ok
      <3>1. \A k \in Keys : Settled(k)
        BY <1>0, <1>1, <2>1, <2>3, <2>4, EngineIsSeenBooks
      <3> QED BY <2>2, <2>3, <3>1, QuietBooks
    <2>5. CASE ~r.ok
      <3> DEFINE x == [r EXCEPT !.eng = Stopped(r.eng)]
      <3>1. ~r.kept /\ r \in [eng : Engines, ok : BOOLEAN, kept : BOOLEAN]
        BY <1>0, <1>1, <2>1, <2>5
      <3>2. /\ x \in [eng : Engines, ok : BOOLEAN, kept : BOOLEAN] /\ ~x.kept /\ ~x.eng.up
        BY <3>1, StoppedType
      <3>3. EngineIs(x) /\ Counted' = Counted
        BY <2>1, <2>3, <2>5 DEF Counted
      <3> HIDE DEF x
      <3>4. \A k \in Keys : Settled(k)
        BY <3>2, <3>3, EngineIsBooks
      <3> QED BY <2>2, <2>3, <3>4, QuietBooks
    <2> QED BY <2>4, <2>5
  <1>18. CASE RestartCore
    <2>1. PICK r \in Applied(Stopped(eng), Desired(state)) : EngineIsSeen(r)
      BY <1>18 DEF RestartCore
    <2>2. /\ pc = "restart" /\ pc' = "free" /\ state' = state /\ disk' = disk
          /\ served' = served /\ next' = Fresh
      BY <1>18 DEF RestartCore, env, GoOn
    <2>3. ~Sampling /\ ~Sampling'
      BY <2>2 DEF Sampling
    <2>4. Stopped(eng) \in Engines /\ ~Stopped(eng).up /\ Stopped(eng).fresh = eng.fresh
      BY <1>0, StoppedType DEF Stopped, Engines
    <2>5. \A k \in Keys : Settled(k)
      BY <1>0, <1>1, <1>2, <2>1, <2>3, <2>4, EngineIsSeenBooks
    <2> QED BY <2>2, <2>3, <2>5, QuietBooks
  <1>19. CASE StopCore
    <2>1. /\ pc = "stopping" /\ pc' \in {"free", "stopSave"} /\ EngineStops
          /\ UNCHANGED <<base, disk, next, served>>
          /\ state' \in {state, [state EXCEPT !.running = FALSE]}
      BY <1>19 DEF StopCore, env, locals
    <2>2. ~Sampling /\ ~Sampling' /\ Counted' = Counted
      BY <2>1 DEF Sampling, Counted
    <2>3. \A k \in Keys : Settled(k)
      BY <2>1, <2>2, EngineStopsBooks
    <2>4. Account(state') = Account(state)
      BY <1>0, <2>1 DEF States, Account
    <2>5. \A k \in Keys : Read[k] = 0 /\ Read'[k] = 0
      BY <2>2 DEF Read
    <2>6. \A k \in Keys : /\ Account(state')[k] + Read'[k] + Tail'[k] + lost'[k] = served'[k]
                          /\ lost'[k] >= 0
      BY <1>4, <1>5, <2>1, <2>3, <2>4, <2>5 DEF Settled
    <2>7. eng'.up /\ ~eng'.fresh => \A k \in Keys : Counted'[k] <= cnt'[k]
      BY <2>3 DEF Settled
    <2> QED BY <1>3, <2>1, <2>2, <2>6, <2>7 DEF Books, Sampling
  <1>20. CASE StopSave
    <2>1. /\ pc = "stopSave" /\ pc' = "free" /\ disk' \in {disk, state}
          /\ UNCHANGED <<eng, cnt, base, lost, state, served, next>>
      BY <1>20 DEF StopSave, SaveDoubt, env, locals
    <2>2. ~Sampling /\ ~Sampling'
      BY <2>1 DEF Sampling
    <2>3. /\ \A k \in Keys : Account(state')[k] + Read'[k] + Tail'[k] + lost'[k] = served'[k]
          /\ \A k \in Keys : lost'[k] >= 0
          /\ eng'.up /\ ~eng'.fresh => \A k \in Keys : Counted'[k] <= cnt'[k]
      BY <1>11, <2>1, <2>2, Quiet
    <2>4. \A k \in Keys : Account(disk')[k] <= served'[k]
      BY <1>3, <2>1, Covered
    <2> QED BY <2>1, <2>2, <2>3, <2>4 DEF Books, Sampling
  <1>21. CASE BootSave
    <2>1. pc = "bootSave" /\ disk' \in {disk, state} /\ served' = served
      BY <1>21 DEF BootSave, SaveDoubt, Down, env
    <2>2. \A k \in Keys : Account(disk')[k] <= served[k]
      BY <1>3, <2>1, Covered
    <2>3. CASE Down
      BY <2>2, <2>3, DownBooks
    <2>4. CASE pc' = "bootApply" /\ UNCHANGED <<state, base, halted, eng, cnt, locals, run, env, lost>>
      <3>1. UNCHANGED <<eng, cnt, base, lost, state, served, next>> /\ ~Sampling /\ ~Sampling'
        BY <2>1, <2>4 DEF env, locals, Sampling
      <3>2. /\ \A k \in Keys : Account(state')[k] + Read'[k] + Tail'[k] + lost'[k] = served'[k]
            /\ \A k \in Keys : lost'[k] >= 0
            /\ eng'.up /\ ~eng'.fresh => \A k \in Keys : Counted'[k] <= cnt'[k]
        BY <1>11, <2>1, <2>4, <3>1, Quiet
      <3> QED BY <2>1, <2>2, <2>4, <3>1, <3>2 DEF Books, Sampling
    <2> QED BY <1>21, <2>3, <2>4 DEF BootSave
  <1>22. CASE BootApply
    <2>1. PICK r \in Applied(eng, Desired(state)) :
            \/ /\ r.ok /\ EngineIsSeen(r) /\ pc' = "free"
               /\ UNCHANGED <<state, halted, disk, locals, run, env>>
            \/ ~r.ok /\ Down /\ UNCHANGED disk
      BY <1>22 DEF BootApply
    <2>2. CASE Down /\ UNCHANGED disk
      BY <1>3, <2>2, DownBooks
    <2>3. CASE EngineIsSeen(r) /\ pc' = "free" /\ UNCHANGED <<state, halted, disk, locals, run, env>>
      <3>1. /\ pc = "bootApply" /\ state' = state /\ disk' = disk /\ served' = served
            /\ next' = next /\ ~Sampling /\ ~Sampling'
        BY <1>22, <2>3 DEF BootApply, env, locals, Sampling
      <3>2. \A k \in Keys : Settled(k)
        BY <1>0, <1>1, <1>2, <2>1, <2>3, <3>1, EngineIsSeenBooks
      <3> QED BY <2>3, <3>1, <3>2, QuietBooks
    <2> QED BY <2>1, <2>2, <2>3
  <1>23. CASE Exit \/ Killed
    BY <1>3, <1>23, DownBooks DEF Exit, Killed
  <1>24. CASE BeginEdit \/ BeginRestart \/ BeginStop
    <2>1. pc = "free"
      BY <1>24 DEF BeginEdit, BeginRestart, BeginStop
    <2>2. CASE eng.up
      <3>1. \E j \in Jobs : Sample(j)
        BY <1>24, <2>2 DEF BeginEdit, BeginRestart, BeginStop, Jobs
      <3> QED BY <2>1, <2>2, <3>1, SampleBooks
    <2>3. CASE ~eng.up
      <3>1. \E l \in {"edit", "restart", "stopping"} :
              GoOn(l) /\ UNCHANGED <<state, base, halted, eng, cnt, disk, run, env, lost>>
        BY <1>24, <2>3 DEF BeginEdit, BeginRestart, BeginStop
      <3>2. /\ pc' \in {"edit", "restart", "stopping"} /\ next' = Fresh
            /\ UNCHANGED <<eng, cnt, base, lost, state, served, disk>>
        BY <3>1 DEF GoOn, env
      <3> QED BY <1>11, <2>1, <3>2, QuietBooks DEF Sampling
    <2> QED BY <2>2, <2>3
  <1>25. CASE Tick
    BY <1>25, SampleBooks DEF Tick, Jobs
  <1>26. CASE FindDead \/ StopWaiting \/ Terminate \/ PassTime
    <2>1. UNCHANGED <<eng, cnt, base, vals, lost, state, disk, next, pc, served>>
      BY <1>26 DEF FindDead, StopWaiting, Terminate, PassTime, locals, env
    <2>2. Sampling' = Sampling
      BY <2>1 DEF Sampling
    <2>3. \A k \in Keys : /\ Tail'[k] = Tail[k] /\ Read'[k] = Read[k]
                          /\ Counted'[k] = Counted[k] /\ lost'[k] = lost[k]
      BY <1>10, <2>1, <2>2
    <2>4. \A k \in Keys : lost'[k] >= 0
      BY <1>4, <2>3
    <2>5. pc' # "down" => \A k \in Keys :
            Account(state')[k] + Read'[k] + Tail'[k] + lost'[k] = served'[k]
      BY <1>5, <2>1, <2>3
    <2>6. eng'.up /\ ~eng'.fresh => \A k \in Keys : Counted'[k] <= cnt'[k]
      BY <2>1, <2>3 DEF Books
    <2>7. Sampling' => \A k \in Keys :
            /\ base'[k] <= vals'[k]
            /\ Account(next')[k] = Account(state')[k]
                 + (IF k \in Known(state') THEN vals'[k] - base'[k] ELSE 0)
      BY <2>1, <2>2 DEF Books
    <2> QED BY <1>3, <2>1, <2>4, <2>5, <2>6, <2>7 DEF Books
  <1>27. CASE Recover
    <2>1. PICK r \in Applied(eng, Desired(state)) :
            IF r.ok THEN EngineIsSeen(r) ELSE EngineIs(r) /\ UNCHANGED base
      BY <1>27 DEF Recover
    <2>2. /\ pc = "free" /\ pc' = "free" /\ state' = state /\ disk' = disk
          /\ served' = served /\ next' = next
      BY <1>27 DEF Recover, env, locals
    <2>3. ~Sampling /\ ~Sampling'
      BY <2>2 DEF Sampling
    <2>4. CASE r.ok
      <3>1. \A k \in Keys : Settled(k)
        BY <1>0, <1>1, <1>2, <2>1, <2>3, <2>4, EngineIsSeenBooks
      <3> QED BY <2>2, <2>3, <3>1, QuietBooks
    <2>5. CASE ~r.ok
      <3>1. EngineIs(r) /\ Counted' = Counted
        BY <2>1, <2>3, <2>5 DEF Counted
      <3>2. \A k \in Keys : Settled(k)
        BY <1>0, <1>1, <1>2, <2>1, <3>1, EngineIsBooks
      <3> QED BY <2>2, <2>3, <3>2, QuietBooks
    <2> QED BY <2>4, <2>5
  <1>28. CASE Boot
    <2>1. /\ pc = "down" /\ pc' = "bootSave" /\ state' = [disk EXCEPT !.running = TRUE]
          /\ lost' = [k \in Keys |-> served[k] - Account(disk)[k]]
          /\ UNCHANGED <<eng, disk, next, served>> /\ ~eng.up
      BY <1>28 DEF Boot, env, locals, Marks, Booted
    <2>2. \A k \in Keys : Account(disk)[k] \in Nat
      BY <1>0, AccountAt
    <2>3. Account(state') = Account(disk)
      BY <1>0, <2>1 DEF States, Account
    <2>4. \A k \in Keys : Read'[k] = 0 /\ Tail'[k] = 0
      BY <2>1 DEF Read, Tail, Sampling
    <2>5. \A k \in Keys : /\ Account(state')[k] + Read'[k] + Tail'[k] + lost'[k] = served'[k]
                          /\ lost'[k] >= 0
      BY <1>3, <1>4, <2>1, <2>2, <2>3, <2>4
    <2> QED BY <1>3, <2>1, <2>5 DEF Books, Sampling
  <1>29. CASE CoreDies
    <2>1. /\ EngineStops /\ eng.up /\ pc # "down"
          /\ UNCHANGED <<state, base, disk, pc, next, vals, served>>
      BY <1>29 DEF CoreDies, env, locals, Marks, Booted
    <2>2. Counted' = Counted /\ Sampling' = Sampling
      BY <2>1 DEF Sampling, Counted
    <2>3. \A k \in Keys : Settled(k)
      BY <2>1, <2>2, EngineStopsBooks
    <2>4. \A k \in Keys : Read'[k] = Read[k]
      BY <2>1, <2>2 DEF Read
    <2>5. \A k \in Keys : /\ Account(state')[k] + Read'[k] + Tail'[k] + lost'[k] = served'[k]
                          /\ lost'[k] >= 0
      BY <1>4, <1>5, <2>1, <2>3, <2>4 DEF Settled
    <2>6. eng'.up /\ ~eng'.fresh => \A k \in Keys : Counted'[k] <= cnt'[k]
      BY <2>3 DEF Settled
    <2>7. Sampling' => \A k \in Keys :
            /\ base'[k] <= vals'[k]
            /\ Account(next')[k] = Account(state')[k]
                 + (IF k \in Known(state') THEN vals'[k] - base'[k] ELSE 0)
      BY <2>1, <2>2 DEF Books
    <2> QED BY <1>3, <2>1, <2>2, <2>5, <2>6, <2>7 DEF Books
  <1>30. CASE \E u \in Accounts : Use(u)
    <2>1. PICK u \in Accounts : Use(u)
      BY <1>30
    <2>2. /\ UNCHANGED <<state, base, eng, disk, pc, next, vals, lost>> /\ eng.up /\ pc # "down"
      BY <2>1 DEF Use, locals, Marks, Booted
    <2>3. \A k \in Keys : \E i \in {0, 1} : cnt'[k] = cnt[k] + i /\ served'[k] = served[k] + i
      <3> SUFFICES ASSUME NEW k \in Keys
                   PROVE \E i \in {0, 1} : cnt'[k] = cnt[k] + i /\ served'[k] = served[k] + i
        OBVIOUS
      <3>1. /\ cnt'[k] = IF k \in {u, Inbound} THEN cnt[k] + 1 ELSE cnt[k]
            /\ served'[k] = IF k \in {u, Inbound} THEN served[k] + 1 ELSE served[k]
        BY <2>1 DEF Use
      <3> QED BY <1>0, <3>1
    <2>4. Sampling' = Sampling /\ Counted' = Counted
      BY <2>2 DEF Sampling, Counted
    <2>5. \A k \in Keys :
            /\ Account(state')[k] + Read'[k] + Tail'[k] + lost'[k] = served'[k]
            /\ lost'[k] >= 0
            /\ Account(disk')[k] <= served'[k]
            /\ ~eng'.fresh => Counted'[k] <= cnt'[k]
      <3> SUFFICES ASSUME NEW k \in Keys
                   PROVE /\ Account(state)[k] + Read'[k] + Tail'[k] + lost[k] = served'[k]
                         /\ lost[k] >= 0
                         /\ Account(disk)[k] <= served'[k]
                         /\ ~eng.fresh => Counted[k] <= cnt'[k]
        BY <2>2, <2>4
      <3>1. PICK i \in {0, 1} : cnt'[k] = cnt[k] + i /\ served'[k] = served[k] + i
        BY <2>3
      <3>2. Counted[k] \in Nat /\ cnt[k] \in Nat /\ Account(disk)[k] \in Nat
        BY <1>0, AccountAt DEF Counted
      <3>3. ~eng.fresh => Counted[k] <= cnt[k]
        BY <2>2 DEF Books
      <3>4. Tail'[k] = (IF eng.fresh THEN cnt'[k] ELSE cnt'[k] - Counted[k])
        BY <2>2, <2>4 DEF Tail, Counted
      <3>5. Tail[k] = (IF eng.fresh THEN cnt[k] ELSE cnt[k] - Counted[k])
        BY <2>2, Parts
      <3>6. Read'[k] = Read[k]
        BY <2>2, <2>4 DEF Read
      <3>7. Tail'[k] = Tail[k] + i
        BY <3>1, <3>2, <3>4, <3>5
      <3>8. Account(state)[k] + Read[k] + Tail[k] + lost[k] = served[k]
        BY <1>5, <2>2
      <3> QED BY <1>3, <1>4, <3>1, <3>2, <3>3, <3>6, <3>7, <3>8
    <2>6. Sampling' => \A k \in Keys :
            /\ base'[k] <= vals'[k]
            /\ Account(next')[k] = Account(state')[k]
                 + (IF k \in Known(state') THEN vals'[k] - base'[k] ELSE 0)
      BY <2>2, <2>4 DEF Books
    <2> QED BY <2>2, <2>5, <2>6 DEF Books
  <1> QED BY <1>7, <1>8, <1>9, <1>12, <1>13, <1>14, <1>15, <1>16, <1>17, <1>18, <1>19, <1>20,
             <1>21, <1>22, <1>23, <1>24, <1>25, <1>26, <1>27, <1>28, <1>29, <1>30
          DEF Next, Holder

\* The books of every key balance at every place of the code, and the baseline
\* never exceeds what the running process has counted unless its generation is
\* new (sampleLocked, resetGeneration, transaction).
THEOREM BooksHold == Spec => []Books
  <1>1. Init => Books
    <2> SUFFICES ASSUME Init PROVE Books
      OBVIOUS
    <2>1. pc = "down" /\ ~eng.up /\ lost = Zero /\ served = Zero /\ disk = Fresh /\ next = Fresh
      BY DEF Init
    <2>2. \A k \in Keys : Account(Fresh)[k] = 0 /\ Zero[k] = 0
      BY DEF Account, Plus, Fresh, Zero
    <2> QED BY <2>1, <2>2 DEF Books, Sampling
  <1>2. TypeOK /\ TypeOK' /\ Marks /\ Books /\ [Next]_vars => Books'
    <2>1. CASE UNCHANGED vars
      BY <2>1 DEF vars, Books, Sampling, Counted, Tail, Read
    <2> QED BY <2>1, NextBooks
  <1> QED BY <1>1, <1>2, TypeCorrect, MarksHold, PTL DEF Spec

\* No account and no inbound is ever charged more than it used: not by a second
\* credit of one reading (sampleLocked), a baseline kept across processes
\* (resetGeneration), a rolled-back transaction or a save in doubt.
THEOREM NeverOverchargedHolds == Spec => []NeverOvercharged
  <1>1. TypeOK /\ Marks /\ Books => NeverOvercharged
    <2> SUFFICES ASSUME TypeOK, Marks, Books, NEW k \in Keys
                 PROVE \A s \in {state, disk, next} : Account(s)[k] <= served[k]
      BY DEF NeverOvercharged
    <2>1. Account(disk)[k] <= served[k]
      BY DEF Books
    <2>2. CASE pc # "down"
      BY <2>1, <2>2, Covered
    <2>3. CASE pc = "down"
      <3>1. state = Fresh /\ next = Fresh
        BY <2>3 DEF Marks, Books
      <3>2. Account(Fresh)[k] = 0 /\ served[k] \in Nat
        BY DEF Account, Plus, Fresh, Zero, TypeOK
      <3> QED BY <2>1, <3>1, <3>2
    <2> QED BY <2>2, <2>3
  <1> QED BY <1>1, TypeCorrect, MarksHold, BooksHold, PTL

\* Every unit of traffic is credited, read and about to be credited, still in the
\* counters, or lost with the counters of a process that ended.
THEOREM TrafficConserved == Spec => []Conserved
  <1>1. TypeOK /\ Books => Conserved
    <2> SUFFICES ASSUME TypeOK, Books, pc # "down"
                 PROVE Plus(Plus(Account(state), Read), Plus(Tail, lost)) = served
      BY DEF Conserved
    <2>1. \A k \in Keys : Account(state)[k] \in Nat /\ Tail[k] \in Nat /\ Read[k] \in Nat
                          /\ lost[k] \in Nat
      BY AccountAt, Parts DEF TypeOK
    <2>2. \A k \in Keys : Account(state)[k] + Read[k] + Tail[k] + lost[k] = served[k]
      BY DEF Books
    <2>3. \A k \in Keys :
            (Account(state)[k] + Read[k]) + (Tail[k] + lost[k]) = served[k]
      BY <2>1, <2>2
    <2>4. Plus(Plus(Account(state), Read), Plus(Tail, lost))
            = [k \in Keys |-> (Account(state)[k] + Read[k]) + (Tail[k] + lost[k])]
      BY DEF Plus
    <2>5. served = [k \in Keys |-> served[k]]
      BY DEF TypeOK
    <2> QED BY <2>3, <2>4, <2>5
  <1> QED BY <1>1, TypeCorrect, BooksHold, PTL
=============================================================================
