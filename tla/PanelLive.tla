----------------------------- MODULE PanelLive ------------------------------
(***************************************************************************)
(* How an open tab of the panel keeps up with the server: the handlers'    *)
(* signals, the websocket hub on their way, the tab's bridge that turns    *)
(* them into refetches, and the query cache with its answers on the way.   *)
(* Two lists are followed, the inbounds page's and the clients page's, by  *)
(* the number of the edit they show.                                       *)
(***************************************************************************)
EXTENDS Naturals, Sequences, FiniteSets

CONSTANTS
    Others,      \* handlers serving other administrators, and the node job
    Pushes,      \* TRUE: the list is small enough to be pushed (at most 5000 clients)
    QueueSize,   \* messages a connection can fall behind by before it is evicted
    MaxEdits,    \* bound on edits
    MaxFaults    \* bound on broken connections and failing fetches

ASSUME LiveAssumption == {QueueSize, MaxEdits, MaxFaults} \subseteq Nat /\ Pushes \in BOOLEAN

VARIABLES
    data,      \* the server's lists, by the number of their last edit
    todo,      \* for each handler: the signals it has still to send
    throttled, \* a list was pushed within the last 250 ms
    conn,      \* the tab's connection
    pipe,      \* messages on their way to the tab
    timer,     \* websocketBridge.invalidateTimer and what it is set for
    recent,    \* isRecentLocalInvalidate: the tab invalidated within 1.5 s
    query,     \* the cached queries: the list shown, and the fetch under way
    own,       \* history: the tab's last answered edit, until a fetch shows it or fails
    lost,      \* history: an update of a list was lost on its way to the tab
    budget

vars == <<data, todo, throttled, conn, pipe, timer, recent, query, own, lost, budget>>

Lists == {"inbounds", "clients"}
Actors == Others \cup {"me"}

Invalidate(d) == [kind |-> "invalidate", list |-> d, v |-> 0]
Push(v) == [kind |-> "push", list |-> "inbounds", v |-> v]
\* A push whose list is still to be read from the database.
Read == [kind |-> "read", list |-> "inbounds", v |-> 0]

\* What a handler sends after its edit (controller/inbound.go, client.go, and
\* the node job after a structural change).
Signals(kind) ==
    CASE kind = "inbound" -> <<IF Pushes THEN Read ELSE Invalidate("inbounds"), Invalidate("clients")>>
      [] kind = "toggle"  -> <<Invalidate("inbounds")>>
      [] kind = "client"  -> <<Invalidate("clients")>>
      [] kind = "node"    -> <<Invalidate("inbounds"), Invalidate("clients")>>

\* The lists an edit changes.
Changes(kind) == CASE kind \in {"inbound", "node"} -> Lists
                   [] kind = "toggle" -> {"inbounds"}
                   [] kind = "client" -> {"clients"}

Spend(what) == budget' = [budget EXCEPT ![what] = @ + 1]
Left(what) == budget[what] < [edits |-> MaxEdits, faults |-> MaxFaults][what]

Init ==
    /\ data = [d \in Lists |-> 0]
    /\ todo = [a \in Actors |-> [kind |-> "none", rest |-> <<>>]]
    /\ throttled = FALSE
    /\ conn = "joined" /\ pipe = <<>>
    /\ timer = "none" /\ recent = FALSE
    /\ query = [d \in Lists |-> [shown |-> 0, fetch |-> "none", v |-> 0]]
    /\ own = 0
    /\ lost = [d \in Lists |-> FALSE]
    /\ budget = [what \in {"edits", "faults"} |-> 0]

----------------------------------------------------------------------------
(* The server.                                                             *)

Edit(a, kind) ==
    /\ Left("edits") /\ todo[a].kind = "none"
    /\ kind = "node" => a # "me"
    /\ data' = [d \in Lists |-> IF d \in Changes(kind) THEN data[d] + 1 ELSE data[d]]
    /\ todo' = [todo EXCEPT ![a] = [kind |-> kind, rest |-> Signals(kind)]]
    /\ Spend("edits")
    /\ UNCHANGED <<throttled, conn, pipe, timer, recent, query, own, lost>>

Sent(a) == todo' = [todo EXCEPT ![a].rest = Tail(@)]
Lose(ds) == lost' = [d \in Lists |-> lost[d] \/ d \in ds]
ListsOf(messages) == {messages[i].list : i \in DOMAIN messages}

\* broadcastInboundsUpdate reads the list, unless no tab is connected.
ReadList(a) ==
    /\ todo[a].rest # <<>> /\ Head(todo[a].rest) = Read
    /\ todo' = [todo EXCEPT ![a].rest = <<Push(data["inbounds"])>> \o Tail(@)]
    /\ UNCHANGED <<data, throttled, conn, pipe, timer, recent, query, own, lost, budget>>

\* Broadcast drops a push that follows another too soon; a message for a tab
\* the hub does not know, or has just lost, goes nowhere.
Signal(a) ==
    /\ todo[a].rest # <<>> /\ Head(todo[a].rest) # Read
    /\ Sent(a)
    /\ LET m == Head(todo[a].rest) IN
       \/ /\ conn # "joined" \/ (m.kind = "push" /\ throttled)
          /\ Lose({m.list})
          /\ UNCHANGED <<throttled, conn, pipe>>
       \/ /\ conn = "joined" /\ ~(m.kind = "push" /\ throttled) /\ Len(pipe) < QueueSize
          /\ throttled' = (throttled \/ m.kind = "push")
          /\ pipe' = Append(pipe, m)
          /\ UNCHANGED <<conn, lost>>
       \/ /\ conn = "joined" /\ ~(m.kind = "push" /\ throttled) /\ Len(pipe) = QueueSize
          /\ throttled' = (throttled \/ m.kind = "push")
          /\ conn' = "evicted"
          /\ Lose({m.list})
          /\ UNCHANGED pipe
    /\ UNCHANGED <<data, timer, recent, query, own, budget>>

ThrottleEnds ==
    /\ throttled /\ throttled' = FALSE
    /\ UNCHANGED <<data, todo, conn, pipe, timer, recent, query, own, lost, budget>>

----------------------------------------------------------------------------
(* The connection.                                                         *)

\* Mutant of Close: what was queued stays for the next connection.
CloseKeepsQueue ==
    /\ \/ conn \in {"open", "joined"} /\ Left("faults") /\ Spend("faults")
       \/ conn = "evicted" /\ pipe = <<>> /\ UNCHANGED budget
    /\ conn' = "closed"
    /\ UNCHANGED <<data, todo, throttled, pipe, timer, recent, query, own, lost>>

\* The network breaks, or the evicted connection is closed when what was
\* queued has been written.
Close ==
    /\ \/ conn \in {"open", "joined"} /\ Left("faults") /\ Spend("faults")
       \/ conn = "evicted" /\ pipe = <<>> /\ UNCHANGED budget
    /\ conn' = "closed" /\ pipe' = <<>>
    /\ Lose(ListsOf(pipe))
    /\ UNCHANGED <<data, todo, throttled, timer, recent, query, own>>

\* The client reconnects, after ten attempts every minute; the hub hears of
\* it by its ops channel.  Nothing is fetched for it.
Reconnect ==
    /\ conn = "closed" /\ conn' = "open"
    /\ UNCHANGED <<data, todo, throttled, pipe, timer, recent, query, own, lost, budget>>

Register ==
    /\ conn = "open" /\ conn' = "joined"
    /\ UNCHANGED <<data, todo, throttled, pipe, timer, recent, query, own, lost, budget>>

----------------------------------------------------------------------------
(* The tab.                                                                *)

\* Mutant of Refetch: a fetch under way is not cancelled.
RefetchJoins(ds) ==
    [d \in Lists |-> IF d \in ds /\ query[d].fetch = "none" THEN [query[d] EXCEPT !.fetch = "sent"] ELSE query[d]]

\* invalidateQueries cancels the fetch under way and begins another.
Refetch(ds) == [d \in Lists |-> IF d \in ds THEN [query[d] EXCEPT !.fetch = "sent"] ELSE query[d]]

\* A list goes back when an older one overtakes it.
Show(d, v) == query' = [query EXCEPT ![d].shown = v]
GoesBack(d, v) == IF v < query[d].shown THEN Lose({d}) ELSE UNCHANGED lost

\* onInbounds and onInvalidate: one timer for both lists, set anew by every
\* signal for the list it names.
Deliver ==
    /\ pipe # <<>> /\ pipe' = Tail(pipe)
    /\ LET m == Head(pipe) IN
       \/ /\ m.kind = "push"
          /\ Show("inbounds", m.v) /\ GoesBack("inbounds", m.v)
          /\ UNCHANGED timer
       \/ /\ m.kind = "invalidate"
          /\ timer' = m.list
          /\ Lose({timer} \ {m.list})
          /\ UNCHANGED query
    /\ UNCHANGED <<data, todo, throttled, conn, recent, own, budget>>

\* The timer goes off: nothing is done when the tab has just invalidated itself.
Fire ==
    /\ timer # "none" /\ timer' = "none"
    /\ IF recent THEN Lose({timer}) /\ UNCHANGED query
                 ELSE query' = Refetch({timer}) /\ UNCHANGED lost
    /\ UNCHANGED <<data, todo, throttled, conn, pipe, recent, own, budget>>

RecentEnds ==
    /\ recent /\ recent' = FALSE
    /\ UNCHANGED <<data, todo, throttled, conn, pipe, timer, query, own, lost, budget>>

\* Mutant of Poll: a list that is live by the websocket counts as fresh.
PollStale ==
    /\ query["clients"].fetch = "none"
    /\ query' = Refetch(IF conn = "closed" THEN {"clients"} ELSE {})
    /\ UNCHANGED <<data, todo, throttled, conn, pipe, timer, recent, own, lost, budget>>

\* The clients page asks for its list every five seconds.
Poll ==
    /\ query["clients"].fetch = "none"
    /\ query' = Refetch({"clients"})
    /\ UNCHANGED <<data, todo, throttled, conn, pipe, timer, recent, own, lost, budget>>

Answer(d) ==
    /\ query[d].fetch = "sent"
    /\ query' = [query EXCEPT ![d].fetch = "answered", ![d].v = data[d]]
    /\ lost' = [lost EXCEPT ![d] = FALSE]
    /\ UNCHANGED <<data, todo, throttled, conn, pipe, timer, recent, own, budget>>

Arrive(d) ==
    /\ query[d].fetch = "answered"
    /\ query' = [query EXCEPT ![d] = [shown |-> query[d].v, fetch |-> "none", v |-> 0]]
    /\ GoesBack(d, query[d].v)
    /\ own' = IF d = "inbounds" /\ query[d].v >= own THEN 0 ELSE own
    /\ UNCHANGED <<data, todo, throttled, conn, pipe, timer, recent, budget>>

\* A fetch fails twice: the list stays as it was.
FetchFails(d) ==
    /\ query[d].fetch # "none" /\ Left("faults")
    /\ query' = [query EXCEPT ![d].fetch = "none", ![d].v = 0]
    /\ Lose({d})
    /\ own' = IF d = "inbounds" THEN 0 ELSE own
    /\ Spend("faults")
    /\ UNCHANGED <<data, todo, throttled, conn, pipe, timer, recent>>

\* Mutant of Done: the tab leaves the refetch to the websocket.
DoneWaits(a) ==
    /\ todo[a].kind # "none" /\ todo[a].rest = <<>>
    /\ todo' = [todo EXCEPT ![a].kind = "none"]
    /\ own' = IF a # "me" \/ todo[a].kind = "toggle" THEN own ELSE data["inbounds"]
    /\ UNCHANGED <<data, throttled, conn, pipe, timer, recent, query, lost, budget>>

\* A handler has sent its signals and answers.  The tab's own edits end with a
\* refetch: refresh() on the inbounds page, invalidateAll() on the clients
\* page, which alone marks it; a toggle has changed the row in place.
Done(a) ==
    /\ todo[a].kind # "none" /\ todo[a].rest = <<>>
    /\ todo' = [todo EXCEPT ![a].kind = "none"]
    /\ IF a # "me" \/ todo[a].kind = "toggle"
       THEN UNCHANGED <<query, recent, own>>
       ELSE /\ query' = Refetch(IF todo[a].kind = "client" THEN Lists ELSE {"inbounds"})
            /\ recent' = (recent \/ todo[a].kind = "client")
            /\ own' = data["inbounds"]
    /\ UNCHANGED <<data, throttled, conn, pipe, timer, lost, budget>>

----------------------------------------------------------------------------
Server == \E a \in Actors : ReadList(a) \/ Signal(a) \/ Done(a)
Network == Close \/ Reconnect \/ Register
Tab == Deliver \/ Fire \/ Poll \/ \E d \in Lists : Answer(d) \/ Arrive(d) \/ FetchFails(d)

Next ==
    \/ \E a \in Actors, kind \in {"inbound", "toggle", "client", "node"} : Edit(a, kind)
    \/ Server \/ Network \/ Tab
    \/ ThrottleEnds \/ RecentEnds

Spec == Init /\ [][Next]_vars

\* The tab is open and in front: its timers go off, requests are answered.
FairSpec ==
    /\ Spec
    /\ \A a \in Actors : WF_vars(ReadList(a) \/ Signal(a) \/ Done(a))
    /\ WF_vars(Reconnect) /\ WF_vars(Register)
    /\ WF_vars(Deliver) /\ WF_vars(Fire) /\ WF_vars(Poll)
    /\ \A d \in Lists : WF_vars(Answer(d)) /\ WF_vars(Arrive(d))

----------------------------------------------------------------------------
Messages == {Invalidate(d) : d \in Lists} \cup {Push(v) : v \in 0..MaxEdits}

TypeOK ==
    /\ data \in [Lists -> 0..MaxEdits]
    /\ \A a \in Actors : ListsOf(todo[a].rest) \subseteq Lists
    /\ throttled \in BOOLEAN /\ recent \in BOOLEAN
    /\ conn \in {"closed", "open", "joined", "evicted"}
    /\ \A i \in DOMAIN pipe : pipe[i] \in Messages
    /\ Len(pipe) <= QueueSize
    /\ conn \in {"closed", "open"} => pipe = <<>>
    /\ timer \in Lists \cup {"none"}
    /\ query \in [Lists -> [shown : 0..MaxEdits, fetch : {"none", "sent", "answered"}, v : 0..MaxEdits]]
    /\ lost \in [Lists -> BOOLEAN]

Settled(d) == /\ pipe = <<>> /\ timer = "none" /\ query[d].fetch = "none"
              /\ \A a \in Actors : todo[a].kind = "none"

\* The ways in which a list goes stale are known: when nothing is on its way,
\* it shows the server's last edit, unless a signal was lost (no connection, a
\* full queue, two pushes within 250 ms, the timer set anew for the other list,
\* a refetch left out because the tab had just made its own) or an older list
\* overtook a newer one.
StaleOnlyIfLost == \A d \in Lists : Settled(d) /\ ~lost[d] => query[d].shown = data[d]

\* Whatever is lost on the way, the clients page catches up: it polls.
ClientsCatchUp == <>[](query["clients"].shown = data["clients"])

\* An administrator's refetch shows him his own edit, whatever is lost on the
\* websocket and whatever refetches it cancels, unless a fetch fails.  (An older
\* list pushed late may hide it again.)
OwnEditShown == (own > 0) ~> (own = 0)
=============================================================================
