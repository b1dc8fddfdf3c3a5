---------------------------- MODULE CoreContract ----------------------------
(***************************************************************************)
(* What the node's Engine promises its caller: a call of Apply ends in one *)
(* of the results CoreResults lists, whatever fails on the way, and        *)
(* between calls the process changes only by dying.                        *)
(***************************************************************************)
EXTENDS CoreResults


VARIABLES eng, call, answer

coreVars == <<eng, call, answer>>

NoCall == [busy |-> FALSE, next |-> Blank]
Calling(c) == [busy |-> TRUE, next |-> c]

Init == /\ eng = [up |-> FALSE, cfg |-> Blank, memo |-> Blank, fresh |-> FALSE]
        /\ call = NoCall /\ answer = TRUE

\* The caller asks for a configuration.
Invoke(c) == ~call.busy /\ call' = Calling(c) /\ UNCHANGED <<eng, answer>>

\* Apply returns.
Return == /\ call.busy /\ call' = NoCall
          /\ \E x \in ApplyResults(eng, call.next) : \E r \in MayBeDead(x) :
                eng' = r.eng /\ answer' = r.ok

\* The caller stops the core.
Halt == ~call.busy /\ eng' = Stopped(eng) /\ UNCHANGED <<call, answer>>

\* The caller compares Generation with the one it knew.
Acknowledge == /\ ~call.busy /\ eng' = [eng EXCEPT !.fresh = FALSE]
               /\ UNCHANGED <<call, answer>>

\* The Xray process dies by itself.
Die == ~call.busy /\ eng' = Stopped(eng) /\ UNCHANGED <<call, answer>>

Next == \/ \E c \in Configs : Invoke(c)
        \/ Return \/ Halt \/ Acknowledge \/ Die

Spec == Init /\ [][Next]_coreVars
=============================================================================
