--------------------------- MODULE MCXrayTemplate ---------------------------
(* The template editor on the shipped template and on two with balancers    *)
(* that fall back to one another, as earlier edits have left them.          *)
EXTENDS XrayTemplate

CONSTANTS o1, b1, b2, b3

Out(o) == [tag |-> o, dialer |-> None]

Shipped ==
    [outs |-> <<Out(Direct)>>, bals |-> <<>>,
     rules |-> <<[in |-> Src, out |-> Direct, bal |-> None]>>,
     obs |-> [kind |-> "none", subjects |-> {}]]

\* Balancers that each fall back to the next, the last one to nothing; the
\* first is the target of the general rule.
Chain(names, o) ==
    LET heads == 1..(Len(names) - 1)
        loop(i) == Loop(names[i + 1])
    IN  [outs |-> <<Out(Direct), [tag |-> o, dialer |-> Direct]>> \o [i \in heads |-> Out(loop(i))],
         bals |-> [i \in 1..Len(names) |->
                     IF i \in heads
                     THEN [tag |-> names[i], sel |-> {Direct}, fb |-> loop(i), strat |-> "random"]
                     ELSE [tag |-> names[i], sel |-> {o}, fb |-> None, strat |-> "leastPing"]],
         rules |-> [i \in heads |-> [in |-> loop(i), out |-> None, bal |-> names[i + 1]]]
                     \o <<[in |-> AnyIn, out |-> None, bal |-> names[1]]>>,
         obs |-> [kind |-> "burst", subjects |-> {Direct, o}]]

MCInitial == {Shipped, Chain(<<b1, b2>>, Warp), Chain(<<b1, b2, b3>>, o1)}
=============================================================================
