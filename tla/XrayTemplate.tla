---------------------------- MODULE XrayTemplate ----------------------------
(***************************************************************************)
(* The panel's editor of the Xray template                                 *)
(* (frontend/src/pages/xray): outbounds, balancers, routing rules and      *)
(* observatories that refer to one another by tag, edited by forms that    *)
(* each rewrite the whole draft, and saved as one blob.                    *)
(*                                                                         *)
(* Xray lets a balancer fall back only to an outbound.  The editor offers  *)
(* a balancer as a fallback all the same: it keeps a hidden outbound       *)
(* "_bl_<target>" of protocol loopback and a hidden rule that sends what   *)
(* comes out of it to the target.  Loop(b) is that tag.                    *)
(***************************************************************************)
EXTENDS Naturals, Sequences, SequencesExt, FiniteSets

CONSTANTS
    Outs,      \* tags of outbounds
    Direct,    \* the outbound Basic Routing adds and removes by itself
    Warp,      \* the outbound the WARP dialog removes
    Bals,      \* tags of balancers, never also tags of outbounds here
    AnyIn,     \* no inbound named: the rule is a general one
    Src,       \* an inbound of the server
    None,      \* an empty tag
    InitialTemplates,
    MaxOuts, MaxBals, MaxRules, MaxDraftEdits    \* bounds of the instance

VARIABLES
    draft,     \* the editor's template
    saved,     \* the server's
    edits,     \* edits made so far
    touched    \* history: the row of the balancer table last edited, 0 if none

editorVars == <<draft, saved, edits, touched>>

Loop(b) == <<b>>
Loops == {Loop(b) : b \in Bals}
IsLoop(tag) == tag \in Loops
Target(loop) == Head(loop)

Strategies == {"random", "leastPing", "leastLoad"}

\* A tag names one thing and is not empty; the loopbacks' names are their own,
\* since both forms refuse a tag with their prefix.
ASSUME TagsAssumption ==
    /\ Direct \in Outs /\ Warp \in Outs /\ IsFiniteSet(Bals)
    /\ Outs \cap Bals = {} /\ (Outs \cup Bals) \cap Loops = {}
    /\ None \notin Outs \cup Bals \cup Loops
    /\ {AnyIn, Src} \cap Loops = {}
    /\ {MaxOuts, MaxBals, MaxRules, MaxDraftEdits} \subseteq Nat

Outbound == [tag : Outs \cup Loops, dialer : Outs \cup Loops \cup {None}]
Balancer == [tag : Bals, sel : SUBSET Outs, fb : Outs \cup Bals \cup Loops \cup {None},
             strat : Strategies]
Rule == [in : {AnyIn, Src} \cup Loops, out : Outs \cup Loops \cup {None},
         bal : Bals \cup {None}]
Observer == [kind : {"none", "plain", "burst"}, subjects : SUBSET Outs]
Template == [outs : Seq(Outbound), bals : Seq(Balancer), rules : Seq(Rule), obs : Observer]

OutboundTags(T) == {o.tag : o \in Range(T.outs)}
BalancerTags(T) == {b.tag : b \in Range(T.bals)}

\* The sequence s without the positions gone.
DropAt(s, gone) ==
    LET kept[n \in 0..Len(s)] ==
          IF n = 0 THEN <<>> ELSE IF n \in gone THEN kept[n - 1] ELSE Append(kept[n - 1], s[n])
    IN  kept[Len(s)]

----------------------------------------------------------------------------
(* Observatories (balancer-helpers.ts).                                    *)

RequiresBurst(b) ==
    b.strat = "leastLoad" \/ (b.strat = "random" /\ b.fb # None)

IsPing(b) == b.strat = "leastPing"

NeededObserver(T) ==
    LET bursts == {b \in Range(T.bals) : RequiresBurst(b)}
        pings == {b \in Range(T.bals) : IsPing(b)}
        selectors(bals) == UNION {b.sel : b \in bals}
    IN  IF bursts # {} THEN [kind |-> "burst", subjects |-> selectors(bursts \cup pings)]
        ELSE IF pings # {} THEN [kind |-> "plain", subjects |-> selectors(pings)]
        ELSE [kind |-> "none", subjects |-> {}]

SyncObservatories(T) == [T EXCEPT !.obs = NeededObserver(T)]

----------------------------------------------------------------------------
(* Loopbacks (balancer-loopback.ts).                                       *)

Map(s, Op(_)) == [i \in DOMAIN s |-> Op(s[i])]

IsGeneral(r) == r.in = AnyIn

\* Where a loop rule goes: in front of the first general rule.
InsertLoopRule(rules, rule) ==
    LET first == SelectInSeq(rules, IsGeneral)
    IN  InsertAt(rules, IF first = 0 THEN Len(rules) + 1 ELSE first, rule)

EnsureLoopback(T, b) ==
    LET fresh == [tag |-> Loop(b), dialer |-> None]
        o == SelectInSeq(T.outs, LAMBDA x : x.tag = Loop(b))
        r == SelectInSeq(T.rules, LAMBDA x : x.in = Loop(b))
        rule == IF r = 0 THEN [in |-> Loop(b), out |-> None, bal |-> b]
                         ELSE [T.rules[r] EXCEPT !.bal = b]
    IN  [T EXCEPT
          !.outs = IF o = 0 THEN Append(@, fresh) ELSE [@ EXCEPT ![o] = fresh],
          !.rules = InsertLoopRule(IF r = 0 THEN @ ELSE RemoveAt(@, r), rule)]

RemoveLoopbacks(T, gone) ==
    [T EXCEPT !.outs = DropAt(T.outs, {i \in DOMAIN T.outs : T.outs[i].tag \in gone}),
              !.rules = DropAt(T.rules, {i \in DOMAIN T.rules : T.rules[i].in \in gone})]

RemoveLoopback(T, b) == RemoveLoopbacks(T, {Loop(b)})

LoopbackInUse(T, b) == \E x \in Range(T.bals) : x.fb = Loop(b)

RemoveLoopbackIfOrphaned(T, b) ==
    IF LoopbackInUse(T, b) THEN T ELSE RemoveLoopback(T, b)

Renamed(tag, old, new) == IF tag = old THEN new ELSE tag

\* Mutant of PropagateBalancerRename: the loop rule keeps the old tag.
PropagateBalancerRenameNoRules(T, old, new) ==
    [T EXCEPT
       !.outs = Map(@, LAMBDA o : [o EXCEPT !.tag = Renamed(@, Loop(old), Loop(new))]),
       !.bals = Map(@, LAMBDA b : [b EXCEPT !.fb = Renamed(@, Loop(old), Loop(new))])]

PropagateBalancerRename(T, old, new) ==
    [T EXCEPT
       !.outs = Map(@, LAMBDA o : [o EXCEPT !.tag = Renamed(@, Loop(old), Loop(new))]),
       !.rules = Map(@, LAMBDA r : [r EXCEPT !.in = Renamed(@, Loop(old), Loop(new))]),
       !.bals = Map(@, LAMBDA b : [b EXCEPT !.fb = Renamed(@, Loop(old), Loop(new))])]

\* The balancer a loopback's rule leads to, None without such a rule.
LoopRuleTarget(T, loop) ==
    LET r == SelectInSeq(T.rules, LAMBDA x : x.in = loop /\ x.bal # None)
    IN  IF r = 0 THEN None ELSE T.rules[r].bal

\* The fallback as a form shows it; without a rule the tag's suffix serves.
ResolveFallback(T, fb) ==
    IF ~IsLoop(fb) THEN fb
    ELSE IF LoopRuleTarget(T, fb) = None THEN Target(fb) ELSE LoopRuleTarget(T, fb)

EnsureMissingLoopbacks(T) ==
    LET ensured[n \in 0..Len(T.bals)] ==
          IF n = 0 THEN T
          ELSE IF IsLoop(T.bals[n].fb) THEN EnsureLoopback(ensured[n - 1], Target(T.bals[n].fb))
          ELSE ensured[n - 1]
    IN  ensured[Len(T.bals)]

CleanupOrphanedLoopbacks(T) ==
    RemoveLoopbacks(T, {tag \in OutboundTags(T) : IsLoop(tag) /\ ~LoopbackInUse(T, Target(tag))})

\* The walk of detectBalancerCycles and of the form's cycleInfo: follow
\* fallbacks from one balancer until they end, at most once round.
Walk(next, start) ==
    LET met[n \in 0..Cardinality(Bals)] ==
          IF n = 0 THEN {start}
          ELSE met[n - 1] \cup {next[b] : b \in met[n - 1] \cap DOMAIN next}
    IN  met[Cardinality(Bals)]

LoopFallbacks(T) ==
    LET looping == {i \in DOMAIN T.bals : IsLoop(T.bals[i].fb)}
    IN  [b \in {T.bals[i].tag : i \in looping} |->
           Target(T.bals[CHOOSE i \in looping : T.bals[i].tag = b].fb)]

\* Mutant of DetectCycles: only a balancer that falls back to itself counts.
DetectSelfLoops(T) == {b \in DOMAIN LoopFallbacks(T) : LoopFallbacks(T)[b] = b}

DetectCycles(T) ==
    LET next == LoopFallbacks(T)
    IN  {b \in DOMAIN next : b \in Walk(next, next[b])}

\* BalancerFormModal's cycleInfo: the row is known by the tag typed into it.
WouldCreateCycle(T, current, fb) ==
    LET others == {i \in DOMAIN T.bals : T.bals[i].tag # current}
        shown(b) == IF IsLoop(b.fb) THEN LoopRuleTarget(T, b.fb) ELSE b.fb
        next == [t \in {T.bals[i].tag : i \in others} |->
                   shown(T.bals[CHOOSE i \in others : T.bals[i].tag = t])]
    IN  current \in Walk(next, fb)

----------------------------------------------------------------------------
(* Deletion (reference-cleanup.ts).                                        *)

EmptiedBy(T, gone) ==
    {b.tag : b \in {x \in Range(T.bals) : x.sel # {} /\ x.sel \subseteq gone}}

Without(tag, gone) == IF tag \in gone THEN None ELSE tag

CleanRule(r, goneOuts, goneBals) ==
    [r EXCEPT !.out = Without(@, goneOuts), !.bal = Without(@, goneBals)]

\* Mutant of CleanRules: a rule that lost its destination stays.
CleanRulesKeepAll(rules, goneOuts, goneBals) ==
    Map(rules, LAMBDA r : CleanRule(r, goneOuts, goneBals))

\* classifyRule and the loop of applyCleanup: an untouched rule stays as it
\* is, a touched one only while it still has a destination.
CleanRules(rules, goneOuts, goneBals) ==
    LET clean(r) == CleanRule(r, goneOuts, goneBals)
        dropped(r) == clean(r) # r /\ clean(r).out = None /\ clean(r).bal = None
    IN  Map(DropAt(rules, {i \in DOMAIN rules : dropped(rules[i])}), clean)

CleanBalancers(bals, goneOuts, goneBals) ==
    Map(DropAt(bals, {i \in DOMAIN bals : bals[i].tag \in goneBals}),
        LAMBDA b : [b EXCEPT !.sel = @ \ goneOuts, !.fb = Without(@, goneOuts)])

CleanOutbounds(outs, gone) ==
    Map(DropAt(outs, {i \in DOMAIN outs : outs[i].tag \in gone}),
        LAMBDA o : [o EXCEPT !.dialer = Without(@, gone)])

ApplyCleanup(T, goneOuts, goneBals) ==
    SyncObservatories([outs |-> CleanOutbounds(T.outs, goneOuts),
                       bals |-> CleanBalancers(T.bals, goneOuts, goneBals),
                       rules |-> CleanRules(T.rules, goneOuts, goneBals),
                       obs |-> T.obs])

ApplyBalancerDeletion(T, b) == ApplyCleanup(T, {}, {b})

ApplyOutboundDeletion(T, o) == ApplyCleanup(T, {o}, EmptiedBy(T, {o}))

\* Mutant of PropagateOutboundRename: the balancers are not told.
PropagateOutboundRenameRules(T, old, new) ==
    [T EXCEPT !.rules = Map(@, LAMBDA r : [r EXCEPT !.out = Renamed(@, old, new)])]

PropagateOutboundRename(T, old, new) ==
    [T EXCEPT
       !.rules = Map(@, LAMBDA r : [r EXCEPT !.out = Renamed(@, old, new)]),
       !.bals = Map(@, LAMBDA b : [b EXCEPT !.fb = Renamed(@, old, new),
                                            !.sel = {Renamed(s, old, new) : s \in @}]),
       !.outs = Map(@, LAMBDA o : [o EXCEPT !.dialer = Renamed(@, old, new)])]

\* syncOutbound of Basic Routing: the outbound lives while some rule uses it,
\* and the first outbound, the default one, is never removed.
SyncOutbound(T, o) ==
    LET used == \E r \in Range(T.rules) : r.out = o
        at == SelectInSeq(T.outs, LAMBDA x : x.tag = o)
    IN  [T EXCEPT !.outs =
           IF ~used /\ at > 1 THEN RemoveAt(@, at)
           ELSE IF used /\ at = 0 THEN Append(@, [tag |-> o, dialer |-> None])
           ELSE @]

----------------------------------------------------------------------------
(* The edits.  Each form's handler clones the draft and rewrites it.       *)

EditorInit ==
    /\ draft \in InitialTemplates
    /\ saved = draft
    /\ edits = 0
    /\ touched = 0

\* The setter every tab shares.
SetDraft(T, row) ==
    /\ draft' = T
    /\ edits' = edits + 1
    /\ touched' = row
    /\ UNCHANGED saved

\* The rows a table shows; the loopbacks are hidden.
VisibleRules(T) == {i \in DOMAIN T.rules : ~IsLoop(T.rules[i].in)}
VisibleOuts(T) == {i \in DOMAIN T.outs : ~IsLoop(T.outs[i].tag)}
Neighbours(rows, i, j) == i \in rows /\ j \in rows /\ i < j
                            /\ ~\E k \in rows : i < k /\ k < j

\* Mutant of BalancerForm: a tag of another row is accepted.
BalancerFormAnyTag(T, known, own) ==
    LET offered == OutboundTags(T) \ Loops
    IN  [tag : Bals, sel : (SUBSET (offered \cup own.sel)) \ {{}},
         fb : {None, own.fb} \cup offered, strat : Strategies]

\* What BalancerFormModal lets through to onConfirm: a tag no other row has,
\* a selector, and a fallback that closes no cycle it can see.  A value the
\* row already has ("own") is kept whether or not it is still offered.
BalancerForm(T, known, own) ==
    LET offered == OutboundTags(T) \ Loops
    IN  {f \in [tag : Bals \ known, sel : (SUBSET (offered \cup own.sel)) \ {{}},
                fb : {None, own.fb} \cup offered \cup known, strat : Strategies] :
           ~(f.fb \in known \ {f.tag} /\ WouldCreateCycle(T, f.tag, f.fb))}

WireBalancer(f, known) ==
    IF f.fb \in known THEN [f EXCEPT !.fb = Loop(@)] ELSE f

EnsureFallback(T, f, known) ==
    IF f.fb \in known THEN EnsureLoopback(T, f.fb) ELSE T

AddBalancer ==
    /\ Len(draft.bals) < MaxBals
    /\ \E f \in BalancerForm(draft, BalancerTags(draft), [sel |-> {}, fb |-> None]) :
         LET known == BalancerTags(draft)
             pushed == [draft EXCEPT !.bals = Append(@, WireBalancer(f, known))]
         IN  SetDraft(SyncObservatories(EnsureFallback(pushed, f, known)), 0)

ReplaceBalancer(T, i, f, known) ==
    LET old == T.bals[i]
        replaced == [T EXCEPT !.bals[i] = WireBalancer(f, known)]
        rebound == [replaced EXCEPT
                     !.rules = Map(@, LAMBDA r : [r EXCEPT !.bal = Renamed(@, old.tag, f.tag)])]
        renamed == IF old.tag = f.tag THEN replaced
                   ELSE PropagateBalancerRename(rebound, old.tag, f.tag)
        tidied == IF IsLoop(old.fb) /\ Target(old.fb) # f.fb
                  THEN RemoveLoopbackIfOrphaned(renamed, Target(old.fb)) ELSE renamed
    IN  SyncObservatories(EnsureFallback(tidied, f, known))

EditBalancer(i) ==
    LET known == {draft.bals[j].tag : j \in DOMAIN draft.bals \ {i}}
        own == [draft.bals[i] EXCEPT !.fb = ResolveFallback(draft, @)]
    IN  \E f \in BalancerForm(draft, known, own) :
          SetDraft(ReplaceBalancer(draft, i, f, known), i)

DeleteBalancer(i) ==
    LET b == draft.bals[i].tag
    IN  /\ ~\E j \in DOMAIN draft.bals : draft.bals[j].tag # b /\ draft.bals[j].fb = Loop(b)
        /\ SetDraft(ApplyBalancerDeletion(RemoveLoopback(draft, b), b), 0)

Dialers(T, own) == {None, own.dialer} \cup (OutboundTags(T) \ {own.tag})

AddOutbound ==
    /\ Cardinality(VisibleOuts(draft)) < MaxOuts
    /\ \E o \in Outs \ OutboundTags(draft), d \in Dialers(draft, [tag |-> None, dialer |-> None]) :
         SetDraft([draft EXCEPT !.outs = Append(@, [tag |-> o, dialer |-> d])], 0)

EditOutbound(i) ==
    LET old == draft.outs[i].tag
    IN  \E new \in (Outs \ OutboundTags(draft)) \cup {old}, d \in Dialers(draft, draft.outs[i]) :
          LET replaced == [draft EXCEPT !.outs[i] = [tag |-> new, dialer |-> d]]
          IN  SetDraft(IF new = old THEN replaced
                   ELSE PropagateOutboundRename(replaced, old, new), 0)

DeleteOutbound(i) == SetDraft(ApplyOutboundDeletion(draft, draft.outs[i].tag), 0)

\* The table offers it for its rows, the default outbound's selector for all.
SetFirst(i) ==
    SetDraft([draft EXCEPT !.outs = <<@[i]>> \o RemoveAt(@, i)], 0)

MoveOutbound(i, j) ==
    /\ Neighbours(VisibleOuts(draft), i, j)
    /\ SetDraft([draft EXCEPT !.outs = [@ EXCEPT ![i] = draft.outs[j], ![j] = draft.outs[i]]], 0)

\* The WARP dialog's delete: onRemoveOutboundByTag only splices.
RemoveWarp ==
    LET at == SelectInSeq(draft.outs, LAMBDA o : o.tag = Warp)
    IN  at > 0 /\ SetDraft([draft EXCEPT !.outs = RemoveAt(@, at)], 0)

RuleForm(T, own) ==
    [in : {AnyIn, Src}, out : {None, own.out} \cup OutboundTags(T),
     bal : {None, own.bal} \cup BalancerTags(T)]

AddRule ==
    /\ Cardinality(VisibleRules(draft)) < MaxRules
    /\ \E r \in RuleForm(draft, [out |-> None, bal |-> None]) :
         SetDraft([draft EXCEPT !.rules = Append(@, r)], 0)

EditRule(i) ==
    \E r \in RuleForm(draft, draft.rules[i]) : SetDraft([draft EXCEPT !.rules[i] = r], 0)

DeleteRule(i) == SetDraft([draft EXCEPT !.rules = RemoveAt(@, i)], 0)

\* moveUp of the row j, moveDown of the row i.
MoveRule(i, j) ==
    /\ Neighbours(VisibleRules(draft), i, j)
    /\ SetDraft([draft EXCEPT !.rules = [@ EXCEPT ![i] = draft.rules[j], ![j] = draft.rules[i]]], 0)

DragRule(i, j) ==
    /\ i # j
    /\ SetDraft([draft EXCEPT !.rules = InsertAt(RemoveAt(@, i), j, draft.rules[i])], 0)

\* Basic Routing's lists of direct addresses: of the rules that carry the
\* list the first takes all of it and the others go; an empty list drops them
\* all, and a list no rule carries gets a rule of its own.
SetDirect ==
    \E carrying \in SUBSET {i \in VisibleRules(draft) : draft.rules[i].out = Direct}, kept \in BOOLEAN :
      LET fresh == [in |-> AnyIn, out |-> Direct, bal |-> None]
          first == IF kept THEN {i \in carrying : \A j \in carrying : i <= j} ELSE {}
          rules == IF carrying = {} THEN Append(draft.rules, fresh)
                   ELSE DropAt(draft.rules, carrying \ first)
      IN  /\ carrying = {} => kept /\ Cardinality(VisibleRules(draft)) < MaxRules
          /\ SetDraft(SyncOutbound([draft EXCEPT !.rules = rules], Direct), 0)

\* The template the server ships.
ResetDefault == \E T \in InitialTemplates : T.bals = <<>> /\ SetDraft(T, 0)

----------------------------------------------------------------------------
(* Saving (XrayPage.onSaveAll, useXraySetting.saveAll).                    *)

Normalise(T) == CleanupOrphanedLoopbacks(EnsureMissingLoopbacks(T))

\* The request may be lost; the draft is normalised all the same.
Save ==
    /\ draft # saved
    /\ DetectCycles(Normalise(draft)) = {}
    /\ draft' = Normalise(draft)
    /\ saved' \in {saved, draft'}
    /\ touched' = 0
    /\ UNCHANGED edits

EditSomething ==
    \/ AddBalancer \/ AddOutbound \/ AddRule
    \/ \E i \in DOMAIN draft.bals : EditBalancer(i) \/ DeleteBalancer(i)
    \/ \E i \in VisibleOuts(draft) : EditOutbound(i) \/ DeleteOutbound(i)
    \/ \E i \in DOMAIN draft.outs : SetFirst(i)
    \/ \E i, j \in VisibleOuts(draft) : MoveOutbound(i, j)
    \/ \E i \in VisibleRules(draft) : EditRule(i) \/ DeleteRule(i)
    \/ \E i, j \in VisibleRules(draft) : MoveRule(i, j) \/ DragRule(i, j)
    \/ RemoveWarp \/ SetDirect \/ ResetDefault

EditorNext == (edits < MaxDraftEdits /\ EditSomething) \/ Save

EditorSpec == EditorInit /\ [][EditorNext]_editorVars

----------------------------------------------------------------------------
(* Properties.                                                             *)

\* The forms insist that a tag is used once.
UniqueTags(T) ==
    /\ \A i, j \in DOMAIN T.bals : T.bals[i].tag = T.bals[j].tag => i = j
    /\ \A i, j \in VisibleOuts(T) : T.outs[i].tag = T.outs[j].tag => i = j

\* Types, and tags that are unique where the forms insist on it.
EditorTypeOK ==
    /\ draft \in Template /\ saved \in Template
    /\ edits \in 0..MaxDraftEdits /\ touched \in 0..MaxBals
    /\ UniqueTags(draft)

\* Whatever is deleted or renamed, no rule the operator sees is left naming a
\* balancer that is gone, which would stop Xray's router, or an outbound that
\* is gone, which would swallow its traffic (reference-cleanup.ts).  Only the
\* WARP dialog takes an outbound away without looking at the rules.
RulesResolve(T) ==
    \A r \in Range(T.rules) : ~IsLoop(r.in) =>
      /\ r.bal # None => r.bal \in BalancerTags(T)
      /\ r.out \in Outs => r.out \in OutboundTags(T) \cup {Warp}

\* No balancer selects or falls back to an outbound that is gone, and no
\* outbound dials through one.  WARP's deletion and Basic Routing, which looks
\* at the rules alone before it removes the direct outbound, are the exceptions.
OutboundRefsResolve(T) ==
    LET known == OutboundTags(T) \cup {Warp, Direct}
    IN  /\ \A b \in Range(T.bals) : b.sel \subseteq known /\ (b.fb \in Outs => b.fb \in known)
        /\ \A o \in Range(T.outs) : o.dialer \in Outs => o.dialer \in known

\* Xray will not start a balancer whose strategy needs an observatory that is
\* missing, and reads the wrong one when both are there (balancer-helpers.ts):
\* after every edit of any tab the observatory is the one the balancers need.
ObserverFits(T) == T.obs.kind = NeededObserver(T).kind

Consistent(T) == RulesResolve(T) /\ OutboundRefsResolve(T) /\ ObserverFits(T)

\* The template under edit resolves in all three ways, after any edit of any tab.
DraftConsistent == Consistent(draft)

\* What a balancer falls back to in the running core: through its loopback
\* outbound and the first rule that takes what comes out of it.
Reach(T, i) ==
    LET fb == T.bals[i].fb
    IN  IF IsLoop(fb) /\ fb \in OutboundTags(T)
        THEN SelectInSeq(T.bals, LAMBDA b : b.tag = LoopRuleTarget(T, fb)) ELSE 0

\* Every saved fallback to a balancer is wired: the loopback outbound is there
\* and its rule comes before any general rule, which would catch the traffic.
FallbacksWired(T) ==
    \A b \in Range(T.bals) : IsLoop(b.fb) =>
        /\ b.fb \in OutboundTags(T)
        /\ \E k \in DOMAIN T.rules :
             /\ T.rules[k].in = b.fb /\ T.rules[k].bal = Target(b.fb)
             /\ \A j \in 1..(k - 1) : T.rules[j].in \notin {AnyIn, b.fb}

\* No loopback is saved that no balancer falls back to, and no hidden rule
\* without its outbound: the operator could not see either to remove it.
NoOrphanLoopback(T) ==
    /\ \A tag \in OutboundTags(T) : IsLoop(tag) => LoopbackInUse(T, Target(tag))
    /\ \A r \in Range(T.rules) : IsLoop(r.in) => r.in \in OutboundTags(T)

\* No saved set of balancers falls back round in a circle, which would loop
\* the traffic for ever; the form alone does not prevent it, since it knows
\* the edited row by its new tag.
NoFallbackCycle(T) ==
    ~\E S \in (SUBSET DOMAIN T.bals) \ {{}} :
        \A i \in S : \E j \in S : T.bals[i].fb = Loop(T.bals[j].tag)

Wired(T) == FallbacksWired(T) /\ NoOrphanLoopback(T) /\ NoFallbackCycle(T)

\* Loopbacks and the fallbacks that need them come and go together, and never
\* close a circle, in whatever the server has been given.
LoopbacksWired == Wired(saved)

\* An edit of one balancer, of an outbound or of a rule, and the normalisation
\* of a save, leave every other balancer falling back to the same row.
OthersFallbackKept ==
    [][Len(draft'.bals) = Len(draft.bals) =>
         \A i \in DOMAIN draft.bals \ {touched'} :
           Reach(draft, i) > 0 => Reach(draft', i) = Reach(draft, i)]_editorVars

Destinationless(T) ==
    Cardinality({i \in DOMAIN T.rules : T.rules[i].out = None /\ T.rules[i].bal = None})

\* A deletion never leaves a rule without a destination that had one: such a
\* rule black-holes the traffic it matches (reference-cleanup.ts).
DeletionLeavesNoBlackHole ==
    [][Len(draft'.bals) < Len(draft.bals) \/ Len(draft'.outs) < Len(draft.outs) =>
         Destinationless(draft') <= Destinationless(draft)]_editorVars

\* What every draft keeps of the loopbacks: a hidden rule leads to the balancer
\* it is named for and nowhere else, and has its outbound.
HiddenRulesLead(T) ==
    \A r \in Range(T.rules) :
      IsLoop(r.in) => r.bal = Target(r.in) /\ r.out = None /\ r.in \in OutboundTags(T)

\* A session begins with the template the server ships, every rule of which
\* leads somewhere, or with one that earlier sessions have left.
ASSUME TemplatesAssumption ==
    \A T \in InitialTemplates :
      /\ T \in Template /\ Len(T.bals) <= MaxBals /\ UniqueTags(T)
      /\ Consistent(T) /\ HiddenRulesLead(T) /\ Wired(T)
      /\ T.bals = <<>> => Destinationless(T) = 0
=============================================================================
