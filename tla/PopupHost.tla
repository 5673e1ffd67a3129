----------------------------- MODULE PopupHost -----------------------------
(***************************************************************************)
(* The popup surface (shell/popups) over the notification service: a stack *)
(* of cards that follows the service's popup list through the lossy change *)
(* feed, and the gestures on the cards that call back into the service.    *)
(***************************************************************************)
EXTENDS Notifications, SequencesExt

CONSTANT Configs   \* [limit, newestFirst, closeRemoves] the host may be given

ASSUME ConfigsAssumption ==
  Configs \subseteq [limit : Nat, newestFirst : BOOLEAN, closeRemoves : BOOLEAN]

VARIABLES
  stack,    \* Popups.stack, top to bottom: cards keep the notification they were made from
  pointer,  \* the id of the card under the pointer, 0 for none
  cfg       \* Popups.cfg

host == <<stack, pointer, cfg>>
hostVars == <<vars, host>>

\* A card plays its exit before it leaves the stack; Popups.cards holds the
\* others.
Card == [id : Ids, stamp : Stamps, leaving : BOOLEAN]
NewCard(n) == [id |-> n.id, stamp |-> n.stamp, leaving |-> FALSE]
LiveCards(s) == {s[i] : i \in {j \in DOMAIN s : ~s[j].leaving}}
LiveIds(s)   == {c.id : c \in LiveCards(s)}

\* The newest popups, as many as the configuration shows.
Visible(c) ==
  {n \in popups : Cardinality({m \in popups : m.stamp > n.stamp}) < c.limit}

\* The cards of a set by the stamps of what they show.
ByStamp(cards, newestFirst) ==
  CHOOSE s \in SetToSeqs(cards) :
    \A i, j \in DOMAIN s : i < j => ((s[i].stamp > s[j].stamp) <=> newestFirst)

\* Mutant: the cards already there are turned around.
PlacedReversed(s, entering, newestFirst) ==
  ByStamp({NewCard(n) : n \in entering}, newestFirst) \o Reverse(s)

\* Entering cards go to the front newest first, or to the end oldest first.
Placed(s, entering, newestFirst) ==
  LET cards == ByStamp({NewCard(n) : n \in entering}, newestFirst) IN
  IF newestFirst THEN cards \o s ELSE s \o cards

\* Mutant: the limit is not applied.
ReconciledUnlimited(s, c) ==
  LET live == {n.id : n \in popups}
      kept == [i \in DOMAIN s |-> [s[i] EXCEPT !.leaving = @ \/ s[i].id \notin live]]
  IN  Placed(kept, {n \in popups : n.id \notin LiveIds(s)}, c.newestFirst)

\* sync: cards whose id is no longer visible start to leave, ids without a live
\* card get one.
Reconciled(s, c) ==
  LET live == {n.id : n \in Visible(c)}
      kept == [i \in DOMAIN s |-> [s[i] EXCEPT !.leaving = @ \/ s[i].id \notin live]]
  IN  Placed(kept, {n \in Visible(c) : n.id \notin LiveIds(s)}, c.newestFirst)

\* The pointer leaves with the card it is on.
Under(p, s) == IF p \in {s[i].id : i \in DOMAIN s} THEN p ELSE 0

\* Run: a buffered event makes the UI loop reconcile with the snapshot.
Sync ==
  /\ tick
  /\ tick' = FALSE
  /\ stack' = Reconciled(stack, cfg)
  /\ UNCHANGED <<service, storage, todo, stamp, world, pointer, cfg>>

\* dropCard: a card whose exit has played leaves the stack.
DropCard(i) ==
  /\ stack[i].leaving
  /\ stack' = RemoveAt(stack, i)
  /\ pointer' = Under(pointer, stack')
  /\ UNCHANGED <<vars, cfg>>

\* SetConfig: the stack is rebuilt from nothing.
SetConfig(c) ==
  /\ c # cfg
  /\ cfg' = c
  /\ stack' = Reconciled(<< >>, c)
  /\ pointer' = 0
  /\ UNCHANGED vars

OnStack(id) == id \in {stack[i].id : i \in DOMAIN stack}

CardOp(name, id) == [op |-> name, id |-> id]

\* closeCard: what the close button does.
CloseCard(g, id) ==
  /\ Idle(g) /\ OnStack(id)
  /\ IF cfg.closeRemoves THEN Close(g, id, "dismissed", << >>)
                         ELSE DismissPopup(g, id, << >>)
  /\ UNCHANGED host

\* invokeAction and invokeDefault, once the compositor has answered with an
\* activation token.
PressAction(g, id) ==
  /\ Idle(g) /\ OnStack(id)
  /\ Continue(g, <<CardOp("dismissPopup", id), CardOp("invoke", id),
                   CloseOp(id, "dismissed", 0)>>, << >>)
  /\ UNCHANGED <<service, storage, tick, stamp, world, host>>

PressDefault(g, id) ==
  /\ Idle(g) /\ OnStack(id)
  /\ Continue(g, <<CardOp("invoke", id),
                   IF cfg.closeRemoves THEN CloseOp(id, "dismissed", 0)
                                       ELSE CardOp("dismissPopup", id)>>, << >>)
  /\ UNCHANGED <<service, storage, tick, stamp, world, host>>

\* The pointer comes over a card and leaves it again (popup-hover-pause).
HoverOn(g, id) ==
  /\ pointer = 0 /\ OnStack(id) /\ Idle(g)
  /\ pointer' = id
  /\ InhibitPopup(g, id) \/ (~Running(timers[id]) /\ UNCHANGED vars)
  /\ UNCHANGED <<stack, cfg>>

HoverOff(g) ==
  /\ pointer # 0 /\ Idle(g)
  /\ pointer' = 0
  /\ ReleasePopup(g, pointer) \/ (~Halted(timers[pointer]) /\ UNCHANGED vars)
  /\ UNCHANGED <<stack, cfg>>

HostInit ==
  /\ Init
  /\ stack = << >>
  /\ pointer = 0
  /\ cfg \in Configs

Gesture(g) ==
  \/ \E id \in Ids : \/ CloseCard(g, id) \/ PressAction(g, id)
                     \/ PressDefault(g, id) \/ HoverOn(g, id)
  \/ HoverOff(g)

HostNext ==
  \/ \E g \in Callers : BusCall(g) /\ UNCHANGED host
  \/ \E g \in Callers : Gesture(g)
  \/ \E g \in Callbacks : Due(g) /\ UNCHANGED host
  \/ \E g \in Threads : Step(g) /\ UNCHANGED host
  \/ \E patterns \in Blocklists : SetBlocklist(patterns) /\ UNCHANGED host
  \/ Restart /\ stack' = << >> /\ pointer' = 0 /\ UNCHANGED cfg
  \/ Sync
  \/ \E i \in DOMAIN stack : DropCard(i)
  \/ \E c \in Configs : SetConfig(c)

\* The UI loop runs what it is handed, exits end, goroutines run.
HostFairness ==
  /\ \A g \in Threads : WF_hostVars(Step(g) /\ UNCHANGED host)
  /\ \A g \in Callbacks : WF_hostVars(Due(g) /\ UNCHANGED host)
  /\ WF_hostVars(Sync)
  /\ WF_hostVars(\E i \in DOMAIN stack : DropCard(i))

HostSpec == HostInit /\ [][HostNext]_hostVars /\ HostFairness

-----------------------------------------------------------------------------
\* Properties.

\* Type correctness of the surface.
HostTypeOK == stack \in Seq(Card) /\ pointer \in 0 .. MaxId /\ cfg \in Configs

\* Every popup in sight has its card and every card its popup, once the feed
\* is drained and no goroutine is under way: the lossy feed loses no change.
CardsFollowPopups ==
  Quiet /\ ~tick => LiveIds(stack) = {n.id : n \in Visible(cfg)}

\* An id has at most one live card, also while an older one plays its exit, and
\* no more cards are live than the configuration shows.
OneLiveCardPerId ==
  LET live == {i \in DOMAIN stack : ~stack[i].leaving} IN
  /\ \A i, j \in live : stack[i].id = stack[j].id => i = j
  /\ Cardinality(live) =< cfg.limit

StackIsSound == HostTypeOK /\ OneLiveCardPerId

\* The live card at i is the live card at k after the step.
Stays(i, k) == ~stack[i].leaving /\ stack[i] = stack'[k]

\* Cards that stay on screen never change places.
CardsKeepTheirOrder ==
  [][cfg' = cfg =>
       \A i, j \in DOMAIN stack : \A k, l \in DOMAIN stack' :
         i < j /\ Stays(i, k) /\ Stays(j, l) => k < l]_hostVars

=============================================================================
