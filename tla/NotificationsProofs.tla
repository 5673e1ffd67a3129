------------------------ MODULE NotificationsProofs ------------------------
(***************************************************************************)
(* What holds of Notifications, and of PopupHost over it, for every value  *)
(* of their constants.  The helper operators come first, then the type     *)
(* invariant together with the uniqueness of ids (the code's "first entry  *)
(* with this id" is only well defined because ids are unique), then the    *)
(* invariants that relate the maps of the service to its lists, and who    *)
(* may replace what and who announces what, assuming that no application   *)
(* goes by the empty name.                                                 *)
(*                                                                         *)
(* The second half is about the popup surface: that cards can be ordered   *)
(* at all, what reconciling the stack and dropping a card do to it, that   *)
(* the surface moves the service as a caller would, and from these that    *)
(* the stack is sound, keeps its order, and follows the popups.            *)
(***************************************************************************)
EXTENDS PopupHost, FiniteSetTheorems, FunctionTheorems, TLAPS

\* The ops a call appends to its goroutine are ops.
LEMMA OpIntro ==
  /\ Publish \in Op
  /\ \A n \in Notification : [op |-> "add", n |-> n] \in Op
  /\ \A n \in Notification, r \in Reasons :
       [op |-> "closed", n |-> n, reason |-> r] \in Op
  /\ \A id \in Ids : [op |-> "remove", id |-> id] \in Op
  /\ \A id \in Ids : [op |-> "invoked", id |-> id] \in Op
  /\ \A rows \in SUBSET Notification : [op |-> "sweep", rows |-> rows] \in Op
  /\ \A on \in BOOLEAN : [op |-> "saveDND", on |-> on] \in Op
  /\ \A id \in Ids, r \in Reasons, due \in 0 .. MaxStamp :
       CloseOp(id, r, due) \in Op
  /\ \A id \in Ids, tok \in Stamps :
       /\ [op |-> "expiry", id |-> id, tok |-> tok] \in Op
       /\ [op |-> "popup", id |-> id, tok |-> tok] \in Op
BY DEF Op, Publish, CloseOp

\* What an op carries is told by its name.
LEMMA OpFields ==
  ASSUME NEW o \in Op
  PROVE  /\ o.op \in {"add", "closed"} => o.n \in Notification
         /\ o.op \in {"remove", "invoked", "dismissPopup", "invoke", "close",
                      "expiry", "popup"} => o.id \in Ids
         /\ o.op = "sweep" => o.rows \in SUBSET Notification
         /\ o.op = "saveDND" => o.on \in BOOLEAN
         /\ o.op \in {"closed", "close"} => o.reason \in Reasons
         /\ o.op = "close" => o.due \in 0 .. MaxStamp
         /\ o.op \in {"expiry", "popup"} => o.tok \in Stamps
BY DEF Op

\* Continuing a goroutine with ops keeps the lists typed.
LEMMA ContinueType ==
  ASSUME todo \in [Threads -> Seq(Op)], NEW g \in Threads,
         NEW ops \in Seq(Op), NEW rest \in Seq(Op), Continue(g, ops, rest)
  PROVE  todo' \in [Threads -> Seq(Op)]
BY DEF Continue

\* Cutting the first entry with an id out of a list without duplicates leaves
\* the entries with other ids, and that entry is the only one with the id.
LEMMA WithoutUnique ==
  ASSUME NEW S, S \subseteq Notification, Unique(S), NEW id
  PROVE  /\ Without(S, id) = {n \in S : n.id # id}
         /\ WithId(S, id) # {} => /\ Newest(WithId(S, id)) \in WithId(S, id)
                                  /\ WithId(S, id) = {Newest(WithId(S, id))}
<1>1. CASE WithId(S, id) = {}
  BY <1>1 DEF Without, WithId
<1>2. CASE WithId(S, id) # {}
  <2>1. PICK n \in S : n.id = id
    BY <1>2 DEF WithId
  <2>2. WithId(S, id) = {n}
    BY <2>1 DEF WithId, Unique
  <2>3. n.stamp \in Int
    BY <2>1 DEF Notification, Stamps
  <2>4. Newest(WithId(S, id)) = n
    BY <2>2, <2>3 DEF Newest
  <2> QED
    BY <1>2, <2>1, <2>2, <2>4 DEF Without, WithId
<1> QED
  BY <1>1, <1>2

\* removeHistoryLocked on typed lists without duplicates.
LEMMA RemoveHistoryFacts ==
  ASSUME TypeOK, UniqueIds, NEW ids \in SUBSET Ids, RemoveHistory(ids)
  PROVE  /\ all' = {n \in all : n.id \notin ids}
         /\ all' \subseteq Notification
         /\ Unique(all)'
         /\ expiry' \in [Ids -> Timer({"armed", "fired"})]
         /\ owners' \in [Ids -> Names \cup {NoOwner}]
<1>1. \A id \in ids : Without(all, id) = {n \in all : n.id # id}
  BY WithoutUnique DEF TypeOK, UniqueIds
<1>2. all' = {n \in all : n.id \notin ids}
  BY <1>1 DEF RemoveHistory
<1>3. expiry' \in [Ids -> Timer({"armed", "fired"})]
  BY DEF RemoveHistory, TypeOK, Timer
<1>4. owners' \in [Ids -> Names \cup {NoOwner}]
  BY DEF RemoveHistory, TypeOK
<1> QED
  BY <1>2, <1>3, <1>4 DEF TypeOK, UniqueIds, Unique

\* dropPopupLocked on typed lists without duplicates.
LEMMA DropPopupsFacts ==
  ASSUME TypeOK, UniqueIds, NEW ids \in SUBSET Ids, DropPopups(ids)
  PROVE  /\ popups' = {n \in popups : n.id \notin ids}
         /\ popups' \subseteq Notification
         /\ Unique(popups)'
         /\ timers' \in [Ids -> Timer({"armed", "fired", "paused", "spent"})]
<1>1. \A id \in ids : Without(popups, id) = {n \in popups : n.id # id}
  BY WithoutUnique DEF TypeOK, UniqueIds
<1>2. popups' = {n \in popups : n.id \notin ids}
  BY <1>1 DEF DropPopups
<1>3. timers' \in [Ids -> Timer({"armed", "fired", "paused", "spent"})]
  BY DEF DropPopups, TypeOK, Timer
<1> QED
  BY <1>2, <1>3 DEF TypeOK, UniqueIds, Unique

-----------------------------------------------------------------------------
\* Every operation keeps the types and the uniqueness of ids.

Typed == TypeOK /\ UniqueIds

LEMMA InitTyped == Init => Typed
<1> SUFFICES ASSUME Init PROVE Typed
  OBVIOUS
<1>1. todo \in [Threads -> Seq(Op)]
  BY DEF Init
<1>2. expiry \in [Ids -> Timer({"armed", "fired"})]
      /\ timers \in [Ids -> Timer({"armed", "fired", "paused", "spent"})]
  BY DEF Init, Timer
<1>3. UniqueIds
  BY DEF Init, UniqueIds, Unique
<1>4. 0 \in 0 .. MaxId /\ 0 \in 0 .. MaxStamp /\ 0 \in 0 .. MaxCrashes
  BY BoundsAssumption
<1>5. TypeOK
  BY <1>1, <1>2, <1>4 DEF Init, TypeOK
<1> QED
  BY <1>3, <1>5 DEF Typed

\* An arrival: the new notification takes its id's place in both lists.
LEMMA NotifyTyped ==
  ASSUME Typed, NEW g \in Threads, NEW app \in Apps, NEW replaces \in 0 .. MaxId,
         NEW kind \in Kinds, Notify(g, app, replaces, kind)
  PROVE  Typed'
<1> DEFINE id == ResolvedId(app, replaces)
           n  == [id |-> id, app |-> app, stamp |-> stamp + 1, ttl |-> kind.ttl,
                  transient |-> kind.transient, resident |-> kind.resident]
<1>1. id \in Ids /\ stamp + 1 \in Stamps /\ stamp' \in 0 .. MaxStamp
  BY BoundsAssumption DEF Notify, Typed, TypeOK, Stamps
<1>2. n \in Notification
  BY <1>1, KindsAssumption DEF Notification, Names
<1>3. /\ Without(all, id) = {m \in all : m.id # id}
      /\ Without(popups, id) = {m \in popups : m.id # id}
  BY WithoutUnique DEF Typed, TypeOK, UniqueIds
<1>4. all' \subseteq Notification /\ Unique(all)'
  BY <1>2, <1>3 DEF Notify, Typed, TypeOK, UniqueIds, Unique
<1>5. popups' \subseteq Notification /\ Unique(popups)'
  BY <1>2, <1>3 DEF Notify, AddPopup, Typed, TypeOK, UniqueIds, Unique
<1>6. Armed(stamp + 1) \in Timer({"armed", "fired"})
      /\ Armed(stamp + 1) \in Timer({"armed", "fired", "paused", "spent"})
      /\ NoTimer \in Timer({"armed", "fired"})
      /\ NoTimer \in Timer({"armed", "fired", "paused", "spent"})
  BY <1>1 DEF Armed, Timer
<1>7. expiry' \in [Ids -> Timer({"armed", "fired"})]
  BY <1>6 DEF Notify, Typed, TypeOK
<1>8. timers' \in [Ids -> Timer({"armed", "fired", "paused", "spent"})]
  BY <1>6 DEF Notify, AddPopup, Typed, TypeOK
<1>9. owners' \in [Ids -> Names \cup {NoOwner}]
  BY DEF Notify, Typed, TypeOK, Names
<1>10. next' \in 0 .. MaxId
  BY <1>1 DEF Notify, ResolvedId, Typed, TypeOK, Ids
<1>11. todo' \in [Threads -> Seq(Op)]
  <2>1. /\ <<[op |-> "add", n |-> n], Publish>> \in Seq(Op)
        /\ <<[op |-> "remove", id |-> id], Publish>> \in Seq(Op)
        /\ <<Publish>> \in Seq(Op)
        /\ << >> \in Seq(Op)
    BY <1>1, <1>2, OpIntro
  <2> QED
    BY <2>1, ContinueType DEF Notify, Typed, TypeOK
<1>12. UNCHANGED <<dnd, block, disk, savedDND, tick, lapsed, closed, crashes>>
  BY DEF Notify, storage, world
<1> QED
  BY <1>1, <1>4, <1>5, <1>7, <1>8, <1>9, <1>10, <1>11, <1>12
     DEF Typed, TypeOK, UniqueIds, Unique

\* The calls that close, dismiss and invoke, also in the middle of a list.
LEMMA CloseTyped ==
  ASSUME Typed, NEW g \in Threads, NEW id \in Ids, NEW reason \in Reasons,
         NEW rest \in Seq(Op), Close(g, id, reason, rest)
  PROVE  Typed'
<1>1. all' \subseteq Notification /\ Unique(all)'
      /\ expiry' \in [Ids -> Timer({"armed", "fired"})]
      /\ owners' \in [Ids -> Names \cup {NoOwner}]
  BY RemoveHistoryFacts, {id} \in SUBSET Ids DEF Close, Typed
<1>2. popups' \subseteq Notification /\ Unique(popups)'
      /\ timers' \in [Ids -> Timer({"armed", "fired", "paused", "spent"})]
  <2>1. CASE reason = "expired"
    BY <2>1 DEF Close, Typed, TypeOK, UniqueIds, Unique
  <2>2. CASE reason # "expired"
    BY <2>2, DropPopupsFacts, {id} \in SUBSET Ids DEF Close, Typed
  <2> QED
    BY <2>1, <2>2
<1>3. todo' \in [Threads -> Seq(Op)]
  <2>1. CASE WithId(all, id) = {}
    <3>1. Continue(g, << >>, rest)
      BY <2>1 DEF Close
    <3> QED
      BY <3>1, << >> \in Seq(Op), ContinueType DEF Typed, TypeOK
  <2>2. CASE WithId(all, id) # {}
    <3> DEFINE n == Newest(WithId(all, id))
               ops == <<[op |-> "remove", id |-> id],
                        [op |-> "closed", n |-> n, reason |-> reason], Publish>>
    <3>1. n \in Notification
      BY <2>2, WithoutUnique DEF Typed, TypeOK, UniqueIds, WithId
    <3>2. ops \in Seq(Op)
      BY <3>1, OpIntro
    <3>3. Continue(g, ops, rest)
      BY <2>2 DEF Close
    <3> HIDE DEF ops
    <3> QED
      BY <3>2, <3>3, ContinueType DEF Typed, TypeOK
  <2> QED
    BY <2>1, <2>2
<1>4. UNCHANGED <<next, dnd, block, disk, savedDND, tick, stamp, lapsed, closed,
                  crashes>>
  BY DEF Close, storage, world
<1> QED
  BY <1>1, <1>2, <1>3, <1>4 DEF Typed, TypeOK, UniqueIds, Unique

LEMMA DismissAllTyped ==
  ASSUME Typed, NEW g \in Threads, DismissAll(g)
  PROVE  Typed'
<1> DEFINE ids == {n.id : n \in all}
<1>1. ids \in SUBSET Ids
  BY DEF Typed, TypeOK, Notification
<1>2. all' \subseteq Notification /\ Unique(all)'
      /\ expiry' \in [Ids -> Timer({"armed", "fired"})]
      /\ owners' \in [Ids -> Names \cup {NoOwner}]
  BY <1>1, RemoveHistoryFacts DEF DismissAll, Typed
<1>3. popups' \subseteq Notification /\ Unique(popups)'
      /\ timers' \in [Ids -> Timer({"armed", "fired", "paused", "spent"})]
  BY <1>1, DropPopupsFacts DEF DismissAll, Typed
<1>4. todo' \in [Threads -> Seq(Op)]
  <2>1. << >> \in Seq(Op) /\ <<[op |-> "sweep", rows |-> all]>> \in Seq(Op)
    BY OpIntro DEF Typed, TypeOK
  <2> QED
    BY <2>1, ContinueType DEF DismissAll, Typed, TypeOK
<1>5. UNCHANGED <<next, dnd, block, disk, savedDND, tick, stamp, lapsed, closed,
                  crashes>>
  BY DEF DismissAll, storage, world
<1> QED
  BY <1>2, <1>3, <1>4, <1>5 DEF Typed, TypeOK, UniqueIds, Unique

LEMMA DismissPopupTyped ==
  ASSUME Typed, NEW g \in Threads, NEW id \in Ids, NEW rest \in Seq(Op),
         DismissPopup(g, id, rest)
  PROVE  Typed'
<1>1. popups' \subseteq Notification /\ Unique(popups)'
      /\ timers' \in [Ids -> Timer({"armed", "fired", "paused", "spent"})]
  BY DropPopupsFacts, {id} \in SUBSET Ids DEF DismissPopup, Typed
<1>2. todo' \in [Threads -> Seq(Op)]
  <2>1. << >> \in Seq(Op) /\ <<Publish>> \in Seq(Op)
    BY OpIntro
  <2> QED
    BY <2>1, ContinueType DEF DismissPopup, Typed, TypeOK
<1>3. UNCHANGED <<next, all, expiry, owners, dnd, block, disk, savedDND, tick,
                  stamp, lapsed, closed, crashes>>
  BY DEF DismissPopup, storage, world
<1> QED
  BY <1>1, <1>2, <1>3 DEF Typed, TypeOK, UniqueIds, Unique

LEMMA InvokeActionTyped ==
  ASSUME Typed, NEW g \in Threads, NEW id \in Ids, NEW rest \in Seq(Op),
         InvokeAction(g, id, rest)
  PROVE  Typed'
<1> DEFINE found    == Found(id)
           resident == found # {} /\ Newest(found).resident
           close    == IF resident THEN << >> ELSE <<CloseOp(id, "closedCall", 0)>>
           ops      == <<[op |-> "invoked", id |-> id]>> \o close \o <<Publish>>
<1>1. close \in Seq(Op)
  <2>1. 0 \in 0 .. MaxStamp /\ "closedCall" \in Reasons
    BY BoundsAssumption DEF Reasons
  <2> QED
    BY <2>1, OpIntro
<1>2. ops \in Seq(Op)
  <2>1. <<[op |-> "invoked", id |-> id]>> \in Seq(Op) /\ <<Publish>> \in Seq(Op)
    BY OpIntro
  <2> HIDE DEF close
  <2> QED
    BY <1>1, <2>1
<1>3. todo' \in [Threads -> Seq(Op)]
  <2>1. Continue(g, IF owners[id] = NoOwner THEN << >> ELSE ops, rest)
    BY DEF InvokeAction
  <2>2. (IF owners[id] = NoOwner THEN << >> ELSE ops) \in Seq(Op)
    BY <1>2
  <2> QED
    BY <2>1, <2>2, ContinueType DEF Typed, TypeOK
<1>4. UNCHANGED <<service, disk, savedDND, tick, stamp, lapsed, closed, crashes>>
  BY DEF InvokeAction, storage, world
<1> QED
  BY <1>3, <1>4 DEF service, Typed, TypeOK, UniqueIds, Unique

\* The pointer on a card, and timers that run out.
LEMMA InhibitPopupTyped ==
  ASSUME Typed, NEW g \in Threads, NEW id \in Ids, InhibitPopup(g, id)
  PROVE  Typed'
<1>1. PICK left \in {"paused", "spent"} :
         timers' = [timers EXCEPT ![id].state = left]
  BY DEF InhibitPopup
<1>2. timers[id].tok \in Stamps
  BY DEF InhibitPopup, Running, Typed, TypeOK, Timer, NoTimer
<1>3. timers' \in [Ids -> Timer({"armed", "fired", "paused", "spent"})]
  <2>1. timers[id] \in [tok : Stamps,
                        state : {"armed", "fired", "paused", "spent"}]
    BY DEF InhibitPopup, Running, Typed, TypeOK, Timer, NoTimer
  <2>2. [timers[id] EXCEPT !.state = left]
          \in Timer({"armed", "fired", "paused", "spent"})
    BY <1>1, <2>1 DEF Timer
  <2> QED
    BY <1>1, <2>2 DEF Typed, TypeOK
<1>4. UNCHANGED <<next, all, expiry, popups, owners, dnd, block, disk, savedDND,
                  todo, tick, stamp, lapsed, closed, crashes>>
  BY DEF InhibitPopup, storage, world
<1> QED
  BY <1>3, <1>4 DEF Typed, TypeOK, UniqueIds, Unique

LEMMA ReleasePopupTyped ==
  ASSUME Typed, NEW g \in Threads, NEW id \in Ids, ReleasePopup(g, id)
  PROVE  Typed'
<1>1. UNCHANGED <<next, all, expiry, owners, dnd, block, disk, savedDND, tick,
                  lapsed, closed, crashes>>
  BY DEF ReleasePopup, storage, world
<1>2. CASE timers[id].state = "spent"
  <2>1. popups' \subseteq Notification /\ Unique(popups)'
        /\ timers' \in [Ids -> Timer({"armed", "fired", "paused", "spent"})]
    BY <1>2, DropPopupsFacts, {id} \in SUBSET Ids DEF ReleasePopup, Typed
  <2>2. todo' \in [Threads -> Seq(Op)]
    <3>1. << >> \in Seq(Op) /\ <<Publish>> \in Seq(Op)
      BY OpIntro
    <3> QED
      BY <1>2, <3>1, ContinueType DEF ReleasePopup, Typed, TypeOK
  <2>3. UNCHANGED stamp
    BY <1>2 DEF ReleasePopup
  <2> QED
    BY <1>1, <2>1, <2>2, <2>3 DEF Typed, TypeOK, UniqueIds, Unique
<1>3. CASE timers[id].state # "spent"
  <2>1. /\ stamp < MaxStamp
        /\ stamp' = stamp + 1
        /\ timers' = [timers EXCEPT ![id] = Armed(stamp')]
        /\ UNCHANGED <<popups, todo>>
    BY <1>3 DEF ReleasePopup
  <2>2. stamp' \in Stamps /\ stamp' \in 0 .. MaxStamp
    BY <2>1, BoundsAssumption DEF Typed, TypeOK, Stamps
  <2>3. timers' \in [Ids -> Timer({"armed", "fired", "paused", "spent"})]
    BY <2>1, <2>2 DEF Typed, TypeOK, Timer, Armed
  <2> QED
    BY <1>1, <2>1, <2>2, <2>3 DEF Typed, TypeOK, UniqueIds, Unique
<1> QED
  BY <1>2, <1>3

LEMMA DueTyped ==
  ASSUME Typed, NEW g \in Threads, Due(g)
  PROVE  Typed'
<1>1. PICK id \in Ids : PopupDue(g, id) \/ ExpiryDue(g, id)
  BY DEF Due
<1>2. CASE PopupDue(g, id)
  <2>1. timers[id] \in [tok : Stamps,
                        state : {"armed", "fired", "paused", "spent"}]
    BY <1>2 DEF PopupDue, Typed, TypeOK, Timer, NoTimer
  <2>2. timers' \in [Ids -> Timer({"armed", "fired", "paused", "spent"})]
    <3>1. [timers[id] EXCEPT !.state = "fired"]
            \in Timer({"armed", "fired", "paused", "spent"})
      BY <2>1 DEF Timer
    <3> QED
      BY <1>2, <3>1 DEF PopupDue, Typed, TypeOK
  <2>3. <<[op |-> "popup", id |-> id, tok |-> timers[id].tok]>> \in Seq(Op)
        /\ << >> \in Seq(Op)
    <3>1. timers[id].tok \in Stamps
      BY <2>1
    <3>2. [op |-> "popup", id |-> id, tok |-> timers[id].tok] \in Op
      BY <3>1, OpIntro
    <3> QED
      BY <3>2
  <2>4. todo' \in [Threads -> Seq(Op)]
    BY <1>2, <2>3, ContinueType DEF PopupDue, Typed, TypeOK
  <2>5. UNCHANGED <<next, all, expiry, popups, owners, dnd, block, disk, savedDND,
                    tick, stamp, lapsed, closed, crashes>>
    BY <1>2 DEF PopupDue, storage, world
  <2> QED
    BY <2>2, <2>4, <2>5 DEF Typed, TypeOK, UniqueIds, Unique
<1>3. CASE ExpiryDue(g, id)
  <2>1. expiry[id] \in [tok : Stamps, state : {"armed", "fired"}]
    BY <1>3 DEF ExpiryDue, Typed, TypeOK, Timer, NoTimer
  <2>2. expiry' \in [Ids -> Timer({"armed", "fired"})]
    <3>1. [expiry[id] EXCEPT !.state = "fired"] \in Timer({"armed", "fired"})
      BY <2>1 DEF Timer
    <3> QED
      BY <1>3, <3>1 DEF ExpiryDue, Typed, TypeOK
  <2>3. <<[op |-> "expiry", id |-> id, tok |-> expiry[id].tok]>> \in Seq(Op)
        /\ << >> \in Seq(Op)
    <3>1. expiry[id].tok \in Stamps
      BY <2>1
    <3>2. [op |-> "expiry", id |-> id, tok |-> expiry[id].tok] \in Op
      BY <3>1, OpIntro
    <3> QED
      BY <3>2
  <2>4. todo' \in [Threads -> Seq(Op)]
    BY <1>3, <2>3, ContinueType DEF ExpiryDue, Typed, TypeOK
  <2>5. UNCHANGED <<next, all, timers, popups, owners, dnd, block, disk, savedDND,
                    tick, stamp, lapsed, closed, crashes>>
    BY <1>3 DEF ExpiryDue, storage, world
  <2> QED
    BY <2>2, <2>4, <2>5 DEF Typed, TypeOK, UniqueIds, Unique
<1> QED
  BY <1>1, <1>2, <1>3

\* The callbacks of timers, do not disturb and the block list.
LEMMA FiredTyped ==
  ASSUME Typed, NEW g \in Threads, NEW id \in Ids, NEW tok \in Stamps,
         NEW rest \in Seq(Op),
         PopupFired(g, id, tok, rest) \/ ExpiryFired(g, id, tok, rest)
  PROVE  Typed'
<1>1. ASSUME NEW ops \in Seq(Op), Continue(g, ops, rest),
             UNCHANGED <<service, storage, tick, stamp, world>>
      PROVE  Typed'
  <2>1. todo' \in [Threads -> Seq(Op)]
    BY <1>1, ContinueType DEF Typed, TypeOK
  <2> QED
    BY <1>1, <2>1 DEF service, storage, world, Typed, TypeOK, UniqueIds, Unique
<1>2. CASE PopupFired(g, id, tok, rest)
  <2>1. << >> \in Seq(Op)
    OBVIOUS
  <2> QED
    BY <1>1, <1>2, <2>1, DismissPopupTyped DEF PopupFired
<1>3. CASE ExpiryFired(g, id, tok, rest)
  <2>1. tok \in 0 .. MaxStamp /\ "expired" \in Reasons
    BY BoundsAssumption DEF Stamps, Reasons
  <2>2. << >> \in Seq(Op) /\ <<CloseOp(id, "expired", tok)>> \in Seq(Op)
    BY <2>1, OpIntro
  <2> QED
    BY <1>1, <1>3, <2>2 DEF ExpiryFired
<1> QED
  BY <1>2, <1>3

LEMMA FlagsTyped ==
  ASSUME Typed,
         \/ \E g \in Threads, on \in BOOLEAN : SetDND(g, on)
         \/ \E patterns \in Blocklists : SetBlocklist(patterns)
  PROVE  Typed'
<1>1. ASSUME NEW g \in Threads, NEW on \in BOOLEAN, SetDND(g, on)
      PROVE  Typed'
  <2>1. <<[op |-> "saveDND", on |-> on], Publish>> \in Seq(Op)
        /\ << >> \in Seq(Op)
    BY OpIntro
  <2>2. todo' \in [Threads -> Seq(Op)]
    BY <1>1, <2>1, ContinueType DEF SetDND, Typed, TypeOK
  <2> QED
    BY <1>1, <2>2 DEF SetDND, storage, world, Typed, TypeOK, UniqueIds, Unique
<1>2. ASSUME NEW patterns \in Blocklists, SetBlocklist(patterns)
      PROVE  Typed'
  BY <1>2 DEF SetBlocklist, storage, world, Typed, TypeOK, UniqueIds, Unique
<1> QED
  BY <1>1, <1>2

\* What a goroutine does with the mutex released.
LEMMA EffectTyped ==
  ASSUME Typed, NEW g \in Threads, NEW o \in Op, NEW rest \in Seq(Op),
         \/ o.op = "add"      /\ StoreAdd(g, o.n, rest)
         \/ o.op = "remove"   /\ StoreRemove(g, o.id, rest)
         \/ o.op = "closed"   /\ EmitClosed(g, o.n, rest)
         \/ o.op = "publish"  /\ PublishEvent(g, rest)
         \/ o.op = "invoked"  /\ EmitInvoked(g, rest)
         \/ o.op = "saveDND"  /\ SaveDND(g, o.on, rest)
  PROVE  Typed'
<1>1. Continue(g, << >>, rest)
  BY DEF StoreAdd, StoreRemove, EmitClosed, PublishEvent, EmitInvoked, SaveDND
<1>2. todo' \in [Threads -> Seq(Op)]
  BY <1>1, << >> \in Seq(Op), ContinueType DEF Typed, TypeOK
<1>3. UNCHANGED <<service, stamp, lapsed, crashes>>
  BY DEF StoreAdd, StoreRemove, EmitClosed, PublishEvent, EmitInvoked, SaveDND,
         world
<1>4. disk' \subseteq Notification /\ Unique(disk)'
  BY OpFields DEF StoreAdd, StoreRemove, EmitClosed, PublishEvent, EmitInvoked,
     SaveDND, storage, Typed, TypeOK, UniqueIds, Unique
<1>5. savedDND' \in BOOLEAN /\ tick' \in BOOLEAN /\ closed' \subseteq Notification
  BY OpFields DEF StoreAdd, StoreRemove, EmitClosed, PublishEvent, EmitInvoked,
     SaveDND, storage, world, Typed, TypeOK
<1> QED
  BY <1>2, <1>3, <1>4, <1>5 DEF service, Typed, TypeOK, UniqueIds, Unique

LEMMA SweepTyped ==
  ASSUME Typed, NEW g \in Threads, NEW rows \in SUBSET Notification,
         NEW rest \in Seq(Op), Sweep(g, rows, rest)
  PROVE  Typed'
<1> DEFINE said(n) ==
             <<[op |-> "closed", n |-> n, reason |-> "dismissed"], Publish>>
           left(n) == IF rows = {n} THEN << >>
                      ELSE <<[op |-> "sweep", rows |-> rows \ {n}]>>
<1>1. PICK n \in rows : /\ disk' = {r \in disk : r.id # n.id}
                        /\ Continue(g, said(n) \o left(n), rest)
  BY DEF Sweep
<1>2. said(n) \in Seq(Op)
  <2>1. "dismissed" \in Reasons
    BY DEF Reasons
  <2> QED
    BY <2>1, OpIntro
<1>3. left(n) \in Seq(Op)
  <2>1. [op |-> "sweep", rows |-> rows \ {n}] \in Op
    BY rows \ {n} \in SUBSET Notification, OpIntro
  <2> QED
    BY <2>1
<1>4. todo' \in [Threads -> Seq(Op)]
  <2> HIDE DEF said, left
  <2>1. said(n) \o left(n) \in Seq(Op)
    BY <1>2, <1>3
  <2> QED
    BY <1>1, <2>1, ContinueType DEF Typed, TypeOK
<1>5. UNCHANGED <<service, savedDND, tick, stamp, lapsed, closed, crashes>>
  BY DEF Sweep, world
<1> QED
  BY <1>1, <1>4, <1>5 DEF service, Typed, TypeOK, UniqueIds, Unique

LEMMA StepTyped ==
  ASSUME Typed, NEW g \in Threads, Step(g)
  PROVE  Typed'
<1> DEFINE o == Head(todo[g])  rest == Tail(todo[g])
<1>1. o \in Op /\ rest \in Seq(Op)
  BY DEF Step, Idle, Typed, TypeOK
<1> USE <1>1
<1>2. CASE \/ o.op = "add"      /\ StoreAdd(g, o.n, rest)
           \/ o.op = "remove"   /\ StoreRemove(g, o.id, rest)
           \/ o.op = "closed"   /\ EmitClosed(g, o.n, rest)
           \/ o.op = "publish"  /\ PublishEvent(g, rest)
           \/ o.op = "invoked"  /\ EmitInvoked(g, rest)
           \/ o.op = "saveDND"  /\ SaveDND(g, o.on, rest)
  BY <1>2, EffectTyped
<1>3. CASE o.op = "sweep" /\ Sweep(g, o.rows, rest)
  BY <1>3, SweepTyped, OpFields
<1>4. CASE o.op = "close" /\ Close(g, o.id, o.reason, rest)
  BY <1>4, CloseTyped, OpFields
<1>5. CASE o.op = "dismissPopup" /\ DismissPopup(g, o.id, rest)
  BY <1>5, DismissPopupTyped, OpFields
<1>6. CASE o.op = "invoke" /\ InvokeAction(g, o.id, rest)
  BY <1>6, InvokeActionTyped, OpFields
<1>7. CASE o.op = "expiry" /\ ExpiryFired(g, o.id, o.tok, rest)
  BY <1>7, FiredTyped, OpFields
<1>8. CASE o.op = "popup" /\ PopupFired(g, o.id, o.tok, rest)
  BY <1>8, FiredTyped, OpFields
<1> QED
  BY <1>2, <1>3, <1>4, <1>5, <1>6, <1>7, <1>8 DEF Step

\* A restart reads back rows that were typed and unique.
LEMMA RestartTyped ==
  ASSUME Typed, Restart
  PROVE  Typed'
<1>1. all' \subseteq disk /\ lapsed' \subseteq Notification
  BY DEF Restart, Typed, TypeOK
<1>2. all' \subseteq Notification /\ Unique(all)'
  BY <1>1 DEF Typed, TypeOK, UniqueIds, Unique
<1>3. \A id \in Ids : WithId(all', id) # {} =>
        Newest(WithId(all', id)) \in all'
  BY <1>2, WithoutUnique DEF WithId, Unique
<1>4. expiry' \in [Ids -> Timer({"armed", "fired"})]
  <2>1. \A id \in Ids :
          (IF \E n \in WithId(all', id) : n.ttl = "timed"
           THEN Armed(Newest(WithId(all', id)).stamp) ELSE NoTimer)
             \in Timer({"armed", "fired"})
    BY <1>2, <1>3 DEF Armed, Timer, Notification
  <2> QED
    BY <2>1 DEF Restart, Rearmed
<1>5. owners' \in [Ids -> Names \cup {NoOwner}]
  <2>1. \A id \in Ids :
          (IF \E n \in WithId(all', id) : n.app # NoName
           THEN Newest(WithId(all', id)).app ELSE NoOwner)
             \in Names \cup {NoOwner}
    BY <1>2, <1>3 DEF Notification
  <2> QED
    BY <2>1 DEF Restart
<1>6. popups' \subseteq Notification /\ Unique(popups)'
      /\ timers' \in [Ids -> Timer({"armed", "fired", "paused", "spent"})]
  BY DEF Restart, Unique, Timer
<1>7. todo' \in [Threads -> Seq(Op)]
  BY DEF Restart
<1>8. next' \in 0 .. MaxId /\ crashes' \in 0 .. MaxCrashes
  <2>1. crashes < MaxCrashes /\ crashes' = crashes + 1
        /\ \E i \in 0 .. MaxId : next' = i
    BY DEF Restart
  <2> QED
    BY <2>1, BoundsAssumption DEF Typed, TypeOK
<1>9. /\ dnd' \in BOOLEAN /\ tick' \in BOOLEAN
      /\ closed' \subseteq Notification
      /\ UNCHANGED <<block, disk, savedDND, stamp>>
  BY DEF Restart, storage, Typed, TypeOK
<1> QED
  BY <1>1, <1>2, <1>4, <1>5, <1>6, <1>7, <1>8, <1>9
     DEF Typed, TypeOK, UniqueIds, Unique

LEMMA CallTyped ==
  ASSUME Typed, NEW g \in Threads, Call(g)
  PROVE  Typed'
<1>1. << >> \in Seq(Op) /\ {"dismissed", "closedCall"} \subseteq Reasons
  BY DEF Reasons
<1>2. ASSUME NEW app \in Apps, NEW replaces \in 0 .. MaxId,
             NotifyBlocked(g, app, replaces)
      PROVE  Typed'
  <2>1. next' \in 0 .. MaxId
    BY <1>2 DEF NotifyBlocked, ResolvedId, Ids, Typed, TypeOK
  <2> QED
    BY <1>2, <2>1 DEF NotifyBlocked, storage, world, Typed, TypeOK, UniqueIds,
       Unique
<1>3. ASSUME ToggleDND(g) PROVE Typed'
  BY <1>3, FlagsTyped DEF ToggleDND, Typed, TypeOK
<1> QED
  BY <1>1, <1>2, <1>3, NotifyTyped, CloseTyped, DismissPopupTyped,
     InvokeActionTyped, InhibitPopupTyped, ReleasePopupTyped, DismissAllTyped,
     FlagsTyped DEF Call, BusCall, CardCall

LEMMA NextTyped == Typed /\ [Next]_vars => Typed'
<1> SUFFICES ASSUME Typed, [Next]_vars PROVE Typed'
  OBVIOUS
<1>1. ASSUME NEW g \in Callers, Call(g) PROVE Typed'
  BY <1>1, CallTyped DEF Threads
<1>2. ASSUME NEW g \in Callbacks, Due(g) PROVE Typed'
  BY <1>2, DueTyped DEF Threads
<1>3. ASSUME NEW g \in Threads, Step(g) PROVE Typed'
  BY <1>3, StepTyped
<1>4. CASE \E patterns \in Blocklists : SetBlocklist(patterns)
  BY <1>4, FlagsTyped
<1>5. CASE Restart
  BY <1>5, RestartTyped
<1>6. CASE UNCHANGED vars
  BY <1>6 DEF vars, service, storage, world, Typed, TypeOK, UniqueIds, Unique
<1> QED
  BY <1>1, <1>2, <1>3, <1>4, <1>5, <1>6 DEF Next

\* The service's state, the store and every goroutine's list keep their types.
THEOREM Typing == Spec => []TypeOK
<1>1. Typed => TypeOK
  BY DEF Typed
<1> QED
  BY <1>1, InitTyped, NextTyped, PTL DEF Spec

\* Replacing, closing, dismissing, restoring: no two entries of the history, the
\* popups or the store ever share an id.
THEOREM IdsAreUnique == Spec => []UniqueIds
<1>1. Typed => UniqueIds
  BY DEF Typed
<1> QED
  BY <1>1, InitTyped, NextTyped, PTL DEF Spec

-----------------------------------------------------------------------------
\* The maps of the service follow its lists.

Coherent == StoredIsOwned /\ CountdownPerPopup /\ ExpiryPerEntry

LEMMA InitCoherent == Init => Coherent
BY DEF Init, Coherent, StoredIsOwned, CountdownPerPopup, ExpiryPerEntry, WithId

\* removeHistoryLocked takes an entry, its owner and its expiry together.
LEMMA RemoveHistoryCoherent ==
  ASSUME Typed, Coherent, NEW ids \in SUBSET Ids, RemoveHistory(ids)
  PROVE  StoredIsOwned' /\ ExpiryPerEntry'
<1>1. all' = {n \in all : n.id \notin ids}
  BY RemoveHistoryFacts DEF Typed
<1>2. \A n \in all : n.id \in Ids
  BY DEF Typed, TypeOK, Notification
<1>3. StoredIsOwned'
  BY <1>1, <1>2 DEF RemoveHistory, Coherent, StoredIsOwned, OwnerName
<1>4. ExpiryPerEntry'
  BY <1>1, <1>2 DEF RemoveHistory, Coherent, ExpiryPerEntry, WithId
<1> QED
  BY <1>3, <1>4

\* dropPopupLocked takes a popup and its countdown together.
LEMMA DropPopupsCoherent ==
  ASSUME Typed, Coherent, NEW ids \in SUBSET Ids, DropPopups(ids)
  PROVE  CountdownPerPopup'
<1>1. popups' = {n \in popups : n.id \notin ids}
  BY DropPopupsFacts DEF Typed
<1> QED
  BY <1>1 DEF DropPopups, Coherent, CountdownPerPopup, WithId

LEMMA NotifyCoherent ==
  ASSUME Typed, Coherent, NEW g \in Threads, NEW app \in Apps,
         NEW replaces \in 0 .. MaxId, NEW kind \in Kinds,
         Notify(g, app, replaces, kind)
  PROVE  Coherent'
<1> DEFINE id == ResolvedId(app, replaces)
           n  == [id |-> id, app |-> app, stamp |-> stamp + 1, ttl |-> kind.ttl,
                  transient |-> kind.transient, resident |-> kind.resident]
           kept == {m \in all : m.id # id}
<1>1. id \in Ids /\ n.id = id /\ n.app = app /\ n.stamp = stamp + 1
      /\ n.ttl = kind.ttl /\ n.transient = kind.transient
      /\ stamp + 1 \in Stamps
  <2>1. id \in Ids /\ stamp < MaxStamp
    BY DEF Notify
  <2>2. stamp + 1 \in Stamps
    BY <2>1, BoundsAssumption DEF Typed, TypeOK, Stamps
  <2> QED
    BY <2>1, <2>2
<1>2. /\ Without(all, id) = kept
      /\ Without(popups, id) = {m \in popups : m.id # id}
  BY WithoutUnique DEF Typed, TypeOK, UniqueIds
<1>3. all' = IF n.transient THEN kept ELSE kept \cup {n}
  BY <1>2 DEF Notify
<1>4. \A m \in all \cup popups : m.id \in Ids
  BY DEF Typed, TypeOK, Notification
<1>5. StoredIsOwned'
  <2>1. owners' = [owners EXCEPT ![id] = app]
    BY DEF Notify
  <2>2. app # NoOwner
    BY NamesAssumption
  <2> HIDE DEF n, id
  <2> QED
    BY <1>1, <1>3, <1>4, <2>1, <2>2
       DEF Coherent, StoredIsOwned, OwnerName, Typed, TypeOK
<1>6. ExpiryPerEntry'
  <2>1. expiry' = [expiry EXCEPT ![id] =
          IF ~n.transient /\ n.ttl = "timed" THEN Armed(n.stamp) ELSE NoTimer]
    BY DEF Notify
  <2>2. Armed(n.stamp) # NoTimer /\ Armed(n.stamp).tok = n.stamp
    BY DEF Armed, NoTimer
  <2> HIDE DEF n, id
  <2> QED
    BY <1>1, <1>3, <1>4, <2>1, <2>2
       DEF Coherent, ExpiryPerEntry, WithId, Typed, TypeOK
<1>7. CountdownPerPopup'
  <2>1. CASE dnd
    BY <2>1 DEF Notify, AddPopup, Coherent, CountdownPerPopup
  <2>2. CASE ~dnd
    <3>1. /\ popups' = {m \in popups : m.id # id} \cup {n}
          /\ timers' = [timers EXCEPT ![id] =
               IF n.ttl = "sticky" THEN NoTimer ELSE Armed(n.stamp)]
      BY <1>2, <2>2 DEF Notify, AddPopup
    <3>2. Armed(n.stamp) # NoTimer
      BY DEF Armed, NoTimer
    <3> HIDE DEF n, id
    <3> QED
      BY <1>1, <1>4, <3>1, <3>2
         DEF Coherent, CountdownPerPopup, WithId, Typed, TypeOK
  <2> QED
    BY <2>1, <2>2
<1> QED
  BY <1>5, <1>6, <1>7 DEF Coherent

\* Calls that only take things out of the lists.
LEMMA DepartureCoherent ==
  ASSUME Typed, Coherent, NEW g \in Threads, NEW rest,
         \/ \E id \in Ids, reason \in Reasons : Close(g, id, reason, rest)
         \/ DismissAll(g)
         \/ \E id \in Ids : DismissPopup(g, id, rest)
  PROVE  Coherent'
<1>1. ASSUME NEW id \in Ids, NEW reason \in Reasons, Close(g, id, reason, rest)
      PROVE  Coherent'
  <2>1. {id} \in SUBSET Ids
    OBVIOUS
  <2>2. StoredIsOwned' /\ ExpiryPerEntry'
    BY <1>1, <2>1, RemoveHistoryCoherent DEF Close
  <2>3. CountdownPerPopup'
    <3>1. CASE reason = "expired"
      BY <1>1, <3>1 DEF Close, Coherent, CountdownPerPopup
    <3>2. CASE reason # "expired"
      BY <1>1, <2>1, <3>2, DropPopupsCoherent DEF Close
    <3> QED
      BY <3>1, <3>2
  <2> QED
    BY <2>2, <2>3 DEF Coherent
<1>2. CASE DismissAll(g)
  <2>1. {n.id : n \in all} \in SUBSET Ids
    BY DEF Typed, TypeOK, Notification
  <2> QED
    BY <1>2, <2>1, RemoveHistoryCoherent, DropPopupsCoherent
       DEF DismissAll, Coherent
<1>3. ASSUME NEW id \in Ids, DismissPopup(g, id, rest)
      PROVE  Coherent'
  <2>1. CountdownPerPopup'
    BY <1>3, {id} \in SUBSET Ids, DropPopupsCoherent DEF DismissPopup
  <2> QED
    BY <1>3, <2>1 DEF DismissPopup, Coherent, StoredIsOwned, ExpiryPerEntry,
       OwnerName
<1> QED
  BY <1>1, <1>2, <1>3

\* Steps that change the state of a timer never make it appear or vanish.
LEMMA TimerStateCoherent ==
  ASSUME Typed, Coherent, NEW g \in Threads, NEW id \in Ids,
         \/ InhibitPopup(g, id) \/ ReleasePopup(g, id)
         \/ PopupDue(g, id) \/ ExpiryDue(g, id)
  PROVE  Coherent'
<1>1. CASE InhibitPopup(g, id) \/ PopupDue(g, id)
  <2>1. PICK new : timers' = [timers EXCEPT ![id].state = new] /\ new # "none"
    BY <1>1 DEF InhibitPopup, PopupDue
  <2>2. timers[id] # NoTimer
    BY <1>1 DEF InhibitPopup, PopupDue, Running, NoTimer
  <2>3. timers[id] \in [tok : Stamps,
                        state : {"armed", "fired", "paused", "spent"}]
    BY <2>2 DEF Typed, TypeOK, Timer
  <2>4. timers'[id] # NoTimer /\ \A i \in Ids \ {id} : timers'[i] = timers[i]
    BY <2>1, <2>3 DEF NoTimer, Typed, TypeOK
  <2>5. UNCHANGED <<all, expiry, owners, popups>>
    BY <1>1 DEF InhibitPopup, PopupDue
  <2> QED
    BY <2>2, <2>4, <2>5 DEF Coherent, StoredIsOwned, ExpiryPerEntry,
       CountdownPerPopup, OwnerName
<1>2. CASE ReleasePopup(g, id)
  <2>1. UNCHANGED <<all, expiry, owners>>
    BY <1>2 DEF ReleasePopup
  <2>2. CASE timers[id].state = "spent"
    <3>1. DropPopups({id})
      BY <1>2, <2>2 DEF ReleasePopup
    <3>2. CountdownPerPopup'
      BY <3>1, {id} \in SUBSET Ids, DropPopupsCoherent
    <3> QED
      BY <2>1, <3>2 DEF Coherent, StoredIsOwned, ExpiryPerEntry, OwnerName
  <2>3. CASE timers[id].state # "spent"
    <3>1. timers' = [timers EXCEPT ![id] = Armed(stamp')] /\ popups' = popups
      BY <1>2, <2>3 DEF ReleasePopup
    <3>2. timers[id] # NoTimer /\ Armed(stamp') # NoTimer
      BY <1>2 DEF ReleasePopup, Halted, NoTimer, Armed
    <3>3. \A i \in Ids : timers'[i] # NoTimer <=> timers[i] # NoTimer
      BY <3>1, <3>2 DEF Typed, TypeOK
    <3> QED
      BY <2>1, <3>1, <3>3 DEF Coherent, StoredIsOwned, ExpiryPerEntry,
         CountdownPerPopup, OwnerName
  <2> QED
    BY <2>2, <2>3
<1>3. CASE ExpiryDue(g, id)
  <2>1. expiry' = [expiry EXCEPT ![id].state = "fired"]
        /\ UNCHANGED <<all, owners, popups, timers>>
    BY <1>3 DEF ExpiryDue
  <2>2. expiry[id] \in [tok : Stamps, state : {"armed", "fired"}]
    BY <1>3 DEF ExpiryDue, Typed, TypeOK, Timer, NoTimer
  <2>3. \A i \in Ids : /\ expiry'[i] # NoTimer <=> expiry[i] # NoTimer
                       /\ expiry'[i].tok = expiry[i].tok
    BY <2>1, <2>2 DEF NoTimer, Typed, TypeOK
  <2> QED
    BY <2>1, <2>3 DEF Coherent, StoredIsOwned, ExpiryPerEntry,
       CountdownPerPopup, OwnerName
<1> QED
  BY <1>1, <1>2, <1>3

\* A restart rebuilds the maps from the restored rows.
LEMMA RestartCoherent ==
  ASSUME Typed, Restart
  PROVE  Coherent'
<1>1. all' \subseteq Notification /\ Unique(all')
  BY DEF Restart, Typed, TypeOK, UniqueIds, Unique
<1>2. ASSUME NEW n \in all'
      PROVE  /\ n.id \in Ids /\ n.app \in Names /\ n.stamp \in Stamps
             /\ n \in WithId(all', n.id)
             /\ WithId(all', n.id) = {n}
             /\ Newest(WithId(all', n.id)) = n
  <2>1. n \in WithId(all', n.id)
    BY DEF WithId
  <2>2. WithId(all', n.id) = {n}
    BY <1>1, <2>1 DEF WithId, Unique
  <2> QED
    BY <1>1, <2>1, <2>2, WithoutUnique DEF Notification
<1>3. StoredIsOwned'
  <2>1. ASSUME NEW n \in all'
        PROVE  owners'[n.id] = IF n.app # NoName THEN n.app ELSE NoOwner
    BY <1>2 DEF Restart
  <2>2. NoOwner \notin Names
    BY NamesAssumption DEF Names
  <2> QED
    BY <1>2, <2>1, <2>2 DEF StoredIsOwned, OwnerName
<1>4. ExpiryPerEntry'
  <2>1. ASSUME NEW n \in all'
        PROVE  expiry'[n.id] = IF n.ttl = "timed" THEN Armed(n.stamp) ELSE NoTimer
    BY <1>2 DEF Restart, Rearmed
  <2>2. ASSUME NEW id \in Ids, expiry'[id] # NoTimer
        PROVE  \E n \in WithId(all', id) : n.ttl = "timed"
    BY <2>2 DEF Restart, Rearmed
  <2>3. \A n \in all' : Armed(n.stamp).tok = n.stamp
    BY DEF Armed
  <2> QED
    BY <1>2, <2>1, <2>2, <2>3 DEF ExpiryPerEntry, WithId
<1>5. CountdownPerPopup'
  BY DEF Restart, CountdownPerPopup, WithId
<1> QED
  BY <1>3, <1>4, <1>5 DEF Coherent

LEMMA NextCoherent == Typed /\ Coherent /\ [Next]_vars => Coherent'
<1> SUFFICES ASSUME Typed, Coherent, [Next]_vars PROVE Coherent'
  OBVIOUS
<1>1. ASSUME UNCHANGED <<all, expiry, owners, popups, timers>>
      PROVE  Coherent'
  BY <1>1 DEF Coherent, StoredIsOwned, CountdownPerPopup, ExpiryPerEntry,
     OwnerName
<1>2. ASSUME NEW g \in Callers, Call(g) PROVE Coherent'
  <2>1. {"dismissed", "closedCall"} \subseteq Reasons /\ g \in Threads
    BY DEF Reasons, Threads
  <2>2. ASSUME NEW app \in Apps, NEW replaces \in 0 .. MaxId,
               NotifyBlocked(g, app, replaces)
        PROVE  Coherent'
    BY <1>1, <2>2 DEF NotifyBlocked
  <2>3. ASSUME NEW id \in Ids, InvokeAction(g, id, << >>)
        PROVE  Coherent'
    BY <1>1, <2>3 DEF InvokeAction, service
  <2>4. ASSUME NEW on, SetDND(g, on)
        PROVE  Coherent'
    BY <1>1, <2>4 DEF SetDND
  <2> QED
    BY <1>2, <2>1, <2>2, <2>3, <2>4, NotifyCoherent, DepartureCoherent,
       TimerStateCoherent DEF Call, BusCall, CardCall, ToggleDND
<1>3. ASSUME NEW g \in Callbacks, Due(g) PROVE Coherent'
  BY <1>3, TimerStateCoherent DEF Due, Threads
<1>4. ASSUME NEW g \in Threads, Step(g) PROVE Coherent'
  <2> DEFINE o == Head(todo[g])  rest == Tail(todo[g])
  <2>1. o \in Op
    BY <1>4 DEF Step, Idle, Typed, TypeOK
  <2>2. CASE \/ o.op = "add"      /\ StoreAdd(g, o.n, rest)
             \/ o.op = "remove"   /\ StoreRemove(g, o.id, rest)
             \/ o.op = "closed"   /\ EmitClosed(g, o.n, rest)
             \/ o.op = "publish"  /\ PublishEvent(g, rest)
             \/ o.op = "invoked"  /\ EmitInvoked(g, rest)
             \/ o.op = "sweep"    /\ Sweep(g, o.rows, rest)
             \/ o.op = "saveDND"  /\ SaveDND(g, o.on, rest)
             \/ o.op = "invoke"   /\ InvokeAction(g, o.id, rest)
             \/ o.op = "expiry"   /\ ExpiryFired(g, o.id, o.tok, rest)
    BY <1>1, <2>2 DEF StoreAdd, StoreRemove, EmitClosed, PublishEvent,
       EmitInvoked, Sweep, SaveDND, InvokeAction, ExpiryFired, service
  <2>3. CASE o.op = "close" /\ Close(g, o.id, o.reason, rest)
    BY <2>1, <2>3, OpFields, DepartureCoherent
  <2>4. CASE o.op = "dismissPopup" /\ DismissPopup(g, o.id, rest)
    BY <2>1, <2>4, OpFields, DepartureCoherent
  <2>5. CASE o.op = "popup" /\ PopupFired(g, o.id, o.tok, rest)
    BY <1>1, <2>1, <2>5, OpFields, DepartureCoherent DEF PopupFired, service
  <2> QED
    BY <1>4, <2>2, <2>3, <2>4, <2>5 DEF Step
<1>5. CASE \E patterns \in Blocklists : SetBlocklist(patterns)
  BY <1>1, <1>5 DEF SetBlocklist
<1>6. CASE Restart
  BY <1>6, RestartCoherent
<1>7. CASE UNCHANGED vars
  BY <1>1, <1>7 DEF vars, service
<1> QED
  BY <1>2, <1>3, <1>4, <1>5, <1>6, <1>7 DEF Next

LEMMA AlwaysCoherent == Spec => [](Typed /\ Coherent)
BY InitTyped, NextTyped, InitCoherent, NextCoherent, PTL DEF Spec

\* The owners map never drifts from the history: whatever is stored can be
\* replaced by the application that sent it.
THEOREM StoredStaysOwned == Spec => []StoredIsOwned
<1>1. Typed /\ Coherent => StoredIsOwned
  BY DEF Coherent
<1> QED
  BY <1>1, AlwaysCoherent, PTL

\* No popup without its countdown, no countdown without its popup.
THEOREM CountdownsMatchPopups == Spec => []CountdownPerPopup
<1>1. Typed /\ Coherent => CountdownPerPopup
  BY DEF Coherent
<1> QED
  BY <1>1, AlwaysCoherent, PTL

\* The armed expiries are exactly those of the stored entries with a timeout.
THEOREM ExpiriesMatchEntries == Spec => []ExpiryPerEntry
<1>1. Typed /\ Coherent => ExpiryPerEntry
  BY DEF Coherent
<1> QED
  BY <1>1, AlwaysCoherent, PTL

\* The index over the history misses no entry and no timeout, the store and
\* the owners included, after any calls, deliveries, crashes and restarts.
THEOREM HistoryStaysIndexed == Spec => []HistoryIsIndexed
<1>1. StoredIsOwned /\ ExpiryPerEntry => HistoryIsIndexed
  BY DEF HistoryIsIndexed
<1> QED
  BY <1>1, StoredStaysOwned, ExpiriesMatchEntries, PTL

\* A search by id finds the one entry, and a popup the one countdown.
THEOREM PopupsStayIndexed == Spec => []PopupsAreIndexed
<1>1. UniqueIds /\ CountdownPerPopup => PopupsAreIndexed
  BY DEF PopupsAreIndexed
<1> QED
  BY <1>1, IdsAreUnique, CountdownsMatchPopups, PTL
-----------------------------------------------------------------------------
\* Who may replace what.

\* No application goes by the empty name.  One that does may take over any id
\* that nobody owns, also one that was never given out.
Named == NoName \notin Apps

\* Ids are given in order: what is stored or owned was given out.
Numbered ==
  /\ \A m \in all : m.id =< next
  /\ \A i \in Ids : owners[i] # NoOwner => i =< next

LEMMA InitNumbered == Init => Numbered
BY DEF Init, Numbered

\* The id of an arrival is its application's own, or has never been used.
LEMMA ResolvedFacts ==
  ASSUME Named, Typed, Numbered, NEW app \in Apps, NEW replaces \in 0 .. MaxId,
         ResolvedId(app, replaces) \in Ids
  PROVE  LET id == ResolvedId(app, replaces) IN
         /\ OwnsId(app, replaces) => id =< next /\ owners[id] = app
         /\ ~OwnsId(app, replaces) => id = next + 1
BY NamesAssumption DEF Named, Typed, TypeOK, Numbered, ResolvedId, OwnsId,
   OwnerName, Ids

LEMMA NextNumbered == Named /\ Typed /\ Numbered /\ [Next]_vars => Numbered'
<1> SUFFICES ASSUME Named, Typed, Numbered, [Next]_vars PROVE Numbered'
  OBVIOUS
<1>1. next \in Int /\ Ids \subseteq Int /\ \A m \in all : m.id \in Ids
  BY DEF Typed, TypeOK, Ids, Notification
<1>2. ASSUME UNCHANGED <<all, owners, next>> PROVE Numbered'
  BY <1>2 DEF Numbered
<1>3. ASSUME NEW ids \in SUBSET Ids, RemoveHistory(ids), UNCHANGED next
      PROVE  Numbered'
  <2>1. all' = {n \in all : n.id \notin ids}
    BY <1>3, RemoveHistoryFacts DEF Typed
  <2> QED
    BY <1>3, <2>1 DEF RemoveHistory, Numbered
<1>4. ASSUME NEW g \in Threads, NEW app \in Apps, NEW replaces \in 0 .. MaxId,
             NEW kind \in Kinds, Notify(g, app, replaces, kind)
      PROVE  Numbered'
  <2> DEFINE id == ResolvedId(app, replaces)
  <2>1. id \in Ids /\ id =< next' /\ next =< next' /\ next' \in Int
    <3>1. id \in Ids /\ next' = IF OwnsId(app, replaces) THEN next ELSE next + 1
      BY <1>4 DEF Notify
    <3> QED
      BY <1>1, <3>1, ResolvedFacts
  <2>2. \A m \in all' : m \in all \/ m.id = id
    <3>1. Without(all, id) \subseteq all
      BY DEF Without
    <3> QED
      BY <1>4, <3>1 DEF Notify
  <2>3. owners' = [owners EXCEPT ![id] = app]
    BY <1>4 DEF Notify
  <2> HIDE DEF id
  <2>4. \A m \in all' : m.id =< next'
    <3> SUFFICES ASSUME NEW m \in all' PROVE m.id =< next'
      OBVIOUS
    <3>1. CASE m.id = id
      BY <2>1, <3>1
    <3>2. CASE m \in all
      <4>1. m.id \in Int /\ m.id =< next
        BY <1>1, <3>2 DEF Numbered
      <4> QED
        BY <1>1, <2>1, <4>1
    <3> QED
      BY <2>2, <3>1, <3>2
  <2>5. ASSUME NEW i \in Ids, owners'[i] # NoOwner PROVE i =< next'
    <3>1. CASE i = id
      BY <2>1, <3>1
    <3>2. CASE i # id
      <4>1. i \in Int /\ i =< next
        BY <1>1, <2>3, <2>5, <3>2 DEF Numbered
      <4> QED
        BY <1>1, <2>1, <4>1
    <3> QED
      BY <3>1, <3>2
  <2> QED
    BY <2>4, <2>5 DEF Numbered
<1>5. ASSUME NEW g \in Threads, NEW app \in Apps, NEW replaces \in 0 .. MaxId,
             NotifyBlocked(g, app, replaces)
      PROVE  Numbered'
  <2>1. next' = next + 1 /\ UNCHANGED <<all, owners>>
    BY <1>5 DEF NotifyBlocked
  <2>2. ASSUME NEW m \in all' PROVE m.id =< next'
    <3>1. m.id \in Int /\ m.id =< next
      BY <1>1, <2>1, <2>2 DEF Numbered
    <3> QED
      BY <1>1, <2>1, <3>1
  <2>3. ASSUME NEW i \in Ids, owners'[i] # NoOwner PROVE i =< next'
    <3>1. i \in Int /\ i =< next
      BY <1>1, <2>1, <2>3 DEF Numbered
    <3> QED
      BY <1>1, <2>1, <3>1
  <2> QED
    BY <2>2, <2>3 DEF Numbered
<1>6. ASSUME NEW id \in Ids, NEW g \in Threads, NEW reason, NEW rest,
             Close(g, id, reason, rest)
      PROVE  Numbered'
  BY <1>3, <1>6, {id} \in SUBSET Ids DEF Close
<1>7. ASSUME NEW g \in Threads, DismissAll(g) PROVE Numbered'
  BY <1>1, <1>3, <1>7, {n.id : n \in all} \in SUBSET Ids DEF DismissAll
<1>8. ASSUME NEW id, NEW g, NEW rest, DismissPopup(g, id, rest) PROVE Numbered'
  BY <1>2, <1>8 DEF DismissPopup
<1>9. ASSUME NEW id, NEW g, NEW rest, InvokeAction(g, id, rest) PROVE Numbered'
  BY <1>2, <1>9 DEF InvokeAction, service
<1>10. ASSUME NEW g \in Callers, Call(g) PROVE Numbered'
  <2>1. ASSUME NEW on, SetDND(g, on) PROVE Numbered'
    BY <1>2, <2>1 DEF SetDND
  <2>2. ASSUME NEW id, InhibitPopup(g, id) \/ ReleasePopup(g, id)
        PROVE  Numbered'
    BY <1>2, <2>2 DEF InhibitPopup, ReleasePopup
  <2>3. g \in Threads
    BY DEF Threads
  <2> QED
    BY <1>4, <1>5, <1>6, <1>7, <1>8, <1>9, <1>10, <2>1, <2>2, <2>3
       DEF Call, BusCall, CardCall, ToggleDND
<1>11. ASSUME NEW g, Due(g) PROVE Numbered'
  BY <1>2, <1>11 DEF Due, PopupDue, ExpiryDue
<1>12. ASSUME NEW g \in Threads, Step(g) PROVE Numbered'
  <2> DEFINE o == Head(todo[g])  rest == Tail(todo[g])
  <2>1. o \in Op
    BY <1>12 DEF Step, Idle, Typed, TypeOK
  <2>2. CASE \/ o.op = "add"      /\ StoreAdd(g, o.n, rest)
             \/ o.op = "remove"   /\ StoreRemove(g, o.id, rest)
             \/ o.op = "closed"   /\ EmitClosed(g, o.n, rest)
             \/ o.op = "publish"  /\ PublishEvent(g, rest)
             \/ o.op = "invoked"  /\ EmitInvoked(g, rest)
             \/ o.op = "sweep"    /\ Sweep(g, o.rows, rest)
             \/ o.op = "saveDND"  /\ SaveDND(g, o.on, rest)
             \/ o.op = "expiry"   /\ ExpiryFired(g, o.id, o.tok, rest)
    BY <1>2, <2>2 DEF StoreAdd, StoreRemove, EmitClosed, PublishEvent,
       EmitInvoked, Sweep, SaveDND, ExpiryFired, service
  <2>3. CASE o.op = "close" /\ Close(g, o.id, o.reason, rest)
    BY <1>6, <2>1, <2>3, OpFields
  <2>4. CASE o.op = "dismissPopup" /\ DismissPopup(g, o.id, rest)
    BY <1>8, <2>4
  <2>5. CASE o.op = "invoke" /\ InvokeAction(g, o.id, rest)
    BY <1>9, <2>5
  <2>6. CASE o.op = "popup" /\ PopupFired(g, o.id, o.tok, rest)
    BY <1>2, <1>8, <2>6 DEF PopupFired, service
  <2> QED
    BY <1>12, <2>2, <2>3, <2>4, <2>5, <2>6 DEF Step
<1>13. CASE \E patterns \in Blocklists : SetBlocklist(patterns)
  BY <1>2, <1>13 DEF SetBlocklist
<1>14. CASE Restart
  <2>1. \A n \in all' : n.id =< next'
    BY <1>14 DEF Restart, HighestId
  <2>2. \A i \in Ids : owners'[i] # NoOwner => \E n \in all' : n.id = i
    BY <1>14 DEF Restart, WithId
  <2> QED
    BY <2>1, <2>2 DEF Numbered
<1>15. CASE UNCHANGED vars
  BY <1>2, <1>15 DEF vars, service
<1> QED
  BY <1>10, <1>11, <1>12, <1>13, <1>14, <1>15 DEF Next

LEMMA AlwaysNumbered == Named => (Spec => []Numbered)
<1> SUFFICES ASSUME Named PROVE Spec => []Numbered
  OBVIOUS
<1>1. Typed /\ Coherent /\ Numbered /\ [Next]_vars => Numbered'
  BY NextNumbered
<1> QED
  BY <1>1, InitNumbered, AlwaysCoherent, PTL DEF Spec

\* Steps other than an arrival and a restart only take entries and owners away.
Shrinks ==
  /\ all' \subseteq all
  /\ \A n \in all \ all' : owners'[n.id] = NoOwner
  /\ next =< next'
  /\ \A i \in Ids : owners'[i] \in {owners[i], NoOwner}

LEMMA HistoryShrinks ==
  ASSUME Typed, [Next]_vars, crashes' = crashes,
         ~\E g \in Callers, app \in Apps, replaces \in 0 .. MaxId, kind \in Kinds :
            Notify(g, app, replaces, kind)
  PROVE  Shrinks
<1>1. ASSUME UNCHANGED <<all, next, owners>> PROVE Shrinks
  BY <1>1 DEF Shrinks, Typed, TypeOK
<1>2. ASSUME NEW ids \in SUBSET Ids, RemoveHistory(ids), UNCHANGED next
      PROVE  Shrinks
  <2>1. all' = {n \in all : n.id \notin ids}
    BY <1>2, RemoveHistoryFacts DEF Typed
  <2>2. owners' = [i \in Ids |-> IF i \in ids THEN NoOwner ELSE owners[i]]
    BY <1>2 DEF RemoveHistory
  <2> QED
    BY <1>2, <2>1, <2>2 DEF Shrinks, Typed, TypeOK
<1>3. ASSUME NEW g, NEW id \in Ids, NEW reason, NEW rest, Close(g, id, reason, rest)
      PROVE  Shrinks
  <2>1. {id} \in SUBSET Ids
    OBVIOUS
  <2> QED
    BY <1>2, <1>3, <2>1 DEF Close
<1>4. ASSUME NEW g \in Callers, Call(g) PROVE Shrinks
  <2>1. CASE DismissAll(g)
    <3>1. {n.id : n \in all} \in SUBSET Ids
      BY DEF Typed, TypeOK, Notification
    <3> QED
      BY <1>2, <2>1, <3>1 DEF DismissAll
  <2>2. ASSUME NEW app, NEW replaces, NotifyBlocked(g, app, replaces)
        PROVE  Shrinks
    BY <2>2 DEF NotifyBlocked, Shrinks, Typed, TypeOK
  <2>3. ASSUME NEW on, SetDND(g, on) PROVE Shrinks
    BY <1>1, <2>3 DEF SetDND
  <2>4. CASE CardCall(g)
    BY <1>1, <2>4 DEF CardCall, DismissPopup, InvokeAction, InhibitPopup,
       ReleasePopup, service
  <2> QED
    BY <1>3, <1>4, <2>1, <2>2, <2>3, <2>4 DEF Call, BusCall, ToggleDND
<1>5. ASSUME NEW g, Due(g) PROVE Shrinks
  BY <1>1, <1>5 DEF Due, PopupDue, ExpiryDue
<1>6. ASSUME NEW g \in Threads, Step(g) PROVE Shrinks
  <2>1. Head(todo[g]) \in Op
    BY <1>6 DEF Step, Idle, Typed, TypeOK
  <2>2. Head(todo[g]).op = "close" => Head(todo[g]).id \in Ids
    BY <2>1, OpFields
  <2> QED
    BY <1>1, <1>3, <1>6, <2>2 DEF Step, StoreAdd, StoreRemove, EmitClosed,
       PublishEvent, EmitInvoked, Sweep, SaveDND, DismissPopup, InvokeAction,
       ExpiryFired, PopupFired, service
<1>7. CASE Restart
  <2>1. crashes' = crashes + 1 /\ crashes \in Int
    BY <1>7 DEF Restart, Typed, TypeOK
  <2> QED
    BY <2>1
<1>8. CASE UNCHANGED vars \/ \E patterns \in Blocklists : SetBlocklist(patterns)
  BY <1>1, <1>8 DEF vars, service, SetBlocklist
<1> QED
  BY <1>4, <1>5, <1>6, <1>7, <1>8 DEF Next

\* What an arrival pushes out of the history was its own application's: the
\* owners map says so for an id that is taken again, and an id that was not
\* asked for has never been used.
THEOREM OnlyOwnersReplace == Named => (Spec => OnlyOwnerReplaces)
<1> SUFFICES ASSUME Named PROVE Spec => OnlyOwnerReplaces
  OBVIOUS
<1> DEFINE Owned == crashes' = crashes =>
             \A n \in all' \ all : \A m \in all \ all' : n.app = m.app
<1>1. Typed /\ Coherent /\ Numbered /\ [Next]_vars => Owned
  <2> SUFFICES ASSUME Typed, Coherent, Numbered, [Next]_vars, crashes' = crashes,
                      NEW n \in all' \ all, NEW m \in all \ all'
               PROVE  n.app = m.app
    OBVIOUS
  <2>1. PICK g \in Callers, app \in Apps, replaces \in 0 .. MaxId, kind \in Kinds :
           Notify(g, app, replaces, kind)
    BY HistoryShrinks DEF Shrinks
  <2> DEFINE id == ResolvedId(app, replaces)
  <2>2. Without(all, id) = {k \in all : k.id # id}
    BY WithoutUnique DEF Typed, TypeOK, UniqueIds
  <2>3. m.id = id /\ n.app = app /\ id \in Ids
    BY <2>1, <2>2 DEF Notify
  <2>4. m.id =< next /\ m.id \in Int /\ next \in Int
    BY DEF Numbered, Typed, TypeOK, Notification, Ids
  <2>5. owners[id] = app
    BY <2>3, <2>4, ResolvedFacts
  <2>6. app # NoOwner
    BY NamesAssumption
  <2> QED
    BY <2>3, <2>5, <2>6 DEF Coherent, StoredIsOwned, OwnerName
<1> QED
  BY <1>1, AlwaysNumbered, AlwaysCoherent, PTL DEF Spec, OnlyOwnerReplaces

\* Neither a callback that was on its way nor the expiry of the entry takes a
\* popup whose countdown is halted off the screen.
THEOREM HaltedPopupsStay == Spec => HaltedPopupStays
<1> DEFINE Kept == \A g \in Threads : Moves(g) =>
             LET o == Head(todo[g]) IN
             (o.op = "popup" \/ (o.op = "close" /\ o.reason = "expired"))
               => \A p \in popups : Halted(timers[p.id]) => p \in popups'
<1>1. Typed /\ [Next]_vars => Kept
  <2> DEFINE o(g) == Head(todo[g])
  <2> SUFFICES ASSUME Typed, [Next]_vars, NEW g \in Threads, Moves(g),
                      o(g).op = "popup" \/ (o(g).op = "close" /\ o(g).reason = "expired"),
                      NEW p \in popups, Halted(timers[p.id])
               PROVE  p \in popups'
    OBVIOUS
  <2>1. todo[g] # << >> /\ todo'[g] # todo[g] /\ crashes' = crashes
    BY DEF Moves, Idle
  <2>2. ASSUME NEW h \in Threads, NEW ops, NEW rest, Continue(h, ops, rest)
        PROVE  h = g
    BY <2>1, <2>2 DEF Continue, Typed, TypeOK
  <2>3. ASSUME NEW h \in Callers, Call(h) PROVE FALSE
    <3>1. h \in Threads /\ (h = g => ~Idle(h))
      BY <2>1 DEF Threads, Idle
    <3>2. Idle(h)
      <4>1. ASSUME BusCall(h) PROVE Idle(h)
        <5>1. ASSUME NEW app, NEW replaces, NEW kind,
                     Notify(h, app, replaces, kind)
              PROVE  Idle(h)
          BY <5>1 DEF Notify
        <5>2. ASSUME NEW app, NEW replaces, NotifyBlocked(h, app, replaces)
              PROVE  Idle(h)
          BY <5>2 DEF NotifyBlocked
        <5>3. ASSUME NEW on, SetDND(h, on) PROVE Idle(h)
          BY <5>3 DEF SetDND
        <5> QED
          BY <4>1, <5>1, <5>2, <5>3 DEF BusCall, DismissAll, ToggleDND
      <4>2. ASSUME CardCall(h) PROVE Idle(h)
        BY <4>2 DEF CardCall, InhibitPopup, ReleasePopup
      <4> QED
        BY <2>3, <4>1, <4>2 DEF Call
    <3>3. \A ops, rest : ~Continue(h, ops, rest)
      BY <2>2, <3>1, <3>2
    <3>4. todo' # todo
      BY <2>1
    <3>5. ASSUME NEW app, NEW replaces, NEW kind, Notify(h, app, replaces, kind)
          PROVE  FALSE
      BY <3>3, <3>5 DEF Notify
    <3>6. CASE BusCall(h)
      BY <3>3, <3>4, <3>5, <3>6 DEF BusCall, NotifyBlocked, Close, DismissAll,
         SetDND, ToggleDND
    <3>7. CASE CardCall(h)
      BY <3>3, <3>4, <3>7 DEF CardCall, DismissPopup, InvokeAction, InhibitPopup,
         ReleasePopup
    <3> QED
      BY <2>3, <3>6, <3>7 DEF Call
  <2>4. ASSUME NEW h \in Callbacks, Due(h) PROVE FALSE
    <3>1. h \in Threads /\ (h = g => ~Idle(h))
      BY <2>1 DEF Threads, Idle
    <3> QED
      BY <2>1, <2>2, <2>4, <3>1 DEF Due, PopupDue, ExpiryDue
  <2>5. ASSUME NEW h \in Threads, Step(h) PROVE h = g
    BY <2>1, <2>2, <2>5 DEF Step, StoreAdd, StoreRemove, EmitClosed, PublishEvent,
       EmitInvoked, Sweep, SaveDND, Close, DismissPopup, InvokeAction, ExpiryFired,
       PopupFired
  <2>6. ~Restart
    BY <2>1 DEF Restart, Typed, TypeOK
  <2>7. Step(g)
    BY <2>1, <2>3, <2>4, <2>5, <2>6 DEF Next, SetBlocklist, vars
  <2>8. o(g) \in Op
    BY <2>1 DEF Typed, TypeOK
  <2>9. CASE o(g).op = "popup"
    <3>1. PopupFired(g, o(g).id, o(g).tok, Tail(todo[g]))
      BY <2>7, <2>9 DEF Step
    <3>2. CASE DismissPopup(g, o(g).id, Tail(todo[g])) /\ Running(timers[o(g).id])
      <4>1. o(g).id \in Ids
        BY <2>8, <2>9, OpFields
      <4>2. popups' = {n \in popups : n.id # o(g).id}
        BY <3>2, <4>1, DropPopupsFacts, {o(g).id} \in SUBSET Ids
           DEF DismissPopup, Typed
      <4>3. p.id # o(g).id
        BY <3>2 DEF Halted, Running
      <4> QED
        BY <4>2, <4>3
    <3> QED
      BY <3>1, <3>2 DEF PopupFired, service
  <2>10. CASE o(g).op = "close" /\ o(g).reason = "expired"
    BY <2>7, <2>10 DEF Step, Close
  <2> QED
    BY <2>9, <2>10
<1> QED
  BY <1>1, AlwaysCoherent, PTL DEF Spec, HaltedPopupStays
-----------------------------------------------------------------------------
\* Who still has to announce what.

\* What a list of ops announces as closed, and that it does so once.
Says(s) == UNION {Speaks(s[i]) : i \in 1 .. Len(s)}
Distinct(s) ==
  \A i, j \in 1 .. Len(s) : i # j => Speaks(s[i]) \cap Speaks(s[j]) = {}

LEMMA UnannouncedIsSaid ==
  ASSUME Typed, NEW g \in Threads
  PROVE  Unannounced(g) = Says(todo[g])
<1>1. todo[g] \in Seq(Op) /\ DOMAIN todo[g] = 1 .. Len(todo[g])
  BY DEF Typed, TypeOK
<1> QED
  BY <1>1 DEF Unannounced, Says

LEMMA SaysConcat ==
  ASSUME NEW s \in Seq(Op), NEW t \in Seq(Op)
  PROVE  /\ Says(s \o t) = Says(s) \cup Says(t)
         /\ Distinct(s) /\ Distinct(t) /\ Says(s) \cap Says(t) = {}
              => Distinct(s \o t)
<1> DEFINE st == s \o t
<1>1. /\ st \in Seq(Op) /\ Len(st) = Len(s) + Len(t)
      /\ Len(s) \in Nat /\ Len(t) \in Nat
      /\ \A i \in 1 .. Len(s) : st[i] = s[i]
      /\ \A i \in 1 .. Len(t) : st[Len(s) + i] = t[i]
  OBVIOUS
<1>2. \A i \in 1 .. Len(st) :
        i \in 1 .. Len(s) \/ \E j \in 1 .. Len(t) : i = Len(s) + j
  <2> SUFFICES ASSUME NEW i \in 1 .. Len(st), i \notin 1 .. Len(s)
               PROVE  \E j \in 1 .. Len(t) : i = Len(s) + j
    OBVIOUS
  <2>1. i - Len(s) \in 1 .. Len(t) /\ i = Len(s) + (i - Len(s))
    BY <1>1
  <2> QED
    BY <2>1
<1>3. \A i \in 1 .. Len(s) : i \in 1 .. Len(st)
  BY <1>1
<1>4. \A i \in 1 .. Len(t) : Len(s) + i \in 1 .. Len(st)
  BY <1>1
<1> HIDE DEF st
<1>5. Says(st) = Says(s) \cup Says(t)
  <2>1. ASSUME NEW n \in Says(st) PROVE n \in Says(s) \cup Says(t)
    <3>1. PICK i \in 1 .. Len(st) : n \in Speaks(st[i])
      BY <2>1 DEF Says
    <3> QED
      BY <1>1, <1>2, <3>1 DEF Says
  <2>2. ASSUME NEW n \in Says(s) PROVE n \in Says(st)
    <3>1. PICK i \in 1 .. Len(s) : n \in Speaks(s[i])
      BY <2>2 DEF Says
    <3> QED
      BY <1>1, <1>3, <3>1 DEF Says
  <2>3. ASSUME NEW n \in Says(t) PROVE n \in Says(st)
    <3>1. PICK i \in 1 .. Len(t) : n \in Speaks(t[i])
      BY <2>3 DEF Says
    <3> QED
      BY <1>1, <1>4, <3>1 DEF Says
  <2> QED
    BY <2>1, <2>2, <2>3
<1>6. ASSUME Distinct(s), Distinct(t), Says(s) \cap Says(t) = {}
      PROVE  Distinct(st)
  <2> SUFFICES ASSUME NEW i \in 1 .. Len(st), NEW j \in 1 .. Len(st), i # j
               PROVE  Speaks(st[i]) \cap Speaks(st[j]) = {}
    BY DEF Distinct
  <2>1. \A k \in 1 .. Len(s) : Speaks(s[k]) \subseteq Says(s)
    BY DEF Says
  <2>2. \A k \in 1 .. Len(t) : Speaks(t[k]) \subseteq Says(t)
    BY DEF Says
  <2>3. CASE i \in 1 .. Len(s) /\ j \in 1 .. Len(s)
    BY <1>1, <1>6, <2>3 DEF Distinct
  <2>4. CASE i \in 1 .. Len(s) /\ j \notin 1 .. Len(s)
    <3>1. PICK k \in 1 .. Len(t) : j = Len(s) + k
      BY <1>2, <2>4
    <3> QED
      BY <1>1, <1>6, <2>1, <2>2, <2>4, <3>1
  <2>5. CASE i \notin 1 .. Len(s) /\ j \in 1 .. Len(s)
    <3>1. PICK k \in 1 .. Len(t) : i = Len(s) + k
      BY <1>2, <2>5
    <3> QED
      BY <1>1, <1>6, <2>1, <2>2, <2>5, <3>1
  <2>6. CASE i \notin 1 .. Len(s) /\ j \notin 1 .. Len(s)
    <3>1. PICK k \in 1 .. Len(t), l \in 1 .. Len(t) : i = Len(s) + k /\ j = Len(s) + l
      BY <1>2, <2>6
    <3> QED
      BY <1>1, <1>6, <3>1 DEF Distinct
  <2> QED
    BY <2>3, <2>4, <2>5, <2>6
<1> QED
  BY <1>5, <1>6 DEF st

\* Taking the head of a list.
LEMMA SaysHead ==
  ASSUME NEW s \in Seq(Op), s # << >>
  PROVE  /\ Says(s) = Speaks(Head(s)) \cup Says(Tail(s))
         /\ Distinct(s) => /\ Distinct(Tail(s))
                           /\ Speaks(Head(s)) \cap Says(Tail(s)) = {}
<1> DEFINE t == Tail(s)
<1>1. /\ Head(s) = s[1] /\ t \in Seq(Op)
      /\ Len(t) = Len(s) - 1 /\ Len(s) \in Nat /\ Len(s) >= 1
      /\ \A i \in 1 .. Len(t) : t[i] = s[i + 1]
  OBVIOUS
<1>2. 1 \in 1 .. Len(s) /\ \A i \in 1 .. Len(t) : i + 1 \in 1 .. Len(s) /\ i + 1 # 1
  BY <1>1
<1>3. \A i \in 1 .. Len(s) : i = 1 \/ \E j \in 1 .. Len(t) : i = j + 1
  <2> SUFFICES ASSUME NEW i \in 1 .. Len(s), i # 1
               PROVE  \E j \in 1 .. Len(t) : i = j + 1
    OBVIOUS
  <2>1. i - 1 \in 1 .. Len(t) /\ i = (i - 1) + 1
    BY <1>1
  <2> QED
    BY <2>1
<1> HIDE DEF t
<1>4. ASSUME NEW n \in Says(s) PROVE n \in Speaks(Head(s)) \cup Says(t)
  <2>1. PICK i \in 1 .. Len(s) : n \in Speaks(s[i])
    BY <1>4 DEF Says
  <2>2. CASE i = 1
    BY <1>1, <2>1, <2>2
  <2>3. CASE i # 1
    <3>1. PICK j \in 1 .. Len(t) : i = j + 1
      BY <1>3, <2>3
    <3> QED
      BY <1>1, <2>1, <3>1 DEF Says
  <2> QED
    BY <2>2, <2>3
<1>5. Speaks(Head(s)) \subseteq Says(s)
  BY <1>1, <1>2 DEF Says
<1>6. ASSUME NEW n \in Says(t) PROVE n \in Says(s)
  <2>1. PICK i \in 1 .. Len(t) : n \in Speaks(t[i])
    BY <1>6 DEF Says
  <2> QED
    BY <1>1, <1>2, <2>1 DEF Says
<1>7. ASSUME Distinct(s)
      PROVE  Distinct(t) /\ Speaks(Head(s)) \cap Says(t) = {}
  <2>1. Distinct(t)
    <3> SUFFICES ASSUME NEW i \in 1 .. Len(t), NEW j \in 1 .. Len(t), i # j
                 PROVE  Speaks(t[i]) \cap Speaks(t[j]) = {}
      BY DEF Distinct
    <3>1. i + 1 # j + 1
      OBVIOUS
    <3> QED
      BY <1>1, <1>2, <1>7, <3>1 DEF Distinct
  <2>2. ASSUME NEW n \in Says(t), n \in Speaks(Head(s)) PROVE FALSE
    <3>1. PICK i \in 1 .. Len(t) : n \in Speaks(t[i])
      BY <2>2 DEF Says
    <3> QED
      BY <1>1, <1>2, <1>7, <2>2, <3>1 DEF Distinct
  <2> QED
    BY <2>1, <2>2
<1> QED
  BY <1>4, <1>5, <1>6, <1>7 DEF t
LEMMA SaysLists ==
  /\ Says(<< >>) = {} /\ Distinct(<< >>)
  /\ \A o \in Op : Says(<<o>>) = Speaks(o) /\ Distinct(<<o>>)
  /\ \A o, p \in Op :
       /\ Says(<<o, p>>) = Speaks(o) \cup Speaks(p)
       /\ Speaks(o) \cap Speaks(p) = {} => Distinct(<<o, p>>)
<1>1. Says(<< >>) = {} /\ Distinct(<< >>)
  BY DEF Says, Distinct
<1>2. ASSUME NEW o \in Op PROVE Says(<<o>>) = Speaks(o) /\ Distinct(<<o>>)
  <2>1. Len(<<o>>) = 1 /\ <<o>>[1] = o /\ 1 .. 1 = {1}
    OBVIOUS
  <2> QED
    BY <2>1 DEF Says, Distinct
<1>3. ASSUME NEW o \in Op, NEW p \in Op
      PROVE  /\ Says(<<o, p>>) = Speaks(o) \cup Speaks(p)
             /\ Speaks(o) \cap Speaks(p) = {} => Distinct(<<o, p>>)
  <2>1. /\ Len(<<o, p>>) = 2 /\ <<o, p>>[1] = o /\ <<o, p>>[2] = p
        /\ 1 .. 2 = {1, 2}
    OBVIOUS
  <2> QED
    BY <2>1 DEF Says, Distinct
<1> QED
  BY <1>1, <1>2, <1>3

\* Entries that a step takes out of the history, with their owners.
Left == {n \in all : owners'[n.id] = NoOwner /\ \A m \in all' : m.id # n.id}

\* Goroutine g goes on with the list s: what it has to announce by then it had
\* before or took out of the history just now, what it announced it has no
\* more, and nothing is forgotten.
Tells(g, s) ==
  /\ s \in Seq(Op) /\ Distinct(s)
  /\ todo' = [todo EXCEPT ![g] = s]
  /\ Says(s) \subseteq Says(todo[g]) \cup Left
  /\ closed' \subseteq closed \cup (Says(todo[g]) \ Says(s))
  /\ Says(todo[g]) \cup Left \subseteq Says(s) \cup closed'
  /\ \/ UNCHANGED closed
     \/ Left = {} /\ \E n \in Says(todo[g]) : closed' = closed \cup {n}

LEMMA NobodyLeft == UNCHANGED all => Left = {}
BY DEF Left

\* What is left of the list of goroutine g.
Follows(g, rest) ==
  rest \in Seq(Op) /\ Distinct(rest) /\ Says(rest) = Says(todo[g])

LEMMA SilentTells ==
  ASSUME NEW g, NEW rest, Follows(g, rest),
         NEW ops \in Seq(Op), Says(ops) = {}, Distinct(ops),
         Continue(g, ops, rest), UNCHANGED closed, Left = {}
  PROVE  \E s : Tells(g, s)
<1>1. Says(ops \o rest) = Says(rest) /\ Distinct(ops \o rest)
  <2>1. Says(ops) \cap Says(rest) = {} /\ Says(ops) \cup Says(rest) = Says(rest)
    OBVIOUS
  <2> QED
    BY <2>1, SaysConcat DEF Follows
<1>2. ops \o rest \in Seq(Op)
  BY DEF Follows
<1> QED
  BY <1>1, <1>2 DEF Tells, Follows, Continue

LEMMA CloseTells ==
  ASSUME Typed, NEW g \in Threads, Says(todo[g]) \cap all = {},
         NEW id \in Ids, NEW reason \in Reasons, NEW rest, Follows(g, rest),
         Close(g, id, reason, rest)
  PROVE  \E s : Tells(g, s)
<1>1. UNCHANGED closed
  BY DEF Close, world
<1>2. all' = {m \in all : m.id \notin {id}} /\ owners'[id] = NoOwner
  <2>1. RemoveHistory({id}) /\ {id} \in SUBSET Ids
    BY DEF Close
  <2> QED
    BY <2>1, RemoveHistoryFacts DEF Typed, RemoveHistory
<1>3. CASE WithId(all, id) = {}
  <2>1. Continue(g, << >>, rest)
    BY <1>3 DEF Close
  <2>2. Left = {}
    BY <1>2, <1>3 DEF Left, WithId
  <2> QED
    BY <1>1, <2>1, <2>2, SilentTells, SaysLists, << >> \in Seq(Op)
<1>4. CASE WithId(all, id) # {}
  <2> DEFINE n   == Newest(WithId(all, id))
             rem == [op |-> "remove", id |-> id]
             say == [op |-> "closed", n |-> n, reason |-> reason]
             ops == <<rem, say, Publish>>
  <2>1. n \in all /\ n.id = id /\ n \in Notification
    <3>1. n \in WithId(all, id)
      BY <1>4, WithoutUnique DEF Typed, TypeOK, UniqueIds
    <3> QED
      BY <3>1 DEF WithId, Typed, TypeOK
  <2>2. rem \in Op /\ say \in Op /\ Publish \in Op
    BY <2>1, OpIntro
  <2>3. Speaks(rem) = {} /\ Speaks(say) = {n} /\ Speaks(Publish) = {}
    BY DEF Speaks, Publish
  <2>4. Continue(g, ops, rest)
    BY <1>4 DEF Close
  <2>5. WithId(all, id) = {n}
    BY <1>4, WithoutUnique DEF Typed, TypeOK, UniqueIds
  <2>6. Left = {n}
    BY <1>2, <2>1, <2>5 DEF Left, WithId
  <2> HIDE DEF n, rem, say
  <2>7. ops \in Seq(Op) /\ Says(ops) = {n} /\ Distinct(ops)
    <3>1. /\ Len(ops) = 3 /\ ops[1] = rem /\ ops[2] = say /\ ops[3] = Publish
          /\ 1 .. 3 = {1, 2, 3} /\ ops \in Seq(Op)
      BY <2>2
    <3> QED
      BY <2>3, <3>1 DEF Says, Distinct
  <2> HIDE DEF ops
  <2>8. Says(ops \o rest) = {n} \cup Says(rest) /\ Distinct(ops \o rest)
        /\ ops \o rest \in Seq(Op)
    BY <2>1, <2>7, SaysConcat DEF Follows
  <2> HIDE DEF ops
  <2>9. Tells(g, ops \o rest)
    <3>1. todo' = [todo EXCEPT ![g] = ops \o rest] /\ Says(rest) = Says(todo[g])
      BY <2>4 DEF Continue, Follows
    <3> QED
      BY <1>1, <2>6, <2>8, <3>1 DEF Tells
  <2> QED
    BY <2>9
<1> QED
  BY <1>3, <1>4

LEMMA DismissAllTells ==
  ASSUME Typed, NEW g \in Threads, DismissAll(g)
  PROVE  \E s : Tells(g, s)
<1> DEFINE ids == {n.id : n \in all}
           o   == [op |-> "sweep", rows |-> all]
           ops == IF all = {} THEN << >> ELSE <<o>>
<1>1. ids \in SUBSET Ids /\ RemoveHistory(ids)
  BY DEF DismissAll, Typed, TypeOK, Notification
<1>2. all' = {} /\ \A n \in all : owners'[n.id] = NoOwner
  <2>1. all' = {n \in all : n.id \notin ids}
    BY <1>1, RemoveHistoryFacts DEF Typed
  <2> QED
    BY <1>1, <2>1 DEF RemoveHistory
<1>3. Left = all
  BY <1>2 DEF Left
<1>4. o \in Op /\ Speaks(o) = all
  BY OpIntro DEF Speaks, Typed, TypeOK
<1>5. Continue(g, ops, << >>) /\ UNCHANGED closed
  BY DEF DismissAll, world
<1> HIDE DEF o
<1>6. ops \in Seq(Op) /\ Distinct(ops) /\ Says(ops) = all
  BY <1>4, SaysLists
<1> HIDE DEF ops
<1>7. ops \o << >> = ops
  BY <1>6
<1>8. Says(todo[g]) = {}
  BY SaysLists DEF DismissAll, Idle
<1>9. Tells(g, ops)
  BY <1>3, <1>5, <1>6, <1>7, <1>8 DEF Tells, Continue
<1> QED
  BY <1>9

\* The head of the list is what is announced, or split in two.
LEMMA SweepTells ==
  ASSUME Typed, NEW g \in Threads, todo[g] # << >>, Distinct(todo[g]),
         Head(todo[g]).op = "sweep",
         Sweep(g, Head(todo[g]).rows, Tail(todo[g]))
  PROVE  \E s : Tells(g, s)
<1> DEFINE rows == Head(todo[g]).rows
           rest == Tail(todo[g])
           say(n)  == [op |-> "closed", n |-> n, reason |-> "dismissed"]
           more(n) == [op |-> "sweep", rows |-> rows \ {n}]
           said(n) == <<say(n), Publish>>
           left(n) == IF rows = {n} THEN << >> ELSE <<more(n)>>
<1>1. todo[g] \in Seq(Op) /\ Head(todo[g]) \in Op /\ rest \in Seq(Op)
  BY DEF Typed, TypeOK
<1>2. rows \in SUBSET Notification /\ Speaks(Head(todo[g])) = rows
  BY <1>1, OpFields DEF Speaks
<1>3. /\ Says(todo[g]) = rows \cup Says(rest)
      /\ Distinct(rest) /\ rows \cap Says(rest) = {}
  BY <1>1, <1>2, SaysHead
<1>4. PICK n \in rows : Continue(g, said(n) \o left(n), rest)
  BY DEF Sweep
<1>5. UNCHANGED closed /\ Left = {}
  BY NobodyLeft DEF Sweep, world, service
<1>6. say(n) \in Op /\ Publish \in Op /\ more(n) \in Op
  BY <1>2, OpIntro, rows \ {n} \in SUBSET Notification DEF Reasons
<1>7. Speaks(say(n)) = {n} /\ Speaks(Publish) = {} /\ Speaks(more(n)) = rows \ {n}
  BY DEF Speaks, Publish
<1> HIDE DEF say, more, rows
<1>8. said(n) \in Seq(Op) /\ Distinct(said(n)) /\ Says(said(n)) = {n}
  BY <1>6, <1>7, SaysLists
<1>9. left(n) \in Seq(Op) /\ Distinct(left(n)) /\ Says(left(n)) = rows \ {n}
  BY <1>6, <1>7, SaysLists
<1> DEFINE ops == said(n) \o left(n)
<1> HIDE DEF said, left
<1>10. ops \in Seq(Op) /\ Distinct(ops) /\ Says(ops) = rows
  <2>1. Says(said(n)) \cap Says(left(n)) = {}
    BY <1>8, <1>9
  <2>2. Says(ops) = Says(said(n)) \cup Says(left(n)) /\ Distinct(ops)
    BY <1>8, <1>9, <2>1, SaysConcat
  <2> QED
    BY <1>4, <1>8, <1>9, <2>2
<1> HIDE DEF ops
<1>11. /\ Says(ops \o rest) = rows \cup Says(rest) /\ Distinct(ops \o rest)
       /\ ops \o rest \in Seq(Op)
  <2>1. Says(ops) \cap Says(rest) = {}
    BY <1>3, <1>10
  <2>2. Says(ops \o rest) = Says(ops) \cup Says(rest) /\ Distinct(ops \o rest)
    BY <1>1, <1>3, <1>10, <2>1, SaysConcat
  <2> QED
    BY <1>1, <1>10, <2>2
<1>12. Tells(g, ops \o rest)
  <2>1. todo' = [todo EXCEPT ![g] = ops \o rest]
    BY <1>4 DEF Continue, ops
  <2> QED
    BY <1>3, <1>5, <1>11, <2>1 DEF Tells
<1> QED
  BY <1>12

LEMMA EmitTells ==
  ASSUME Typed, NEW g \in Threads, todo[g] # << >>, Distinct(todo[g]),
         Head(todo[g]).op = "closed",
         EmitClosed(g, Head(todo[g]).n, Tail(todo[g]))
  PROVE  \E s : Tells(g, s)
<1> DEFINE n == Head(todo[g]).n
           rest == Tail(todo[g])
<1>1. todo[g] \in Seq(Op) /\ rest \in Seq(Op)
  BY DEF Typed, TypeOK
<1>2. /\ Says(todo[g]) = {n} \cup Says(rest)
      /\ Distinct(rest) /\ {n} \cap Says(rest) = {}
  BY <1>1, SaysHead DEF Speaks
<1>3. closed' = closed \cup {n} /\ todo' = [todo EXCEPT ![g] = << >> \o rest]
  BY DEF EmitClosed, Continue
<1>4. << >> \o rest = rest
  BY <1>1
<1>5. Left = {}
  BY NobodyLeft DEF EmitClosed, service
<1>6. Tells(g, rest)
  BY <1>1, <1>2, <1>3, <1>4, <1>5 DEF Tells
<1> QED
  BY <1>6
\* Ops that announce nothing.
Silent == {o \in Op : o.op \notin {"closed", "sweep"}}

LEMMA SilentIntro ==
  /\ Publish \in Silent
  /\ \A n \in Notification : [op |-> "add", n |-> n] \in Silent
  /\ \A id \in Ids : [op |-> "remove", id |-> id] \in Silent
  /\ \A id \in Ids : [op |-> "invoked", id |-> id] \in Silent
  /\ \A on \in BOOLEAN : [op |-> "saveDND", on |-> on] \in Silent
  /\ \A id \in Ids, r \in Reasons, due \in 0 .. MaxStamp :
       CloseOp(id, r, due) \in Silent
  /\ \A id \in Ids, tok \in Stamps :
       /\ [op |-> "expiry", id |-> id, tok |-> tok] \in Silent
       /\ [op |-> "popup", id |-> id, tok |-> tok] \in Silent
BY OpIntro DEF Silent, Publish, CloseOp

LEMMA SilentSays ==
  ASSUME NEW ops \in Seq(Silent)
  PROVE  ops \in Seq(Op) /\ Says(ops) = {} /\ Distinct(ops)
<1>1. \A i \in 1 .. Len(ops) : ops[i] \in Op /\ Speaks(ops[i]) = {}
  BY DEF Silent, Speaks
<1>2. ops \in Seq(Op)
  BY <1>1
<1> QED
  BY <1>1, <1>2 DEF Says, Distinct

LEMMA SilentlyTells ==
  ASSUME NEW g, NEW rest, Follows(g, rest), NEW ops \in Seq(Silent),
         Continue(g, ops, rest), UNCHANGED closed, Left = {}
  PROVE  \E s : Tells(g, s)
BY SilentSays, SilentTells

LEMMA IdleFollows ==
  ASSUME NEW g, Idle(g)
  PROVE  Follows(g, << >>)
BY SaysLists DEF Idle, Follows

\* Nothing leaves with its owner when something arrives.
LEMMA NotifyLeavesNone ==
  ASSUME Typed, NEW g \in Threads, NEW app \in Apps, NEW replaces \in 0 .. MaxId,
         NEW kind \in Kinds, Notify(g, app, replaces, kind)
  PROVE  Left = {}
<1> DEFINE id == ResolvedId(app, replaces)
<1>1. Without(all, id) = {m \in all : m.id # id}
  BY WithoutUnique DEF Typed, TypeOK, UniqueIds
<1>2. {m \in all : m.id # id} \subseteq all'
  BY <1>1 DEF Notify
<1>3. owners'[id] = app /\ app # NoOwner
  BY NamesAssumption DEF Notify, Typed, TypeOK
<1> HIDE DEF id
<1> QED
  BY <1>2, <1>3 DEF Left

\* An arrival announces nothing.
LEMMA NotifyTells ==
  ASSUME Typed, NEW g \in Threads, NEW app \in Apps, NEW replaces \in 0 .. MaxId,
         NEW kind \in Kinds, Notify(g, app, replaces, kind)
  PROVE  \E s : Tells(g, s)
<1> DEFINE id == ResolvedId(app, replaces)
           n  == [id |-> id, app |-> app, stamp |-> stamp + 1, ttl |-> kind.ttl,
                  transient |-> kind.transient, resident |-> kind.resident]
<1>1. id \in Ids /\ stamp + 1 \in Stamps
  BY BoundsAssumption DEF Notify, Typed, TypeOK, Stamps
<1>2. n \in Notification
  BY <1>1, KindsAssumption DEF Notification, Names
<1>3. /\ <<[op |-> "add", n |-> n], Publish>> \in Seq(Silent)
      /\ <<[op |-> "remove", id |-> id], Publish>> \in Seq(Silent)
      /\ <<Publish>> \in Seq(Silent)
  BY <1>1, <1>2, SilentIntro
<1>4. Follows(g, << >>)
  BY IdleFollows DEF Notify
<1>5. UNCHANGED closed
  BY DEF Notify, world
<1>6. Left = {}
  BY NotifyLeavesNone
<1> QED
  BY <1>3, <1>4, <1>5, <1>6, SilentlyTells DEF Notify

\* Calls and callbacks that leave the history alone.
LEMMA QuietTells ==
  ASSUME Typed, NEW g \in Threads, NEW rest, Follows(g, rest),
         NEW id \in Ids,
         \/ DismissPopup(g, id, rest) \/ InvokeAction(g, id, rest)
         \/ \E tok \in Stamps :
              PopupFired(g, id, tok, rest) \/ ExpiryFired(g, id, tok, rest)
  PROVE  \E s : Tells(g, s)
<1>1. UNCHANGED closed /\ Left = {}
  BY NobodyLeft
     DEF DismissPopup, InvokeAction, PopupFired, ExpiryFired, world, service
<1>2. << >> \in Seq(Silent) /\ <<Publish>> \in Seq(Silent)
      /\ <<[op |-> "invoked", id |-> id]>> \in Seq(Silent)
  BY SilentIntro
<1>3. \A r \in {"expired", "closedCall"}, due \in Stamps \cup {0} :
        <<CloseOp(id, r, due)>> \in Seq(Silent)
  <2>1. Stamps \cup {0} \subseteq 0 .. MaxStamp
        /\ {"expired", "closedCall"} \subseteq Reasons
    BY BoundsAssumption DEF Stamps, Reasons
  <2> QED
    BY <2>1, SilentIntro
<1>4. CASE DismissPopup(g, id, rest)
  BY <1>1, <1>2, <1>4, SilentlyTells DEF DismissPopup
<1>5. CASE InvokeAction(g, id, rest)
  <2> DEFINE found    == Found(id)
             resident == found # {} /\ Newest(found).resident
             close    == IF resident THEN << >> ELSE <<CloseOp(id, "closedCall", 0)>>
             said     == <<[op |-> "invoked", id |-> id]>>
             ops      == said \o close \o <<Publish>>
  <2>1. close \in Seq(Silent)
    BY <1>2, <1>3
  <2>2. ops \in Seq(Silent)
    <3> HIDE DEF close, said
    <3>1. said \in Seq(Silent)
      BY <1>2 DEF said
    <3> QED
      BY <1>2, <2>1, <3>1
  <2>3. Continue(g, IF owners[id] = NoOwner THEN << >> ELSE ops, rest)
    BY <1>5 DEF InvokeAction
  <2> HIDE DEF ops
  <2>4. (IF owners[id] = NoOwner THEN << >> ELSE ops) \in Seq(Silent)
    BY <1>2, <2>2
  <2> QED
    BY <1>1, <2>3, <2>4, SilentlyTells
<1>6. ASSUME NEW tok \in Stamps, PopupFired(g, id, tok, rest)
      PROVE  \E s : Tells(g, s)
  BY <1>1, <1>2, <1>4, <1>6, SilentlyTells DEF PopupFired
<1>7. ASSUME NEW tok \in Stamps, ExpiryFired(g, id, tok, rest)
      PROVE  \E s : Tells(g, s)
  <2> DEFINE ops == IF expiry[id].tok = tok THEN <<CloseOp(id, "expired", tok)>>
                                          ELSE << >>
  <2>1. ops \in Seq(Silent)
    BY <1>2, <1>3
  <2>2. Continue(g, ops, rest)
    BY <1>7 DEF ExpiryFired
  <2> HIDE DEF ops
  <2> QED
    BY <1>1, <2>1, <2>2, SilentlyTells
<1> QED
  BY <1>4, <1>5, <1>6, <1>7

\* Every list of ops announces a notification once, and none that is stored.
Orderly == \A g \in Threads : Distinct(todo[g]) /\ Says(todo[g]) \cap all = {}

LEMMA CallTells ==
  ASSUME Typed, Orderly, NEW g \in Threads, Call(g)
  PROVE  UNCHANGED <<all, todo, closed>> \/ \E s : Tells(g, s)
<1>1. /\ Idle(g) => Follows(g, << >>)
      /\ << >> \in Seq(Silent) /\ <<Publish>> \in Seq(Silent)
  BY IdleFollows, SilentIntro
<1>2. ASSUME NEW app, NEW replaces, NotifyBlocked(g, app, replaces)
      PROVE  UNCHANGED <<all, todo, closed>>
  BY <1>2 DEF NotifyBlocked, world
<1>3. ASSUME NEW id \in Ids, NEW reason \in {"dismissed", "closedCall"},
             Idle(g), Close(g, id, reason, << >>)
      PROVE  \E s : Tells(g, s)
  <2>1. reason \in Reasons
    BY DEF Reasons
  <2> QED
    BY <1>1, <1>3, <2>1, CloseTells DEF Orderly
<1>4. ASSUME NEW on \in BOOLEAN, SetDND(g, on) PROVE \E s : Tells(g, s)
  <2>1. <<[op |-> "saveDND", on |-> on], Publish>> \in Seq(Silent)
    BY SilentIntro
  <2>2. UNCHANGED closed /\ Left = {}
    BY <1>4, NobodyLeft DEF SetDND, world
  <2> QED
    BY <1>1, <1>4, <2>1, <2>2, SilentlyTells DEF SetDND
<1>5. ASSUME ToggleDND(g) PROVE \E s : Tells(g, s)
  BY <1>4, <1>5 DEF ToggleDND, Typed, TypeOK
<1>6. ASSUME BusCall(g)
      PROVE  UNCHANGED <<all, todo, closed>> \/ \E s : Tells(g, s)
  BY <1>2, <1>3, <1>4, <1>5, <1>6, NotifyTells, DismissAllTells DEF BusCall, Threads
<1>7. ASSUME NEW id \in Ids, InhibitPopup(g, id)
      PROVE  UNCHANGED <<all, todo, closed>>
  BY <1>7 DEF InhibitPopup, world
<1>8. ASSUME NEW id \in Ids, ReleasePopup(g, id)
      PROVE  UNCHANGED <<all, todo, closed>> \/ \E s : Tells(g, s)
  <2>1. UNCHANGED closed /\ UNCHANGED all /\ Idle(g)
    BY <1>8 DEF ReleasePopup, world
  <2> QED
    BY <1>1, <1>8, <2>1, NobodyLeft, SilentlyTells DEF ReleasePopup
<1>9. ASSUME NEW id \in Ids, Idle(g),
             DismissPopup(g, id, << >>) \/ InvokeAction(g, id, << >>)
      PROVE  \E s : Tells(g, s)
  BY <1>1, <1>9, QuietTells
<1> QED
  BY <1>6, <1>7, <1>8, <1>9 DEF Call, CardCall
LEMMA DueTells ==
  ASSUME Typed, NEW g \in Threads, Due(g)
  PROVE  \E s : Tells(g, s)
<1>1. Idle(g) => Follows(g, << >>)
  BY IdleFollows
<1>2. ASSUME NEW id \in Ids, PopupDue(g, id) PROVE \E s : Tells(g, s)
  <2>1. timers[id].tok \in Stamps
    BY <1>2 DEF PopupDue, Typed, TypeOK, Timer, NoTimer
  <2>2. [op |-> "popup", id |-> id, tok |-> timers[id].tok] \in Silent
    BY <2>1, SilentIntro
  <2>3. <<[op |-> "popup", id |-> id, tok |-> timers[id].tok]>> \in Seq(Silent)
    BY <2>2
  <2>4. UNCHANGED closed /\ Left = {}
    BY <1>2, NobodyLeft DEF PopupDue, world
  <2> QED
    BY <1>1, <1>2, <2>3, <2>4, SilentlyTells DEF PopupDue
<1>3. ASSUME NEW id \in Ids, ExpiryDue(g, id) PROVE \E s : Tells(g, s)
  <2>1. expiry[id].tok \in Stamps
    BY <1>3 DEF ExpiryDue, Typed, TypeOK, Timer, NoTimer
  <2>2. [op |-> "expiry", id |-> id, tok |-> expiry[id].tok] \in Silent
    BY <2>1, SilentIntro
  <2>3. <<[op |-> "expiry", id |-> id, tok |-> expiry[id].tok]>> \in Seq(Silent)
    BY <2>2
  <2>4. UNCHANGED closed /\ Left = {}
    BY <1>3, NobodyLeft DEF ExpiryDue, world
  <2> QED
    BY <1>1, <1>3, <2>3, <2>4, SilentlyTells DEF ExpiryDue
<1> QED
  BY <1>2, <1>3 DEF Due

LEMMA StepTells ==
  ASSUME Typed, Orderly, NEW g \in Threads, Step(g)
  PROVE  \E s : Tells(g, s)
<1> DEFINE o == Head(todo[g])  rest == Tail(todo[g])
<1>1. todo[g] # << >> /\ todo[g] \in Seq(Op) /\ o \in Op /\ rest \in Seq(Op)
  BY DEF Step, Idle, Typed, TypeOK
<1>2. Distinct(todo[g]) /\ Says(todo[g]) \cap all = {}
  BY DEF Orderly
<1>3. o.op \notin {"closed", "sweep"} => Follows(g, rest)
  <2>1. o.op \notin {"closed", "sweep"} => Speaks(o) = {}
    BY DEF Speaks
  <2> HIDE DEF o
  <2>2. Says(todo[g]) = Speaks(o) \cup Says(rest) /\ Distinct(rest)
    BY <1>1, <1>2, SaysHead DEF o
  <2> QED
    BY <1>1, <2>1, <2>2 DEF Follows
<1>4. CASE \/ o.op = "add"      /\ StoreAdd(g, o.n, rest)
           \/ o.op = "remove"   /\ StoreRemove(g, o.id, rest)
           \/ o.op = "publish"  /\ PublishEvent(g, rest)
           \/ o.op = "invoked"  /\ EmitInvoked(g, rest)
           \/ o.op = "saveDND"  /\ SaveDND(g, o.on, rest)
  <2>1. Continue(g, << >>, rest) /\ UNCHANGED closed
    BY <1>4 DEF StoreAdd, StoreRemove, PublishEvent, EmitInvoked, SaveDND, world
  <2>2. Left = {}
    BY <1>4, NobodyLeft DEF StoreAdd, StoreRemove, PublishEvent, EmitInvoked,
       SaveDND, service
  <2> QED
    BY <1>3, <1>4, <2>1, <2>2, << >> \in Seq(Silent), SilentlyTells
<1>5. CASE o.op = "closed" /\ EmitClosed(g, o.n, rest)
  BY <1>1, <1>2, <1>5, EmitTells
<1>6. CASE o.op = "sweep" /\ Sweep(g, o.rows, rest)
  BY <1>1, <1>2, <1>6, SweepTells
<1>7. CASE o.op = "close" /\ Close(g, o.id, o.reason, rest)
  BY <1>1, <1>2, <1>3, <1>7, OpFields, CloseTells
<1>8. CASE \/ o.op = "dismissPopup" /\ DismissPopup(g, o.id, rest)
           \/ o.op = "invoke" /\ InvokeAction(g, o.id, rest)
           \/ o.op = "expiry" /\ ExpiryFired(g, o.id, o.tok, rest)
           \/ o.op = "popup"  /\ PopupFired(g, o.id, o.tok, rest)
  BY <1>1, <1>3, <1>8, OpFields, QuietTells
<1> QED
  BY <1>4, <1>5, <1>6, <1>7, <1>8 DEF Step

LEMMA NextTells ==
  ASSUME Typed, Orderly, [Next]_vars, crashes' = crashes
  PROVE  \/ UNCHANGED <<all, todo, closed>>
         \/ \E g \in Threads : \E s : Tells(g, s)
<1>1. ~Restart
  <2>1. crashes \in Int
    BY DEF Typed, TypeOK
  <2> QED
    BY <2>1 DEF Restart
<1> QED
  BY <1>1, CallTells, DueTells, StepTells
     DEF Next, Threads, SetBlocklist, vars, world, service

\* Notifications whose id was given out and is nobody's now: no arrival can
\* take it any more.
Gone == {n \in Notification :
           /\ n.id =< next /\ owners[n.id] = NoOwner
           /\ \A m \in all : m.id # n.id}

LEMMA GoneStays ==
  ASSUME Named, Typed, Numbered, Numbered', [Next]_vars, crashes' = crashes
  PROVE  Gone \subseteq Gone' /\ Left \subseteq Gone'
<1>1. next \in Int /\ next' \in Int /\ Ids \subseteq Int
      /\ \A n \in Notification : n.id \in Ids
  BY NextTyped DEF Typed, TypeOK, Ids, Notification
<1>0. \A i \in Ids : i =< next /\ next =< next' => i =< next'
  BY <1>1
<1>2. CASE \E g \in Callers, app \in Apps, replaces \in 0 .. MaxId, kind \in Kinds :
              Notify(g, app, replaces, kind)
  <2>1. PICK g \in Callers, app \in Apps, replaces \in 0 .. MaxId, kind \in Kinds :
           Notify(g, app, replaces, kind)
    BY <1>2
  <2> DEFINE id == ResolvedId(app, replaces)
  <2>2. id \in Ids /\ owners' = [owners EXCEPT ![id] = app]
        /\ \A m \in all' : m \in all \/ m.id = id
    <3>1. Without(all, id) \subseteq all
      BY DEF Without
    <3> QED
      BY <2>1, <3>1 DEF Notify
  <2>3. app # NoOwner
    BY NamesAssumption
  <2>4. next =< next'
    <3>1. next' = next \/ next' = next + 1
      BY <2>1 DEF Notify
    <3> QED
      BY <1>1, <3>1
  <2>5. \A n \in Gone : n.id # id
    <3>1. owners[id] = app \/ id = next + 1
      BY <2>2, ResolvedFacts
    <3> QED
      BY <1>1, <2>3, <3>1 DEF Gone
  <2> HIDE DEF id
  <2>6. ASSUME NEW n \in Gone PROVE n \in Gone'
    <3>1. n \in Notification /\ n.id \in Ids /\ n.id # id /\ n.id =< next
      BY <1>1, <2>5 DEF Gone
    <3>2. owners'[n.id] = NoOwner /\ \A m \in all' : m.id # n.id
      BY <2>2, <3>1 DEF Gone, Typed, TypeOK
    <3>3. n.id =< next'
      BY <1>0, <2>4, <3>1
    <3> QED
      BY <3>1, <3>2, <3>3 DEF Gone
  <2>7. ASSUME NEW n \in Left PROVE n \in Gone'
    <3>1. n \in Notification /\ n.id \in Ids /\ n.id =< next
          /\ owners'[n.id] = NoOwner /\ \A m \in all' : m.id # n.id
      BY <1>1 DEF Left, Numbered, Typed, TypeOK
    <3>2. n.id =< next'
      BY <1>0, <2>4, <3>1
    <3> QED
      BY <3>1, <3>2 DEF Gone
  <2> QED
    BY <2>6, <2>7
<1>3. CASE ~\E g \in Callers, app \in Apps, replaces \in 0 .. MaxId, kind \in Kinds :
               Notify(g, app, replaces, kind)
  <2>1. Shrinks
    BY <1>3, HistoryShrinks
  <2>2. ASSUME NEW n \in Gone PROVE n \in Gone'
    <3>1. n \in Notification /\ n.id \in Ids /\ n.id =< next
      BY <1>1 DEF Gone
    <3>2. n.id =< next'
      BY <1>0, <2>1, <3>1 DEF Shrinks
    <3>3. owners'[n.id] = NoOwner /\ \A m \in all' : m.id # n.id
      BY <2>1, <3>1 DEF Gone, Shrinks
    <3> QED
      BY <3>1, <3>2, <3>3 DEF Gone
  <2>3. ASSUME NEW n \in Left PROVE n \in Gone'
    <3>1. n \in Notification /\ n.id \in Ids /\ n.id =< next
          /\ owners'[n.id] = NoOwner /\ \A m \in all' : m.id # n.id
      BY <1>1 DEF Left, Numbered, Typed, TypeOK
    <3>2. n.id =< next'
      BY <1>0, <2>1, <3>1 DEF Shrinks
    <3> QED
      BY <3>1, <3>2 DEF Gone
  <2> QED
    BY <2>2, <2>3
<1> QED
  BY <1>2, <1>3
\* What is announced, or about to be, is gone, and each notification is with
\* one op of one goroutine, or was announced.
Silenced ==
  /\ closed \subseteq Gone
  /\ \A g \in Threads :
       /\ Distinct(todo[g]) /\ Says(todo[g]) \subseteq Gone
       /\ Says(todo[g]) \cap closed = {}
       /\ \A h \in Threads \ {g} : Says(todo[g]) \cap Says(todo[h]) = {}

\* Before anything is said.
LEMMA NothingSaid ==
  ASSUME closed = {}, todo = [g \in Threads |-> << >>]
  PROVE  Silenced
BY SaysLists DEF Silenced

LEMMA GoneIsNotStored == Gone \cap all = {}
BY DEF Gone

LEMMA OnlyRestartCrashes ==
  ASSUME [Next]_vars, ~Restart
  PROVE  crashes' = crashes
<1>1. ASSUME NEW g, NEW app, NEW replaces, NEW kind,
             Notify(g, app, replaces, kind)
      PROVE  crashes' = crashes
  BY <1>1 DEF Notify, world
<1>2. ASSUME NEW g, BusCall(g) PROVE crashes' = crashes
  BY <1>1, <1>2 DEF BusCall, NotifyBlocked, Close, DismissAll, SetDND,
     ToggleDND, world
<1>3. ASSUME NEW g, CardCall(g) PROVE crashes' = crashes
  BY <1>3 DEF CardCall, DismissPopup, InvokeAction, InhibitPopup,
     ReleasePopup, world
<1>4. ASSUME NEW g, Due(g) PROVE crashes' = crashes
  BY <1>4 DEF Due, PopupDue, ExpiryDue, world
<1>5. ASSUME NEW g, Step(g) PROVE crashes' = crashes
  BY <1>5 DEF Step, StoreAdd, StoreRemove, EmitClosed, PublishEvent,
     EmitInvoked, Sweep, SaveDND, Close, DismissPopup, InvokeAction,
     ExpiryFired, PopupFired, world
<1> QED
  BY <1>2, <1>3, <1>4, <1>5 DEF Next, Call, SetBlocklist, vars, world

LEMMA NextSilenced ==
  Named /\ Typed /\ Numbered /\ Numbered' /\ Silenced /\ [Next]_vars => Silenced'
<1> SUFFICES ASSUME Named, Typed, Numbered, Numbered', Silenced, [Next]_vars
             PROVE  Silenced'
  OBVIOUS
<1>1. CASE Restart
  <2>1. closed' = {} /\ todo' = [g \in Threads |-> << >>]
    BY <1>1 DEF Restart
  <2> QED
    BY <2>1, SaysLists DEF Silenced
<1>2. CASE ~Restart
  <2>1. crashes' = crashes
    BY <1>2, OnlyRestartCrashes
  <2>2. Gone \subseteq Gone' /\ Left \subseteq Gone'
    BY <2>1, GoneStays
  <2>3. Orderly
    BY GoneIsNotStored DEF Orderly, Silenced
  <2>4. CASE UNCHANGED <<todo, closed>>
    BY <2>2, <2>4 DEF Silenced
  <2>5. ASSUME NEW g \in Threads, NEW s, Tells(g, s) PROVE Silenced'
    <3>1. todo'[g] = s /\ \A h \in Threads \ {g} : todo'[h] = todo[h]
      BY <2>5 DEF Tells, Typed, TypeOK
    <3>2. Left \subseteq all
      BY DEF Left
    <3>3. /\ Says(s) \subseteq Says(todo[g]) \cup Left
          /\ closed' \subseteq closed \cup (Says(todo[g]) \ Says(s))
          /\ Distinct(s)
      BY <2>5 DEF Tells
    <3>4. Left \cap closed = {} /\ \A h \in Threads : Left \cap Says(todo[h]) = {}
      BY <3>2, GoneIsNotStored DEF Silenced
    <3>5. closed' \subseteq Gone' /\ Says(s) \subseteq Gone'
      BY <2>2, <3>3 DEF Silenced
    <3>6. Says(s) \cap closed' = {}
      BY <3>3, <3>4 DEF Silenced
    <3>7. ASSUME NEW h \in Threads \ {g}
          PROVE  /\ Distinct(todo[h]) /\ Says(todo[h]) \subseteq Gone'
                 /\ Says(todo[h]) \cap closed' = {}
                 /\ Says(todo[h]) \cap Says(s) = {}
      <4>1. Says(todo[h]) \cap Says(todo[g]) = {} /\ Says(todo[h]) \cap closed = {}
        BY DEF Silenced
      <4> QED
        BY <2>2, <3>3, <3>4, <4>1 DEF Silenced
    <3>8. ASSUME NEW h \in Threads \ {g}, NEW k \in Threads \ {g}, h # k
          PROVE  Says(todo[h]) \cap Says(todo[k]) = {}
      BY <3>8 DEF Silenced
    <3> QED
      BY <3>1, <3>3, <3>5, <3>6, <3>7, <3>8 DEF Silenced
  <2> QED
    BY <2>1, <2>3, <2>4, <2>5, NextTells
<1> QED
  BY <1>1, <1>2

LEMMA AlwaysSilenced == Named => (Spec => [](Typed /\ Silenced))
<1> SUFFICES ASSUME Named PROVE Spec => [](Typed /\ Silenced)
  OBVIOUS
<1>1. Init => Silenced
  BY NothingSaid DEF Init
<1>2. Typed /\ Coherent /\ Numbered /\ Numbered' /\ Silenced /\ [Next]_vars
        => Silenced'
  BY NextSilenced
<1> QED
  BY <1>1, <1>2, AlwaysNumbered, AlwaysCoherent, PTL DEF Spec

\* An id that was closed is never given to a later notification: arrivals take
\* an id their application owns or the next one, and a close gives it up.
THEOREM ClosedIdsStayClosed == Named => (Spec => []ClosedIdStaysClosed)
<1> SUFFICES ASSUME Named PROVE Spec => []ClosedIdStaysClosed
  OBVIOUS
<1>1. Typed /\ Silenced => ClosedIdStaysClosed
  BY DEF Silenced, Gone, ClosedIdStaysClosed
<1> QED
  BY <1>1, AlwaysSilenced, PTL

\* Of any number of goroutines that close, dismiss or expire it, one announces
\* a notification, once, and after it has left the history.
THEOREM ClosesOnce == Named => (Spec => []ClosedOnce)
<1> SUFFICES ASSUME Named PROVE Spec => []ClosedOnce
  OBVIOUS
<1>1. Typed /\ Silenced => ClosedOnce
  BY UnannouncedIsSaid, GoneIsNotStored DEF Silenced, ClosedOnce
<1> QED
  BY <1>1, AlwaysSilenced, PTL
-----------------------------------------------------------------------------
\* The promise of a notification server.

LEMMA LeavingIsSaid ==
  Typed => \A n : n \in Leaving <=> \E g \in Threads : n \in Says(todo[g])
BY UnannouncedIsSaid DEF Leaving

\* An arrival is one of the server: it takes the place of an entry that its
\* application owns, under an id that nobody has given up.
LEMMA NotifyServes ==
  ASSUME Named, Typed, Coherent, Numbered, Silenced,
         NEW g \in Callers, NEW app \in Apps, NEW replaces \in 0 .. MaxId,
         NEW kind \in Kinds, Notify(g, app, replaces, kind),
         UNCHANGED <<Leaving, closed, crashes>>
  PROVE  \E n \in Notification : Server!Arrive(n)
<1> DEFINE id == ResolvedId(app, replaces)
           n  == [id |-> id, app |-> app, stamp |-> stamp + 1, ttl |-> kind.ttl,
                  transient |-> kind.transient, resident |-> kind.resident]
<1>1. id \in Ids /\ stamp + 1 \in Stamps
  BY BoundsAssumption DEF Notify, Typed, TypeOK, Stamps
<1>2. n \in Notification
  BY <1>1, KindsAssumption DEF Notification, Names
<1>3. /\ next \in Int /\ app # NoOwner
      /\ owners[id] = app \/ id = next + 1
  BY <1>1, NamesAssumption, ResolvedFacts DEF Typed, TypeOK
<1>4. /\ Without(all, id) = {m \in all : m.id # id}
      /\ all' = IF n.transient THEN Without(all, id) ELSE Without(all, id) \cup {n}
  BY WithoutUnique DEF Notify, Typed, TypeOK, UniqueIds
<1>5. n.id = id /\ n.app = app
  OBVIOUS
<1> HIDE DEF id, n
<1>6. Server!WithId(Leaving \cup closed, id) = {}
  <2>1. Leaving \cup closed \subseteq Gone
    BY LeavingIsSaid DEF Silenced
  <2>2. \A m \in Gone : m.id \in Int
    BY DEF Gone, Notification, Ids
  <2> QED
    BY <1>3, <2>1, <2>2 DEF Server!WithId, Gone
<1>7. \A m \in Server!WithId(all, id) : m.app = app
  <2> SUFFICES ASSUME NEW m \in all, m.id = id PROVE m.app = app
    BY DEF Server!WithId
  <2>1. m.id =< next /\ m.id \in Int
    BY DEF Numbered, Typed, TypeOK, Notification, Ids
  <2> QED
    BY <1>3, <2>1 DEF Coherent, StoredIsOwned, OwnerName
<1>8. all' = (all \ Server!WithId(all, id)) \cup (IF n.transient THEN {} ELSE {n})
  BY <1>4 DEF Server!WithId
<1> QED
  BY <1>2, <1>5, <1>6, <1>7, <1>8 DEF Server!Arrive

\* Every step is one of the server.
LEMMA StepServes ==
  ASSUME Named, Typed, Coherent, Numbered, Silenced, Typed', Silenced',
         [Next]_vars
  PROVE  [Server!Next]_(Server!vars)
<1>0. /\ \A n : n \in Leaving <=> \E h \in Threads : n \in Says(todo[h])
      /\ \A n : n \in Leaving' <=> \E h \in Threads : n \in Says(todo'[h])
  <2>1. /\ \A h \in Threads : DOMAIN todo[h] = 1 .. Len(todo[h])
        /\ \A h \in Threads : DOMAIN todo'[h] = 1 .. Len(todo'[h])
    BY DEF Typed, TypeOK
  <2> QED
    BY <2>1 DEF Leaving, Unannounced, Says
<1>1. CASE Restart
  <2>1. all' \subseteq Notification /\ \A m, n \in all' : m.id = n.id => m = n
    BY DEF Typed, TypeOK, UniqueIds, Unique
  <2>2. Leaving' = {} /\ closed' = {}
    <3>1. \A g \in Threads : Says(todo'[g]) = {}
      BY <1>1, SaysLists DEF Restart
    <3> QED
      BY <1>0, <1>1, <3>1 DEF Restart
  <2>3. crashes' = crashes + 1
    BY <1>1 DEF Restart
  <2> QED
    BY <2>1, <2>2, <2>3 DEF Server!Next, Server!Resume
<1>2. CASE ~Restart
  <2>1. crashes' = crashes
    BY <1>2, OnlyRestartCrashes
  <2>2. Orderly
    BY GoneIsNotStored DEF Orderly, Silenced
  <2>3. CASE UNCHANGED <<all, todo, closed>>
    BY <2>1, <2>3 DEF Server!vars, Leaving, Unannounced
  <2>4. ASSUME NEW g \in Threads, NEW s, Tells(g, s)
        PROVE  [Server!Next]_(Server!vars)
    <3> DEFINE R == UNION {Says(todo[h]) : h \in Threads \ {g}}
    <3>1. todo'[g] = s /\ \A h \in Threads \ {g} : todo'[h] = todo[h]
      BY <2>4 DEF Tells, Typed, TypeOK
    <3>2. Leaving = Says(todo[g]) \cup R /\ Leaving' = Says(s) \cup R
      BY <1>0, <3>1
    <3>3. Leaving \cap closed = {} /\ Leaving' \cap closed' = {}
      BY <1>0 DEF Silenced
    <3>4. Left \cap (Leaving \cup closed) = {}
      <4>1. Leaving \cup closed \subseteq Gone
        BY LeavingIsSaid DEF Silenced
      <4> QED
        BY <4>1, GoneIsNotStored DEF Left
    <3> HIDE DEF R
    <3>5. /\ Says(s) \subseteq Says(todo[g]) \cup Left
          /\ Says(todo[g]) \cup Left \subseteq Says(s) \cup closed'
          /\ \/ UNCHANGED closed
             \/ Left = {} /\ \E n \in Says(todo[g]) : closed' = closed \cup {n}
      BY <2>4 DEF Tells
    <3>6. UNCHANGED closed => Leaving' = Leaving \cup Left
      BY <3>2, <3>3, <3>4, <3>5
    <3>7. CASE \E h \in Callers, app \in Apps, replaces \in 0 .. MaxId, kind \in Kinds :
                  Notify(h, app, replaces, kind)
      <4>1. PICK h \in Callers, app \in Apps, replaces \in 0 .. MaxId, kind \in Kinds :
               Notify(h, app, replaces, kind)
        BY <3>7
      <4>2. UNCHANGED closed /\ Left = {}
        <5>1. h \in Threads
          BY DEF Threads
        <5> QED
          BY <4>1, <5>1, NotifyLeavesNone DEF Notify, world
      <4>3. PICK n \in Notification : Server!Arrive(n)
        BY <2>1, <3>6, <4>1, <4>2, NotifyServes
      <4> QED
        BY <4>3 DEF Server!Next
    <3>8. CASE ~\E h \in Callers, app \in Apps, replaces \in 0 .. MaxId, kind \in Kinds :
                  Notify(h, app, replaces, kind)
      <4>1. Shrinks
        BY <2>1, <3>8, HistoryShrinks
      <4>2. all' \subseteq all /\ Left = all \ all'
        BY <4>1 DEF Shrinks, Left, Typed, UniqueIds, Unique
      <4>3. CASE UNCHANGED closed
        BY <2>1, <3>6, <4>2, <4>3 DEF Server!Next, Server!Leave
      <4>4. CASE ~UNCHANGED closed
        <5>1. PICK n \in Says(todo[g]) : closed' = closed \cup {n}
          BY <3>5, <4>4
        <5>2. all' = all /\ Left = {}
          BY <3>5, <4>2, <4>4
        <5>3. n \in Leaving /\ Leaving' = Leaving \ {n}
          BY <3>2, <3>3, <3>5, <5>1, <5>2
        <5> QED
          BY <2>1, <5>1, <5>2, <5>3 DEF Server!Next, Server!Tell
      <4> QED
        BY <4>3, <4>4
    <3> QED
      BY <3>7, <3>8
  <2> QED
    BY <2>1, <2>2, <2>3, <2>4, NextTells
<1> QED
  BY <1>1, <1>2

LEMMA ServerInit == Init => Server!Init
<1> SUFFICES ASSUME Init PROVE Server!Init
  OBVIOUS
<1>1. \A g \in Threads : Unannounced(g) = {}
  BY DEF Init, Unannounced
<1> QED
  BY <1>1 DEF Init, Server!Init, Leaving

\* The service implements NotificationServer for any number of applications,
\* goroutines, arrivals and restarts: a stored notification is replaced by one
\* of its own application or announced as closed exactly once, whichever
\* closes, dismissals and expiries meet, and its id stays closed.
THEOREM PromiseIsKept == Named => (Spec => ServesAsPromised)
<1> SUFFICES ASSUME Named PROVE Spec => ServesAsPromised
  OBVIOUS
<1>1. Init => Server!Init
  BY ServerInit
<1>2. Typed /\ Coherent /\ Numbered /\ Silenced /\ Typed' /\ Silenced' /\ [Next]_vars
        => [Server!Next]_(Server!vars)
  BY StepServes
<1> QED
  BY <1>1, <1>2, AlwaysSilenced, AlwaysNumbered, AlwaysCoherent, PTL
     DEF Spec, ServesAsPromised, Server!Spec

-----------------------------------------------------------------------------
\* The popup surface: orders of cards.

\* A sequence of cards from top to bottom, newest first or oldest first.
InOrder(s, newestFirst) ==
  \A i, j \in DOMAIN s : i < j => ((s[i].stamp > s[j].stamp) <=> newestFirst)

\* Of cards with different stamps one comes last.
LEMMA LastCard ==
  ASSUME NEW S \in SUBSET Card, S # {}, NEW newestFirst \in BOOLEAN,
         \A c, d \in S : c.stamp = d.stamp => c = d
  PROVE  \E m \in S : \A c \in S \ {m} : (c.stamp > m.stamp) <=> newestFirst
<1> DEFINE key(c) == IF newestFirst THEN c.stamp ELSE MaxStamp - c.stamp
           K == {key(c) : c \in S}
<1>1. \A c \in S : c.stamp \in 1 .. MaxStamp /\ key(c) \in Nat
  BY BoundsAssumption DEF Card, Stamps
<1>2. K \subseteq Nat /\ K # {}
  BY <1>1
<1>3. PICK k \in K : \A l \in K : ~ (<<l, k>> \in OpToRel(<, Nat))
  <2> HIDE DEF K
  <2> QED
    BY <1>2, NatLessThanWellFounded, WFMin
<1>4. PICK m \in S : k = key(m)
  OBVIOUS
<1>5. \A c \in S : ~ (key(c) < key(m))
  BY <1>1, <1>3, <1>4 DEF OpToRel
<1>6. \A c \in S \ {m} : c.stamp # m.stamp
  OBVIOUS
<1> QED
  BY <1>1, <1>5, <1>6, BoundsAssumption

LEMMA EmptyOrder == \E s \in SetToSeqs({}) : \A newestFirst : InOrder(s, newestFirst)
<1>1. Cardinality({}) = 0
  BY FS_EmptySet
<1>2. << >> \in SetToSeqs({})
  BY <1>1 DEF SetToSeqs
<1> QED
  BY <1>2 DEF InOrder

\* A card that comes last goes behind the others in order.
LEMMA OrderGrows ==
  ASSUME NEW U \in SUBSET Card, IsFiniteSet(U), NEW m \in U,
         NEW newestFirst \in BOOLEAN,
         \A c \in U \ {m} : (c.stamp > m.stamp) <=> newestFirst,
         NEW s \in SetToSeqs(U \ {m}), InOrder(s, newestFirst)
  PROVE  \E t \in SetToSeqs(U) : InOrder(t, newestFirst)
<1> DEFINE n == Cardinality(U \ {m})
           t == [i \in 1 .. n + 1 |-> IF i =< n THEN s[i] ELSE m]
<1>1. n \in Nat /\ Cardinality(U) = n + 1
  <2>1. /\ IsFiniteSet(U \ {m}) /\ Cardinality(U \ {m}) = Cardinality(U) - 1
    BY FS_RemoveElement
  <2>2. n \in Nat /\ Cardinality(U) \in Nat
    BY <2>1, FS_CardinalityType
  <2> QED
    BY <2>1, <2>2
<1>2. s \in [1 .. n -> U \ {m}] /\ \A i, j \in 1 .. n : i # j => s[i] # s[j]
  BY DEF SetToSeqs
<1> HIDE DEF n
<1>3. t \in [1 .. n + 1 -> U]
  BY <1>1, <1>2
<1>4. \A i, j \in 1 .. n + 1 : i # j => t[i] # t[j]
  BY <1>1, <1>2
<1>5. t \in SetToSeqs(U)
  BY <1>1, <1>3, <1>4 DEF SetToSeqs
<1>6. InOrder(t, newestFirst)
  <2> SUFFICES ASSUME NEW i \in 1 .. n + 1, NEW j \in 1 .. n + 1, i < j
               PROVE  (t[i].stamp > t[j].stamp) <=> newestFirst
    BY <1>3 DEF InOrder
  <2>1. i \in 1 .. n /\ t[i] = s[i]
    BY <1>1
  <2>2. CASE j \in 1 .. n
    BY <1>1, <1>2, <2>1, <2>2 DEF InOrder
  <2>3. CASE j = n + 1
    BY <1>1, <1>2, <2>1, <2>3
  <2> QED
    BY <1>1, <2>2, <2>3
<1> QED
  BY <1>5, <1>6

\* Finitely many cards with different stamps have an order: a smallest set of
\* them that had none would have a last card, and the others an order.
LEMMA OrderExists ==
  ASSUME NEW S \in SUBSET Card, IsFiniteSet(S), NEW newestFirst \in BOOLEAN,
         \A c, d \in S : c.stamp = d.stamp => c = d
  PROVE  \E s \in SetToSeqs(S) : InOrder(s, newestFirst)
<1> DEFINE T == {U \in SUBSET S : ~\E s \in SetToSeqs(U) : InOrder(s, newestFirst)}
<1> SUFFICES ASSUME T # {} PROVE FALSE
  OBVIOUS
<1>1. IsWellFoundedOn(StrictSubsetOrdering(S), SUBSET S)
  BY FS_StrictSubsetOrderingWellFounded, FS_FiniteSubsetsOfFinite
<1>2. T \subseteq SUBSET S
  OBVIOUS
<1>3. PICK U \in T : \A V \in T : ~ (<<V, U>> \in StrictSubsetOrdering(S))
  <2> HIDE DEF T
  <2> QED
    BY <1>1, <1>2, WFMin
<1>4. U \in SUBSET S /\ IsFiniteSet(U)
  BY <1>2, FS_Subset
<1>5. U # {}
  BY EmptyOrder
<1>6. PICK m \in U : \A c \in U \ {m} : (c.stamp > m.stamp) <=> newestFirst
  BY <1>4, <1>5, LastCard
<1>7. <<U \ {m}, U>> \in StrictSubsetOrdering(S)
  BY <1>4 DEF StrictSubsetOrdering
<1>8. U \ {m} \notin T
  BY <1>3, <1>7
<1>9. PICK s \in SetToSeqs(U \ {m}) : InOrder(s, newestFirst)
  BY <1>4, <1>8
<1> QED
  BY <1>4, <1>6, <1>9, OrderGrows

\* Cards with different stamps laid out: each of them, once.
LEMMA ByStampFacts ==
  ASSUME NEW S \in SUBSET Card, IsFiniteSet(S), NEW newestFirst \in BOOLEAN,
         \A c, d \in S : c.stamp = d.stamp => c = d,
         NEW s, s = ByStamp(S, newestFirst)
  PROVE  /\ s \in Seq(S)
         /\ \A i, j \in 1 .. Len(s) : s[i] = s[j] => i = j
         /\ \A c \in S : \E i \in 1 .. Len(s) : s[i] = c
<1> DEFINE D == 1 .. Cardinality(S)
<1>1. s \in SetToSeqs(S)
  BY OrderExists DEF ByStamp, InOrder
<1>2. s \in [D -> S] /\ \A i, j \in D : i # j => s[i] # s[j]
  BY <1>1 DEF SetToSeqs
<1>3. Cardinality(S) \in Nat /\ IsFiniteSet(D) /\ Cardinality(D) = Cardinality(S)
  BY FS_CardinalityType, FS_Interval
<1>4. s \in Seq(S) /\ Len(s) = Cardinality(S)
  BY <1>2, <1>3
<1>5. \A c \in S : \E i \in D : s[i] = c
  <2> HIDE DEF D
  <2>1. s \in Injection(D, S)
    BY <1>2, Fun_IsInj
  <2>2. s \in Surjection(D, S)
    BY <1>3, <2>1, FS_Injection
  <2> QED
    BY <2>2, Fun_SurjectionProperties
<1> QED
  BY <1>2, <1>4, <1>5

\* Finitely many notifications have finitely many cards, and different ones.
LEMMA NewCards ==
  ASSUME NEW E \in SUBSET Notification, IsFiniteSet(E),
         \A m, n \in E : m.stamp = n.stamp => m = n,
         NEW C, C = {NewCard(n) : n \in E}
  PROVE  /\ C \in SUBSET Card
         /\ IsFiniteSet(C)
         /\ \A c, d \in C : c.stamp = d.stamp => c = d
<1> DEFINE f == [n \in E |-> NewCard(n)]
<1>1. \A n \in E : NewCard(n) \in Card /\ NewCard(n).stamp = n.stamp
  BY DEF NewCard, Card, Notification
<1>2. f \in Surjection(E, C)
  BY DEF Surjection
<1>3. IsFiniteSet(C)
  BY <1>2, FS_Surjection
<1> QED
  BY <1>1, <1>3

\* r is s with each of the cards put in once, before it or behind it.
Added(r, s, k) == (1 .. Len(r)) \ (k + 1 .. k + Len(s))
Lays(r, s, cards, k) ==
  /\ k + Len(s) =< Len(r)
  /\ \A i \in 1 .. Len(s) : r[k + i] = s[i]
  /\ \A j \in Added(r, s, k) : r[j] \in cards
  /\ \A j, l \in Added(r, s, k) : r[j] = r[l] => j = l
  /\ \A c \in cards : \E j \in Added(r, s, k) : r[j] = c

LEMMA PlacedFacts ==
  ASSUME NEW s \in Seq(Card), NEW E \in SUBSET Notification, IsFiniteSet(E),
         \A m, n \in E : m.stamp = n.stamp => m = n,
         NEW newestFirst \in BOOLEAN, NEW r, r = Placed(s, E, newestFirst)
  PROVE  r \in Seq(Card)
         /\ \E k \in Nat : Lays(r, s, {NewCard(n) : n \in E}, k)
<1> DEFINE C == {NewCard(n) : n \in E}
           b == ByStamp(C, newestFirst)
<1>1. /\ C \in SUBSET Card
      /\ IsFiniteSet(C)
      /\ \A c, d \in C : c.stamp = d.stamp => c = d
  <2> HIDE DEF b
  <2> QED
    BY NewCards
<1>2. r = IF newestFirst THEN b \o s ELSE s \o b
  BY DEF Placed
<1> HIDE DEF C
<1>3. /\ b \in Seq(C)
      /\ \A i, j \in 1 .. Len(b) : b[i] = b[j] => i = j
      /\ \A c \in C : \E i \in 1 .. Len(b) : b[i] = c
  BY <1>1, ByStampFacts
<1> HIDE DEF b
<1>4. b \in Seq(Card) /\ Len(b) \in Nat /\ Len(s) \in Nat
  BY <1>1, <1>3
<1>5. \A i \in 1 .. Len(b) : b[i] \in C
  BY <1>3
<1>6. CASE newestFirst
  <2>1. r = b \o s
    BY <1>2, <1>6
  <2>2. r \in Seq(Card) /\ Len(r) = Len(b) + Len(s)
        /\ (\A i \in 1 .. Len(b) : r[i] = b[i])
        /\ \A i \in 1 .. Len(s) : r[Len(b) + i] = s[i]
    BY <1>4, <2>1
  <2>3. Added(r, s, Len(b)) = 1 .. Len(b)
    BY <1>4, <2>2 DEF Added
  <2>4. /\ \A j \in Added(r, s, Len(b)) : r[j] = b[j]
        /\ Len(b) + Len(s) =< Len(r)
    BY <1>4, <2>2, <2>3
  <2>5. \A j, l \in Added(r, s, Len(b)) : r[j] = r[l] => j = l
    <3> SUFFICES ASSUME NEW j \in 1 .. Len(b), NEW l \in 1 .. Len(b), r[j] = r[l]
                 PROVE  j = l
      BY <2>3
    <3>1. b[j] = b[l]
      BY <2>2
    <3> QED
      BY <1>3, <3>1
  <2>6. \A c \in C : \E j \in Added(r, s, Len(b)) : r[j] = c
    <3> SUFFICES ASSUME NEW c \in C PROVE \E j \in 1 .. Len(b) : r[j] = c
      BY <2>3
    <3>1. PICK i \in 1 .. Len(b) : b[i] = c
      BY <1>3
    <3>2. r[i] = c
      BY <2>2, <3>1
    <3> QED
      BY <3>2
  <2>7. \A j \in Added(r, s, Len(b)) : r[j] \in C
    BY <1>5, <2>3, <2>4
  <2>8. Lays(r, s, C, Len(b))
    BY <2>2, <2>4, <2>5, <2>6, <2>7 DEF Lays
  <2> QED
    BY <1>4, <2>2, <2>8 DEF C
<1>7. CASE ~newestFirst
  <2>1. r = s \o b
    BY <1>2, <1>7
  <2>2. r \in Seq(Card) /\ Len(r) = Len(s) + Len(b)
        /\ (\A i \in 1 .. Len(s) : r[i] = s[i])
        /\ \A i \in 1 .. Len(b) : r[Len(s) + i] = b[i]
    BY <1>4, <2>1
  <2>3. Added(r, s, 0) = Len(s) + 1 .. Len(s) + Len(b)
    BY <1>4, <2>2 DEF Added
  <2>4. \A j \in Added(r, s, 0) : \E i \in 1 .. Len(b) :
           j = Len(s) + i /\ r[j] = b[i]
    <3> SUFFICES ASSUME NEW j \in Added(r, s, 0)
                 PROVE  \E i \in 1 .. Len(b) : j = Len(s) + i /\ r[j] = b[i]
      OBVIOUS
    <3>1. j - Len(s) \in 1 .. Len(b) /\ j = Len(s) + (j - Len(s))
      BY <1>4, <2>3
    <3> QED
      BY <2>2, <3>1
  <2>5. \A j \in Added(r, s, 0) : r[j] \in C
    BY <1>5, <2>4
  <2>6. \A j, l \in Added(r, s, 0) : r[j] = r[l] => j = l
    <3> SUFFICES ASSUME NEW j \in Added(r, s, 0), NEW l \in Added(r, s, 0),
                        r[j] = r[l]
                 PROVE  j = l
      OBVIOUS
    <3>1. PICK i \in 1 .. Len(b) : j = Len(s) + i /\ r[j] = b[i]
      BY <2>4
    <3>2. PICK h \in 1 .. Len(b) : l = Len(s) + h /\ r[l] = b[h]
      BY <2>4
    <3>3. i = h
      BY <1>3, <3>1, <3>2
    <3> QED
      BY <3>1, <3>2, <3>3
  <2>7. \A c \in C : \E j \in Added(r, s, 0) : r[j] = c
    <3> SUFFICES ASSUME NEW c \in C PROVE \E j \in Added(r, s, 0) : r[j] = c
      OBVIOUS
    <3>1. PICK i \in 1 .. Len(b) : b[i] = c
      BY <1>3
    <3>2. Len(s) + i \in Added(r, s, 0) /\ r[Len(s) + i] = c
      BY <1>4, <2>2, <2>3, <3>1
    <3> QED
      BY <3>2
  <2>8. \A i \in 1 .. Len(s) : r[0 + i] = s[i]
    BY <2>2
  <2>9. 0 + Len(s) =< Len(r)
    BY <1>4, <2>2
  <2>10. Lays(r, s, C, 0)
    BY <2>5, <2>6, <2>7, <2>8, <2>9 DEF Lays
  <2> QED
    BY <2>2, <2>10 DEF C
<1> QED
  BY <1>6, <1>7

-----------------------------------------------------------------------------
\* The popup surface: what it shows.

\* The popups arrived one after the other.
Stamped ==
  /\ \A n \in popups : n.stamp =< stamp
  /\ \A m, n \in popups : m.stamp = n.stamp => m = n

LEMMA PopupsAreFinite ==
  ASSUME Typed
  PROVE  IsFiniteSet(popups)
<1> DEFINE f == [n \in popups |-> n.id]
<1>1. popups \subseteq Notification /\ Unique(popups)
  BY DEF Typed, TypeOK, UniqueIds
<1>2. f \in [popups -> Ids]
  BY <1>1 DEF Notification
<1>3. \A m, n \in popups : f[m] = f[n] => m = n
  BY <1>1 DEF Unique
<1>4. f \in Injection(popups, Ids)
  <2> HIDE DEF f
  <2> QED
    BY <1>2, <1>3, Fun_IsInj
<1>5. IsFiniteSet(Ids)
  BY BoundsAssumption, FS_Interval DEF Ids
<1> QED
  BY <1>4, <1>5, FS_Injection

\* The oldest popup in sight has the others above it, fewer than the limit.
LEMMA VisibleFacts ==
  ASSUME Typed, Stamped, NEW c \in Configs, NEW V, V = Visible(c)
  PROVE  /\ V \subseteq popups
         /\ IsFiniteSet(V)
         /\ Cardinality(V) =< c.limit
<1>1. V \subseteq popups /\ IsFiniteSet(popups)
  BY PopupsAreFinite DEF Visible
<1>2. IsFiniteSet(V)
  BY <1>1, FS_Subset
<1>3. c.limit \in Nat
  BY ConfigsAssumption
<1>4. CASE V = {}
  BY <1>3, <1>4, FS_EmptySet
<1>5. CASE V # {}
  <2> DEFINE K == {m.stamp : m \in V}
  <2>1. \A m \in popups : m.stamp \in Nat
    BY BoundsAssumption DEF Typed, TypeOK, Notification, Stamps
  <2>2. K \subseteq Nat /\ K # {}
    BY <1>1, <1>5, <2>1
  <2>3. PICK k \in K : \A l \in K : ~ (<<l, k>> \in OpToRel(<, Nat))
    <3> HIDE DEF K
    <3> QED
      BY <2>2, NatLessThanWellFounded, WFMin
  <2>4. PICK n \in V : k = n.stamp
    OBVIOUS
  <2>5. \A m \in V : ~ (m.stamp < n.stamp)
    BY <1>1, <2>1, <2>3, <2>4 DEF OpToRel
  <2> DEFINE W == {m \in popups : m.stamp > n.stamp}
  <2>6. Cardinality(W) < c.limit
    BY DEF Visible
  <2>7. IsFiniteSet(W)
    BY <1>1, FS_Subset
  <2>8. V \ {n} \subseteq W
    <3> SUFFICES ASSUME NEW m \in V, m # n PROVE m.stamp > n.stamp
      BY <1>1
    <3>1. m \in popups /\ n \in popups
      BY <1>1
    <3>2. m.stamp # n.stamp
      BY <3>1 DEF Stamped
    <3> QED
      BY <2>1, <2>5, <3>1, <3>2
  <2> HIDE DEF W
  <2>9. /\ IsFiniteSet(V \ {n})
        /\ Cardinality(V \ {n}) = Cardinality(V) - 1
    BY <1>2, FS_RemoveElement
  <2>10. Cardinality(V \ {n}) =< Cardinality(W)
    BY <2>7, <2>8, FS_Subset
  <2>11. /\ Cardinality(V) \in Nat
         /\ Cardinality(W) \in Nat
    BY <1>2, <2>7, FS_CardinalityType
  <2> QED
    BY <1>1, <1>2, <1>3, <2>6, <2>9, <2>10, <2>11
<1> QED
  BY <1>1, <1>2, <1>4, <1>5

\* The ids of the live cards, and of a stack that shows each id once.
Singly(s) ==
  \A i, j \in 1 .. Len(s) :
    ~s[i].leaving /\ ~s[j].leaving /\ s[i].id = s[j].id => i = j

LEMMA LiveIdsFacts ==
  ASSUME NEW s \in Seq(Card)
  PROVE  \A x : x \in LiveIds(s) <=> \E i \in 1 .. Len(s) : ~s[i].leaving /\ s[i].id = x
BY DEF LiveIds, LiveCards

\* The cards that stay and the ones that start to leave.
LEMMA KeptFacts ==
  ASSUME NEW s \in Seq(Card), NEW live, NEW kept,
         kept = [i \in DOMAIN s |-> [s[i] EXCEPT !.leaving = @ \/ s[i].id \notin live]]
  PROVE  /\ kept \in Seq(Card) /\ Len(kept) = Len(s)
         /\ \A i \in 1 .. Len(s) :
              /\ kept[i].id = s[i].id
              /\ kept[i].leaving <=> s[i].leaving \/ s[i].id \notin live
              /\ ~kept[i].leaving => kept[i] = s[i]
<1>1. DOMAIN s = 1 .. Len(s) /\ Len(s) \in Nat
  OBVIOUS
<1>2. ASSUME NEW i \in 1 .. Len(s)
      PROVE  /\ kept[i] \in Card
             /\ kept[i].id = s[i].id
             /\ kept[i].leaving <=> s[i].leaving \/ s[i].id \notin live
             /\ ~kept[i].leaving => kept[i] = s[i]
  <2>1. s[i] \in Card
    OBVIOUS
  <2>2. PICK b \in BOOLEAN : b <=> s[i].leaving \/ s[i].id \notin live
    OBVIOUS
  <2>3. kept[i] = [s[i] EXCEPT !.leaving = b]
    BY <1>1, <2>2
  <2>4. /\ kept[i] \in Card
        /\ kept[i].id = s[i].id
        /\ kept[i].leaving = b
    BY <2>1, <2>3 DEF Card
  <2>5. b = FALSE /\ s[i].leaving = FALSE => kept[i] = s[i]
    BY <2>1, <2>3 DEF Card
  <2>6. s[i].leaving \in BOOLEAN
    BY <2>1 DEF Card
  <2> QED
    BY <2>2, <2>4, <2>5, <2>6
<1>3. kept \in [1 .. Len(s) -> Card]
  <2>1. kept = [i \in 1 .. Len(s) |-> kept[i]]
    BY <1>1
  <2> QED
    BY <1>2, <2>1
<1>4. kept \in Seq(Card) /\ Len(kept) = Len(s)
  BY <1>1, <1>3
<1> QED
  BY <1>2, <1>4

\* The live cards of s that r still shows are in the same places, counted from
\* some card of r on.
KeepsPlaces(s, r) ==
  \E k \in Nat : \A i \in 1 .. Len(s) :
    ~s[i].leaving /\ s[i].id \in LiveIds(r)
      => k + i \in 1 .. Len(r) /\ r[k + i] = s[i]

\* sync: one live card for each popup in sight, the ones that were there
\* still in their places.
LEMMA ReconciledFacts ==
  ASSUME Typed, Stamped, NEW c \in Configs, NEW s \in Seq(Card), Singly(s),
         NEW r, r = Reconciled(s, c)
  PROVE  /\ r \in Seq(Card)
         /\ Singly(r)
         /\ LiveIds(r) = {n.id : n \in Visible(c)}
         /\ KeepsPlaces(s, r)
<1> DEFINE V    == Visible(c)
           live == {n.id : n \in V}
           kept == [i \in DOMAIN s |-> [s[i] EXCEPT !.leaving = @ \/ s[i].id \notin live]]
           E    == {n \in V : n.id \notin LiveIds(s)}
           C    == {NewCard(n) : n \in E}
<1>1. V \subseteq popups /\ IsFiniteSet(V)
  BY VisibleFacts
<1>2. r = Placed(kept, E, c.newestFirst)
  BY DEF Reconciled
<1> HIDE DEF V
<1>3. /\ E \in SUBSET Notification /\ IsFiniteSet(E)
      /\ \A m, n \in E : m.stamp = n.stamp => m = n
      /\ \A m, n \in E : m.id = n.id => m = n
  BY <1>1, FS_Subset DEF Typed, TypeOK, UniqueIds, Unique, Stamped
<1>4. /\ kept \in Seq(Card) /\ Len(kept) = Len(s)
      /\ \A i \in 1 .. Len(s) :
           /\ kept[i].id = s[i].id
           /\ kept[i].leaving <=> s[i].leaving \/ s[i].id \notin live
           /\ ~kept[i].leaving => kept[i] = s[i]
  BY KeptFacts
<1> HIDE DEF kept, E
<1>5. c.newestFirst \in BOOLEAN
  BY ConfigsAssumption
<1>6. r \in Seq(Card) /\ \E k \in Nat : Lays(r, kept, C, k)
  BY <1>2, <1>3, <1>4, <1>5, PlacedFacts
<1>7. PICK k \in Nat : Lays(r, kept, C, k)
  BY <1>6
<1> DEFINE A == Added(r, kept, k)
<1>8. /\ \A i \in 1 .. Len(s) : k + i \in 1 .. Len(r) /\ r[k + i] = kept[i]
      /\ \A j \in 1 .. Len(r) : j \in A \/ \E i \in 1 .. Len(s) : j = k + i
      /\ A \subseteq 1 .. Len(r)
  <2>1. Len(s) \in Nat /\ Len(r) \in Nat /\ Len(kept) = Len(s)
    BY <1>4, <1>6
  <2>2. \A i \in 1 .. Len(s) : k + i \in 1 .. Len(r) /\ r[k + i] = kept[i]
    BY <1>7, <2>1 DEF Lays
  <2>3. \A j \in k + 1 .. k + Len(s) : j - k \in 1 .. Len(s) /\ j = k + (j - k)
    BY <2>1
  <2> QED
    BY <2>1, <2>2, <2>3 DEF Added
<1>9. /\ \A j \in A : r[j] \in C
      /\ \A j, l \in A : r[j] = r[l] => j = l
      /\ \A d \in C : \E j \in A : r[j] = d
  BY <1>7 DEF Lays
<1> HIDE DEF A
<1>10. \A j \in A : /\ ~r[j].leaving
                    /\ r[j].id \in live
                    /\ r[j].id \notin LiveIds(s)
  BY <1>9 DEF E, NewCard
<1>11. \A j, l \in A : r[j].id = r[l].id => j = l
  <2>1. \A n \in E : NewCard(n).id = n.id
    BY DEF NewCard
  <2>2. \A d, e \in C : d.id = e.id => d = e
    BY <1>3, <2>1
  <2> QED
    BY <1>9, <2>2
<1>12. \A x : x \in LiveIds(s) <=> \E i \in 1 .. Len(s) : ~s[i].leaving /\ s[i].id = x
  BY LiveIdsFacts
<1>13. \A x : x \in LiveIds(r) <=> \E j \in 1 .. Len(r) : ~r[j].leaving /\ r[j].id = x
  BY <1>6, LiveIdsFacts
<1>14. Singly(r)
  <2> SUFFICES ASSUME NEW j \in 1 .. Len(r), NEW l \in 1 .. Len(r),
                      ~r[j].leaving, ~r[l].leaving, r[j].id = r[l].id
               PROVE  j = l
    BY DEF Singly
  <2>1. \A i \in 1 .. Len(s) : ~kept[i].leaving => kept[i].id \in LiveIds(s)
    BY <1>4, <1>12
  <2>2. CASE j \in A /\ l \in A
    BY <1>11, <2>2
  <2>3. CASE j \in A /\ l \notin A
    <3>1. PICK h \in 1 .. Len(s) : l = k + h
      BY <1>8, <2>3
    <3>2. r[l].id \in LiveIds(s)
      BY <1>8, <2>1, <3>1
    <3> QED
      BY <1>10, <2>3, <3>2
  <2>4. CASE j \notin A /\ l \in A
    <3>1. PICK i \in 1 .. Len(s) : j = k + i
      BY <1>8, <2>4
    <3>2. r[j].id \in LiveIds(s)
      BY <1>8, <2>1, <3>1
    <3> QED
      BY <1>10, <2>4, <3>2
  <2>5. CASE j \notin A /\ l \notin A
    <3>1. PICK i \in 1 .. Len(s) : j = k + i
      BY <1>8, <2>5
    <3>2. PICK h \in 1 .. Len(s) : l = k + h
      BY <1>8, <2>5
    <3>3. r[j] = kept[i] /\ r[l] = kept[h]
      BY <1>8, <3>1, <3>2
    <3>4. ~s[i].leaving /\ ~s[h].leaving /\ s[i].id = s[h].id
      BY <1>4, <3>3
    <3>5. i = h
      BY <3>4 DEF Singly
    <3> QED
      BY <3>1, <3>2, <3>5
  <2> QED
    BY <2>2, <2>3, <2>4, <2>5
<1>15. LiveIds(r) = live
  <2>1. ASSUME NEW x \in LiveIds(r) PROVE x \in live
    <3>1. PICK j \in 1 .. Len(r) : ~r[j].leaving /\ r[j].id = x
      BY <1>13
    <3>2. CASE j \in A
      BY <1>10, <3>1, <3>2
    <3>3. CASE j \notin A
      <4>1. PICK i \in 1 .. Len(s) : j = k + i
        BY <1>8, <3>3
      <4>2. r[j] = kept[i]
        BY <1>8, <4>1
      <4> QED
        BY <1>4, <3>1, <4>2
    <3> QED
      BY <3>2, <3>3
  <2>2. ASSUME NEW x \in live PROVE x \in LiveIds(r)
    <3>1. CASE x \in LiveIds(s)
      <4>1. PICK i \in 1 .. Len(s) : ~s[i].leaving /\ s[i].id = x
        BY <1>12, <3>1
      <4>2. ~kept[i].leaving /\ kept[i].id = x
        BY <1>4, <4>1
      <4> QED
        BY <1>8, <1>13, <4>2
    <3>2. CASE x \notin LiveIds(s)
      <4>1. PICK n \in E : n.id = x
        BY <3>2 DEF E
      <4>2. NewCard(n) \in C
        BY <4>1
      <4>3. PICK j \in A : r[j] = NewCard(n)
        BY <1>9, <4>2
      <4>4. r[j].id = x
        BY <4>1, <4>3 DEF NewCard
      <4> QED
        BY <1>8, <1>10, <1>13, <4>3, <4>4
    <3> QED
      BY <3>1, <3>2
  <2> QED
    BY <2>1, <2>2
<1>16. \A i \in 1 .. Len(s) :
          ~s[i].leaving /\ s[i].id \in LiveIds(r)
            => k + i \in 1 .. Len(r) /\ r[k + i] = s[i]
  BY <1>4, <1>8, <1>15
<1>17. KeepsPlaces(s, r)
  BY <1>16 DEF KeepsPlaces
<1> QED
  BY <1>6, <1>14, <1>15, <1>17 DEF V

\* dropCard: the others move up.
LEMMA DropFacts ==
  ASSUME NEW s \in Seq(Card), Singly(s), NEW i \in 1 .. Len(s), s[i].leaving,
         NEW r, r = RemoveAt(s, i)
  PROVE  /\ r \in Seq(Card)
         /\ Singly(r)
         /\ LiveIds(r) = LiveIds(s)
         /\ \A j \in 1 .. Len(r) : r[j] = s[IF j < i THEN j ELSE j + 1]
<1>1. Len(s) \in Nat /\ i \in Nat
  OBVIOUS
<1>2. /\ r \in Seq(Card) /\ Len(r) = Len(s) - 1
      /\ \A j \in 1 .. Len(r) : r[j] = s[IF j < i THEN j ELSE j + 1]
  <2> DEFINE t == SubSeq(s, 1, i - 1)
             u == SubSeq(s, i + 1, Len(s))
  <2>1. /\ t \in Seq(Card) /\ Len(t) = i - 1
        /\ \A j \in 1 .. i - 1 : t[j] = s[j]
    BY <1>1
  <2>2. /\ u \in Seq(Card) /\ Len(u) = Len(s) - i
        /\ \A j \in 1 .. Len(s) - i : u[j] = s[i + j]
    BY <1>1
  <2>3. r = t \o u
    BY DEF RemoveAt
  <2> HIDE DEF t, u
  <2>4. r \in Seq(Card) /\ Len(r) = Len(s) - 1
    BY <1>1, <2>1, <2>2, <2>3
  <2>5. ASSUME NEW j \in 1 .. Len(r) PROVE r[j] = s[IF j < i THEN j ELSE j + 1]
    <3>1. CASE j < i
      BY <1>1, <2>1, <2>2, <2>3, <2>4, <3>1
    <3>2. CASE j >= i
      <4>1. j - (i - 1) \in 1 .. Len(u) /\ i + (j - (i - 1)) = j + 1
        BY <1>1, <2>2, <2>4, <3>2
      <4>2. r[j] = u[j - (i - 1)]
        BY <1>1, <2>1, <2>2, <2>3, <2>4, <3>2
      <4> QED
        BY <1>1, <2>2, <3>2, <4>1, <4>2
    <3> QED
      BY <1>1, <3>1, <3>2
  <2> QED
    BY <2>4, <2>5
<1> DEFINE at(j) == IF j < i THEN j ELSE j + 1
<1>3. /\ \A j \in 1 .. Len(r) : at(j) \in 1 .. Len(s)
      /\ \A j, l \in 1 .. Len(r) : at(j) = at(l) => j = l
  BY <1>1, <1>2
<1>4. \A h \in 1 .. Len(s) : h # i => \E j \in 1 .. Len(r) : h = at(j)
  <2> SUFFICES ASSUME NEW h \in 1 .. Len(s), h # i
               PROVE  \E j \in 1 .. Len(r) : h = at(j)
    OBVIOUS
  <2>1. CASE h < i
    BY <1>1, <1>2, <2>1
  <2>2. CASE h > i
    <3>1. h - 1 \in 1 .. Len(r) /\ h = at(h - 1)
      BY <1>1, <1>2, <2>2
    <3> QED
      BY <3>1
  <2> QED
    BY <1>1, <2>1, <2>2
<1>5. \A j \in 1 .. Len(r) : r[j] = s[at(j)]
  BY <1>2
<1> HIDE DEF at
<1>6. Singly(r)
  BY <1>3, <1>5 DEF Singly
<1>7. LiveIds(r) = LiveIds(s)
  <2>1. \A x : x \in LiveIds(s) <=> \E h \in 1 .. Len(s) : ~s[h].leaving /\ s[h].id = x
    BY LiveIdsFacts
  <2>2. \A x : x \in LiveIds(r) <=> \E j \in 1 .. Len(r) : ~r[j].leaving /\ r[j].id = x
    BY <1>2, LiveIdsFacts
  <2>3. ASSUME NEW x \in LiveIds(r) PROVE x \in LiveIds(s)
    BY <1>3, <1>5, <2>1, <2>2
  <2>4. ASSUME NEW x \in LiveIds(s) PROVE x \in LiveIds(r)
    <3>1. PICK h \in 1 .. Len(s) : ~s[h].leaving /\ s[h].id = x
      BY <2>1
    <3>2. PICK j \in 1 .. Len(r) : h = at(j)
      BY <1>4, <3>1
    <3> QED
      BY <1>5, <2>2, <3>1, <3>2
  <2> QED
    BY <2>3, <2>4
<1> QED
  BY <1>2, <1>6, <1>7

-----------------------------------------------------------------------------
\* The popup surface: what its steps do to the service.

\* What a goroutine may have to do as long as nothing stored has a timeout.
Plain ==
  {o \in Op : /\ o.op # "expiry"
              /\ o.op = "add" => o.n.ttl # "timed"
              /\ o.op = "close" => o.reason # "expired"}

\* The press of a card's button gives its goroutine something to do.
Presses(g, ops) ==
  /\ Idle(g) /\ ops \in Seq(Plain) /\ ops \in Seq(Silent)
  /\ Continue(g, ops, << >>)
  /\ UNCHANGED <<service, storage, tick, stamp, world, host>>

\* A step of the service in the life of one process, or none.
Served ==
  \/ \E g \in Callers : Call(g)
  \/ \E g \in Callbacks : Due(g)
  \/ \E g \in Threads : Step(g)
  \/ \E patterns \in Blocklists : SetBlocklist(patterns)
  \/ UNCHANGED vars

LEMMA ServedIsNext == Served \/ Restart => [Next]_vars
BY DEF Served, Next

\* Whatever else the surface asks of the service, a caller of the service could
\* have asked.
LEMMA HostMoves ==
  ASSUME Typed, HostTypeOK, [HostNext]_hostVars
  PROVE  \/ Served
         \/ Restart /\ stack' = << >> /\ UNCHANGED cfg
         \/ Sync
         \/ \E g \in Callers, ops \in Seq(Plain) : Presses(g, ops)
<1>1. ASSUME NEW g \in Callers, BusCall(g) \/ CardCall(g) PROVE Served
  BY <1>1 DEF Served, Call
<1>2. ASSUME NEW g \in Callers, NEW id \in Ids, CloseCard(g, id) PROVE Served
  <2>1. BusCall(g) \/ CardCall(g)
    BY <1>2 DEF CloseCard, BusCall, CardCall
  <2> QED
    BY <1>1, <2>1
<1>3. ASSUME NEW g \in Callers, NEW id \in Ids,
             PressAction(g, id) \/ PressDefault(g, id)
      PROVE  \E ops \in Seq(Plain) : Presses(g, ops)
  <2>1. "dismissed" \in Reasons /\ 0 \in 0 .. MaxStamp
    BY BoundsAssumption DEF Reasons
  <2>2. /\ CardOp("dismissPopup", id) \in Plain \cap Silent
        /\ CardOp("invoke", id) \in Plain \cap Silent
    BY DEF CardOp, Op, Plain, Silent
  <2>3. CloseOp(id, "dismissed", 0) \in Plain \cap Silent
    <3>1. CloseOp(id, "dismissed", 0) \in Op
      BY <2>1, OpIntro
    <3> QED
      BY <3>1 DEF Plain, Silent, CloseOp
  <2> DEFINE press == <<CardOp("dismissPopup", id), CardOp("invoke", id),
                        CloseOp(id, "dismissed", 0)>>
             last  == IF cfg.closeRemoves THEN CloseOp(id, "dismissed", 0)
                                          ELSE CardOp("dismissPopup", id)
  <2>4. last \in Plain \cap Silent
    BY <2>2, <2>3
  <2>5. /\ press \in Seq(Plain) /\ <<CardOp("invoke", id), last>> \in Seq(Plain)
        /\ press \in Seq(Silent) /\ <<CardOp("invoke", id), last>> \in Seq(Silent)
    <3> HIDE DEF last
    <3> QED
      BY <2>2, <2>3, <2>4
  <2>6. Presses(g, press) \/ Presses(g, <<CardOp("invoke", id), last>>)
    BY <1>3, <2>5 DEF PressAction, PressDefault, Presses
  <2> QED
    BY <2>5, <2>6
<1>4. ASSUME NEW g \in Callers, NEW id \in Ids, HoverOn(g, id) PROVE Served
  BY <1>1, <1>4 DEF HoverOn, CardCall, Served
<1>5. ASSUME NEW g \in Callers, HoverOff(g) PROVE Served
  <2>1. pointer \in Ids
    BY <1>5 DEF HoverOff, HostTypeOK, Ids
  <2> QED
    BY <1>1, <1>5, <2>1 DEF HoverOff, CardCall, Served
<1>6. ASSUME NEW g \in Callers, Gesture(g)
      PROVE  Served \/ \E ops \in Seq(Plain) : Presses(g, ops)
  BY <1>2, <1>3, <1>4, <1>5, <1>6 DEF Gesture
<1>7. CASE \/ \E g \in Callbacks : Due(g)
           \/ \E g \in Threads : Step(g)
           \/ \E patterns \in Blocklists : SetBlocklist(patterns)
  BY <1>7 DEF Served
<1>8. CASE \/ \E i \in DOMAIN stack : DropCard(i)
           \/ \E c \in Configs : SetConfig(c)
           \/ UNCHANGED hostVars
  BY <1>8 DEF DropCard, SetConfig, hostVars, Served
<1> QED
  BY <1>1, <1>6, <1>7, <1>8 DEF HostNext

\* The types and the maps of the service, also under the surface.
LEMMA HostTyped ==
  ASSUME Typed, HostTypeOK, [HostNext]_hostVars
  PROVE  Typed'
<1>1. CASE [Next]_vars
  BY <1>1, NextTyped
<1>2. CASE Sync
  BY <1>2 DEF Sync, service, storage, world, Typed, TypeOK, UniqueIds, Unique
<1>3. ASSUME NEW g \in Callers, NEW ops \in Seq(Plain), Presses(g, ops) PROVE Typed'
  <2>1. g \in Threads /\ << >> \in Seq(Op) /\ ops \in Seq(Op)
    <3>1. Plain \subseteq Op
      BY DEF Plain
    <3> QED
      BY <3>1 DEF Threads
  <2>2. todo' \in [Threads -> Seq(Op)]
    BY <1>3, <2>1, ContinueType DEF Presses, Typed, TypeOK
  <2> QED
    BY <1>3, <2>2 DEF Presses, service, storage, world, Typed, TypeOK, UniqueIds,
       Unique
<1> QED
  BY <1>1, <1>2, <1>3, HostMoves, ServedIsNext

LEMMA HostCoherent ==
  ASSUME Typed, Coherent, HostTypeOK, [HostNext]_hostVars
  PROVE  Coherent'
<1>1. CASE [Next]_vars
  BY <1>1, NextCoherent
<1>2. ASSUME UNCHANGED service PROVE Coherent'
  BY <1>2 DEF service, Coherent, StoredIsOwned, CountdownPerPopup, ExpiryPerEntry,
     OwnerName
<1> QED
  BY <1>1, <1>2, HostMoves, ServedIsNext DEF Sync, Presses

\* A step of the service adds at most one popup, and that with a new stamp.
LEMMA PopupsMove ==
  ASSUME Typed, [Next]_vars
  PROVE  /\ stamp =< stamp'
         /\ \/ popups' \subseteq popups
            \/ \E n : /\ popups' \subseteq popups \cup {n}
                      /\ n.stamp = stamp + 1 /\ stamp' = stamp + 1
<1>1. stamp \in Int
  BY DEF Typed, TypeOK
<1> DEFINE Goes == popups' \subseteq popups /\ stamp =< stamp'
<1>2. ASSUME popups' \subseteq popups, UNCHANGED stamp PROVE Goes
  BY <1>1, <1>2
<1> HIDE DEF Goes
<1>3. ASSUME NEW ids, DropPopups(ids) PROVE popups' \subseteq popups
  BY <1>3 DEF DropPopups
<1>4. ASSUME NEW g, NEW id, NEW reason, NEW rest, Close(g, id, reason, rest)
      PROVE  Goes
  BY <1>2, <1>3, <1>4 DEF Close
<1>5. ASSUME NEW g, NEW id, NEW rest, DismissPopup(g, id, rest) PROVE Goes
  BY <1>2, <1>3, <1>5 DEF DismissPopup
<1>6. ASSUME NEW g, NEW id, ReleasePopup(g, id) PROVE Goes
  BY <1>1, <1>2, <1>3, <1>6 DEF ReleasePopup, Goes
<1>7. ASSUME NEW g, NEW app, NEW replaces, NEW kind, Notify(g, app, replaces, kind)
      PROVE  \/ Goes
             \/ \E n : /\ popups' \subseteq popups \cup {n}
                       /\ n.stamp = stamp + 1 /\ stamp' = stamp + 1
  <2> DEFINE id == ResolvedId(app, replaces)
             n  == [id |-> id, app |-> app, stamp |-> stamp + 1, ttl |-> kind.ttl,
                    transient |-> kind.transient, resident |-> kind.resident]
  <2>1. stamp' = stamp + 1 /\ AddPopup(n)
    BY <1>7 DEF Notify
  <2>2. n.stamp = stamp + 1
    OBVIOUS
  <2> HIDE DEF n
  <2>3. popups' \subseteq popups \cup {n}
    BY <2>1 DEF AddPopup, Without
  <2> QED
    BY <2>1, <2>2, <2>3
<1>8. ASSUME NEW g \in Callers, Call(g)
      PROVE  \/ Goes
             \/ \E n : /\ popups' \subseteq popups \cup {n}
                       /\ n.stamp = stamp + 1 /\ stamp' = stamp + 1
  <2>1. ASSUME NEW app, NEW replaces, NotifyBlocked(g, app, replaces) PROVE Goes
    BY <1>2, <2>1 DEF NotifyBlocked
  <2>2. CASE DismissAll(g)
    BY <1>2, <1>3, <2>2 DEF DismissAll
  <2>3. ASSUME NEW on, SetDND(g, on) PROVE Goes
    BY <1>2, <2>3 DEF SetDND
  <2>4. ASSUME NEW id, InvokeAction(g, id, << >>) \/ InhibitPopup(g, id) PROVE Goes
    BY <1>2, <2>4 DEF InvokeAction, InhibitPopup, service
  <2> QED
    BY <1>4, <1>5, <1>6, <1>7, <1>8, <2>1, <2>2, <2>3, <2>4
       DEF Call, BusCall, CardCall, ToggleDND
<1>9. ASSUME NEW g, Due(g) PROVE Goes
  BY <1>2, <1>9 DEF Due, PopupDue, ExpiryDue
<1>10. ASSUME NEW g \in Threads, Step(g) PROVE Goes
  <2>1. ASSUME NEW id, NEW tok, NEW rest, PopupFired(g, id, tok, rest) PROVE Goes
    BY <1>2, <1>5, <2>1 DEF PopupFired, service
  <2> QED
    BY <1>2, <1>4, <1>5, <1>10, <2>1 DEF Step, StoreAdd, StoreRemove, EmitClosed,
       PublishEvent, EmitInvoked, Sweep, SaveDND, InvokeAction, ExpiryFired, service
<1>11. ASSUME \/ \E patterns \in Blocklists : SetBlocklist(patterns)
              \/ Restart
              \/ UNCHANGED vars
       PROVE  Goes
  BY <1>2, <1>11 DEF SetBlocklist, Restart, vars, service
<1> QED
  BY <1>1, <1>8, <1>9, <1>10, <1>11 DEF Next, Goes

LEMMA HostStamped ==
  ASSUME Typed, Stamped, HostTypeOK, [HostNext]_hostVars
  PROVE  Stamped'
<1>1. stamp \in Int /\ \A n \in popups : n.stamp \in Int
  BY DEF Typed, TypeOK, Notification, Stamps
<1>2. stamp' \in Int
  BY HostTyped DEF Typed, TypeOK
<1>3. CASE [Next]_vars
  <2>1. CASE popups' \subseteq popups /\ stamp =< stamp'
    <3>1. ASSUME NEW n \in popups' PROVE n.stamp =< stamp'
      <4>1. n \in popups /\ n.stamp =< stamp
        BY <2>1 DEF Stamped
      <4> QED
        BY <1>1, <1>2, <2>1, <4>1
    <3> QED
      BY <2>1, <3>1 DEF Stamped
  <2>2. ASSUME NEW n, popups' \subseteq popups \cup {n}, n.stamp = stamp + 1,
               stamp' = stamp + 1
        PROVE  Stamped'
    <3>1. \A m \in popups : m.stamp =< stamp /\ m.stamp \in Int
      BY <1>1 DEF Stamped
    <3>2. \A m \in popups' : m.stamp =< stamp'
      BY <1>1, <2>2, <3>1
    <3>3. ASSUME NEW m \in popups', NEW k \in popups', m.stamp = k.stamp PROVE m = k
      <4>1. CASE m \in popups /\ k \in popups
        BY <3>3, <4>1 DEF Stamped
      <4>2. \A j \in popups : j.stamp # stamp + 1
        BY <1>1, <3>1
      <4> QED
        BY <2>2, <3>3, <4>1, <4>2
    <3> QED
      BY <3>2, <3>3 DEF Stamped
  <2> QED
    BY <1>3, <2>1, <2>2, PopupsMove
<1>4. CASE UNCHANGED <<popups, stamp>>
  BY <1>4 DEF Stamped
<1> QED
  BY <1>3, <1>4, HostMoves, ServedIsNext DEF Sync, Presses, service

-----------------------------------------------------------------------------
\* The popup surface: the stack.

\* No more ids are live than the configuration shows.
WithinLimit ==
  IsFiniteSet(LiveIds(stack)) /\ Cardinality(LiveIds(stack)) =< cfg.limit

HostSound == HostTypeOK /\ Singly(stack) /\ WithinLimit

HostInv == Typed /\ Coherent /\ Stamped /\ HostSound

LEMMA NoCards ==
  /\ << >> \in Seq(Card) /\ Singly(<< >>) /\ LiveIds(<< >>) = {}
  /\ \A c \in Configs : IsFiniteSet({}) /\ Cardinality({}) =< c.limit
<1>1. << >> \in Seq(Card) /\ Singly(<< >>) /\ LiveIds(<< >>) = {}
  BY DEF Singly, LiveIds, LiveCards
<1>2. \A c \in Configs : c.limit \in Nat
  BY ConfigsAssumption
<1>3. IsFiniteSet({}) /\ Cardinality({}) = 0
  BY FS_EmptySet
<1> QED
  BY <1>1, <1>2, <1>3

LEMMA InitHost == HostInit => HostInv
<1> SUFFICES ASSUME HostInit PROVE HostInv
  OBVIOUS
<1>1. Typed /\ Coherent
  BY InitTyped, InitCoherent DEF HostInit
<1>2. Stamped
  BY DEF HostInit, Init, Stamped
<1>3. HostTypeOK /\ Singly(stack)
  BY NoCards, BoundsAssumption DEF HostInit, HostTypeOK
<1>4. WithinLimit
  <2>1. LiveIds(stack) = {} /\ cfg \in Configs
    BY NoCards DEF HostInit
  <2> QED
    BY <2>1, NoCards DEF WithinLimit
<1> QED
  BY <1>1, <1>2, <1>3, <1>4 DEF HostInv, HostSound

\* The ids in sight are within the limit.
LEMMA ShownWithinLimit ==
  ASSUME Typed, Stamped, NEW c \in Configs, NEW L, L = {n.id : n \in Visible(c)}
  PROVE  IsFiniteSet(L) /\ Cardinality(L) =< c.limit
<1> DEFINE V == Visible(c)
           f == [n \in V |-> n.id]
<1>1. IsFiniteSet(V) /\ Cardinality(V) =< c.limit
  BY VisibleFacts
<1>2. f \in Surjection(V, L)
  <2> HIDE DEF V
  <2>1. L = {n.id : n \in V}
    BY DEF V
  <2> QED
    BY <2>1 DEF Surjection
<1> HIDE DEF V, f
<1>3. IsFiniteSet(L) /\ Cardinality(L) =< Cardinality(V)
  BY <1>1, <1>2, FS_Surjection
<1>4. Cardinality(L) \in Nat /\ Cardinality(V) \in Nat /\ c.limit \in Nat
  BY <1>1, <1>3, FS_CardinalityType, ConfigsAssumption
<1> QED
  BY <1>1, <1>3, <1>4

\* The steps that change the stack or the configuration.
LEMMA StackMoves ==
  ASSUME HostTypeOK, [HostNext]_hostVars
  PROVE  \/ UNCHANGED <<stack, cfg>> /\ pointer' \in 0 .. MaxId
         \/ Restart /\ stack' = << >> /\ pointer' = 0 /\ UNCHANGED cfg
         \/ Sync
         \/ \E i \in DOMAIN stack : DropCard(i)
         \/ \E c \in Configs : SetConfig(c)
<1>1. pointer \in 0 .. MaxId /\ 0 \in 0 .. MaxId /\ Ids \subseteq 0 .. MaxId
  BY BoundsAssumption DEF HostTypeOK, Ids
<1>2. ASSUME NEW g, Gesture(g)
      PROVE  UNCHANGED <<stack, cfg>> /\ pointer' \in 0 .. MaxId
  BY <1>1, <1>2 DEF Gesture, CloseCard, PressAction, PressDefault, HoverOn,
     HoverOff, host
<1> QED
  BY <1>1, <1>2 DEF HostNext, hostVars, host

LEMMA HostStaysSound ==
  ASSUME HostInv, [HostNext]_hostVars
  PROVE  HostSound'
<1> USE DEF HostInv, HostSound
<1>1. /\ stack \in Seq(Card) /\ pointer \in 0 .. MaxId /\ cfg \in Configs
      /\ 0 \in 0 .. MaxId
  BY BoundsAssumption DEF HostTypeOK
<1>2. ASSUME NEW c \in Configs, NEW s \in Seq(Card), Singly(s),
             stack' = Reconciled(s, c), cfg' = c, pointer' \in 0 .. MaxId
      PROVE  HostSound'
  <2>1. /\ stack' \in Seq(Card) /\ Singly(stack')
        /\ LiveIds(stack') = {n.id : n \in Visible(c)}
    BY <1>2, ReconciledFacts
  <2>2. WithinLimit'
    BY <1>2, <2>1, ShownWithinLimit DEF WithinLimit
  <2> QED
    BY <1>2, <2>1, <2>2 DEF HostTypeOK, Singly
<1>3. CASE UNCHANGED <<stack, cfg>> /\ pointer' \in 0 .. MaxId
  BY <1>3 DEF HostTypeOK, WithinLimit, LiveIds, LiveCards, Singly
<1>4. CASE Restart /\ stack' = << >> /\ pointer' = 0 /\ UNCHANGED cfg
  <2>1. HostTypeOK' /\ Singly(stack)'
    BY <1>1, <1>4, NoCards DEF HostTypeOK
  <2>2. WithinLimit'
    <3>1. LiveIds(stack') = {} /\ cfg' \in Configs
      BY <1>1, <1>4, NoCards
    <3> QED
      BY <3>1, NoCards DEF WithinLimit
  <2> QED
    BY <2>1, <2>2
<1>5. CASE Sync
  BY <1>1, <1>2, <1>5 DEF Sync
<1>6. ASSUME NEW i \in DOMAIN stack, DropCard(i) PROVE HostSound'
  <2>1. i \in 1 .. Len(stack) /\ stack[i].leaving /\ stack' = RemoveAt(stack, i)
    BY <1>1, <1>6 DEF DropCard
  <2>2. /\ stack' \in Seq(Card) /\ Singly(stack')
        /\ LiveIds(stack') = LiveIds(stack)
    BY <1>1, <2>1, DropFacts
  <2>3. pointer' \in 0 .. MaxId /\ cfg' = cfg
    BY <1>1, <1>6 DEF DropCard, Under
  <2> QED
    BY <1>1, <2>2, <2>3 DEF HostTypeOK, WithinLimit, Singly
<1>7. ASSUME NEW c \in Configs, SetConfig(c) PROVE HostSound'
  BY <1>1, <1>2, <1>7, NoCards DEF SetConfig
<1> QED
  BY <1>3, <1>4, <1>5, <1>6, <1>7, StackMoves

LEMMA NextHost == HostInv /\ [HostNext]_hostVars => HostInv'
<1> SUFFICES ASSUME HostInv, [HostNext]_hostVars PROVE HostInv'
  OBVIOUS
<1>1. HostSound'
  BY HostStaysSound
<1>2. Typed' /\ Coherent' /\ Stamped'
  BY HostTyped, HostCoherent, HostStamped DEF HostInv, HostSound
<1> QED
  BY <1>1, <1>2 DEF HostInv

LEMMA AlwaysHost == HostSpec => []HostInv
BY InitHost, NextHost, PTL DEF HostSpec

\* Whatever the gestures on the cards ask of it, in whatever order the feed,
\* the timers and the other callers come in, the service keeps its types and
\* its indexes.
THEOREM HostKeepsIndexes == HostSpec => [](HistoryIsIndexed /\ PopupsAreIndexed)
<1>1. HostInv => HistoryIsIndexed /\ PopupsAreIndexed
  BY DEF HostInv, Typed, Coherent, HistoryIsIndexed, PopupsAreIndexed
<1> QED
  BY <1>1, AlwaysHost, PTL

\* What the surface asks for is yet to be done: nothing is given out, closed or
\* announced by the asking.
LEMMA AskingServes ==
  ASSUME Named, HostInv, Numbered, Silenced, [HostNext]_hostVars, ~[Next]_vars
  PROVE  /\ Numbered' /\ Silenced'
         /\ UNCHANGED Server!vars
<1>1. CASE Sync
  <2>1. UNCHANGED <<all, next, owners, todo, closed, crashes>>
    BY <1>1 DEF Sync, service, world
  <2> QED
    BY <2>1 DEF Numbered, Silenced, Gone, Server!vars, Leaving, Unannounced
<1>2. ASSUME NEW g \in Callers, NEW ops \in Seq(Plain), Presses(g, ops)
      PROVE  Numbered' /\ Silenced' /\ UNCHANGED Server!vars
  <2>1. /\ UNCHANGED <<all, next, owners, closed, crashes>> /\ g \in Threads
        /\ Idle(g) /\ ops \in Seq(Silent) /\ Continue(g, ops, << >>)
    BY <1>2 DEF Presses, service, world, Threads
  <2>2. /\ todo \in [Threads -> Seq(Op)]
        /\ ops \o << >> = ops /\ Says(ops) = {} /\ Distinct(ops)
        /\ ops \in Seq(Op)
    BY <2>1, SilentSays DEF HostInv, Typed, TypeOK
  <2>3. todo' = [todo EXCEPT ![g] = ops] /\ Says(todo[g]) = {}
    BY <2>1, <2>2, SaysLists DEF Continue, Idle
  <2>4. \A h \in Threads : /\ Says(todo'[h]) = Says(todo[h])
                           /\ Distinct(todo[h]) => Distinct(todo'[h])
    BY <2>2, <2>3
  <2>5. Leaving' = Leaving
    <3>1. /\ \A h \in Threads : DOMAIN todo[h] = 1 .. Len(todo[h])
          /\ \A h \in Threads : DOMAIN todo'[h] = 1 .. Len(todo'[h])
      BY <2>2, <2>3
    <3>2. \A h \in Threads : Unannounced(h) = Says(todo[h])
      BY <3>1 DEF Unannounced, Says
    <3>3. \A h \in Threads : Unannounced(h)' = Says(todo'[h])
      BY <3>1 DEF Unannounced, Says
    <3> QED
      BY <2>4, <3>2, <3>3 DEF Leaving
  <2>6. UNCHANGED Gone
    BY <2>1 DEF Gone
  <2> QED
    BY <2>1, <2>4, <2>5, <2>6 DEF Numbered, Silenced, Server!vars
<1> QED
  BY <1>1, <1>2, HostMoves, ServedIsNext DEF HostInv, HostSound

\* The service keeps its promise to applications whatever users do to the
\* cards: with the surface, too, it implements NotificationServer.
THEOREM HostKeepsPromise == Named => (HostSpec => ServesAsPromised)
<1> SUFFICES ASSUME Named PROVE HostSpec => ServesAsPromised
  OBVIOUS
<1>1. HostInit => Server!Init /\ Numbered /\ Silenced
  <2> SUFFICES ASSUME HostInit PROVE Server!Init /\ Numbered /\ Silenced
    OBVIOUS
  <2>1. Init
    BY DEF HostInit
  <2> QED
    BY <2>1, ServerInit, InitNumbered, NothingSaid DEF Init
<1>2. HostInv /\ HostInv' /\ Numbered /\ Silenced /\ [HostNext]_hostVars
        => Numbered' /\ Silenced' /\ [Server!Next]_(Server!vars)
  <2> SUFFICES ASSUME HostInv, HostInv', Numbered, Silenced, [HostNext]_hostVars
               PROVE  Numbered' /\ Silenced' /\ [Server!Next]_(Server!vars)
    OBVIOUS
  <2>1. CASE [Next]_vars
    <3>1. Numbered'
      BY <2>1, NextNumbered DEF HostInv
    <3>2. Silenced'
      BY <2>1, <3>1, NextSilenced DEF HostInv
    <3> QED
      BY <2>1, <3>1, <3>2, StepServes DEF HostInv
  <2>2. CASE ~[Next]_vars
    BY <2>2, AskingServes
  <2> QED
    BY <2>1, <2>2
<1> QED
  BY <1>1, <1>2, AlwaysHost, PTL DEF HostSpec, ServesAsPromised, Server!Spec

\* An id has one live card at most, and no more cards are live than the
\* configuration shows.
THEOREM StackStaysSound == HostSpec => []StackIsSound
<1>1. HostInv => StackIsSound
  <2> SUFFICES ASSUME HostInv PROVE StackIsSound
    OBVIOUS
  <2> DEFINE live == {i \in DOMAIN stack : ~stack[i].leaving}
             f    == [i \in live |-> stack[i].id]
  <2>1. /\ HostTypeOK /\ stack \in Seq(Card) /\ cfg \in Configs
        /\ DOMAIN stack = 1 .. Len(stack)
    BY DEF HostInv, HostSound, HostTypeOK
  <2>2. \A i, j \in live : stack[i].id = stack[j].id => i = j
    BY <2>1 DEF HostInv, HostSound, Singly
  <2>3. \A i \in live : stack[i].id \in LiveIds(stack)
    BY <2>1, LiveIdsFacts
  <2> HIDE DEF live
  <2>4. f \in Injection(live, LiveIds(stack))
    <3>1. f \in [live -> LiveIds(stack)] /\ \A i \in live : f[i] = stack[i].id
      BY <2>3
    <3> HIDE DEF f
    <3> QED
      BY <2>2, <3>1, Fun_IsInj
  <2> HIDE DEF f
  <2>5. IsFiniteSet(LiveIds(stack)) /\ Cardinality(LiveIds(stack)) =< cfg.limit
    BY DEF HostInv, HostSound, WithinLimit
  <2>6. IsFiniteSet(live) /\ Cardinality(live) =< Cardinality(LiveIds(stack))
    BY <2>4, <2>5, FS_Injection
  <2>7. /\ Cardinality(live) \in Nat /\ Cardinality(LiveIds(stack)) \in Nat
        /\ cfg.limit \in Nat
    BY <2>1, <2>5, <2>6, FS_CardinalityType, ConfigsAssumption
  <2>8. Cardinality(live) =< cfg.limit
    BY <2>5, <2>6, <2>7
  <2>9. OneLiveCardPerId
    BY <2>2, <2>8 DEF OneLiveCardPerId, live
  <2> QED
    BY <2>1, <2>9 DEF StackIsSound
<1> QED
  BY <1>1, AlwaysHost, PTL

\* Cards that stay on screen do not change places: entering cards go to one end,
\* cards that are gone leave the others in their order, and a live card is found
\* again by its id.
THEOREM CardsStayInOrder == HostSpec => CardsKeepTheirOrder
<1> DEFINE Keeps == cfg' = cfg =>
             \A i, j \in DOMAIN stack : \A k, l \in DOMAIN stack' :
               i < j /\ Stays(i, k) /\ Stays(j, l) => k < l
<1>1. HostInv /\ [HostNext]_hostVars => Keeps
  <2> SUFFICES ASSUME HostInv, [HostNext]_hostVars, cfg' = cfg,
                      NEW i \in DOMAIN stack, NEW j \in DOMAIN stack,
                      NEW k \in DOMAIN stack', NEW l \in DOMAIN stack',
                      i < j, Stays(i, k), Stays(j, l)
               PROVE  k < l
    OBVIOUS
  <2>1. /\ stack \in Seq(Card) /\ DOMAIN stack = 1 .. Len(stack)
        /\ Singly(stack) /\ HostTypeOK /\ cfg \in Configs
    BY DEF HostInv, HostSound, HostTypeOK
  <2>2. /\ stack' \in Seq(Card) /\ DOMAIN stack' = 1 .. Len(stack')
        /\ Singly(stack')
    BY HostStaysSound DEF HostSound, HostTypeOK, Singly
  <2>3. /\ ~stack[i].leaving /\ stack[i] = stack'[k]
        /\ ~stack[j].leaving /\ stack[j] = stack'[l]
    BY DEF Stays
  <2>4. CASE stack' = stack
    <3>1. i = k /\ j = l
      BY <2>1, <2>3, <2>4 DEF Singly
    <3> QED
      BY <3>1
  <2>5. CASE stack' = << >>
    BY <2>5
  <2>6. CASE Sync
    <3>1. PICK n \in Nat : \A h \in 1 .. Len(stack) :
             ~stack[h].leaving /\ stack[h].id \in LiveIds(stack')
               => n + h \in 1 .. Len(stack') /\ stack'[n + h] = stack[h]
      <4>1. stack' = Reconciled(stack, cfg) /\ Typed /\ Stamped
        BY <2>6 DEF Sync, HostInv
      <4>2. KeepsPlaces(stack, stack')
        BY <2>1, <4>1, ReconciledFacts
      <4> QED
        BY <4>2 DEF KeepsPlaces
    <3>2. \A x : x \in LiveIds(stack') <=>
                 \E h \in 1 .. Len(stack') : ~stack'[h].leaving /\ stack'[h].id = x
      BY <2>2, LiveIdsFacts
    <3>3. stack[i].id \in LiveIds(stack') /\ stack[j].id \in LiveIds(stack')
      BY <2>2, <2>3, <3>2
    <3>4. /\ n + i \in 1 .. Len(stack') /\ stack'[n + i] = stack[i]
          /\ n + j \in 1 .. Len(stack') /\ stack'[n + j] = stack[j]
      BY <2>1, <2>3, <3>1, <3>3
    <3>5. k = n + i /\ l = n + j
      BY <2>2, <2>3, <3>4 DEF Singly
    <3> QED
      BY <2>1, <3>5
  <2>7. ASSUME NEW d \in DOMAIN stack, DropCard(d) PROVE k < l
    <3> DEFINE at(h) == IF h < d THEN h ELSE h + 1
    <3>1. d \in 1 .. Len(stack) /\ stack[d].leaving /\ stack' = RemoveAt(stack, d)
      BY <2>1, <2>7 DEF DropCard
    <3>2. Len(stack') = Len(stack) - 1
      BY <2>1, <2>2, <3>1 DEF RemoveAt
    <3>3. stack'[k] = stack[at(k)] /\ stack'[l] = stack[at(l)]
      <4>1. \A h \in 1 .. Len(stack') : stack'[h] = stack[IF h < d THEN h ELSE h + 1]
        BY <2>1, <3>1, DropFacts
      <4> QED
        BY <2>2, <4>1
    <3>4. at(k) \in 1 .. Len(stack) /\ at(l) \in 1 .. Len(stack)
      BY <2>1, <2>2, <3>1, <3>2
    <3> HIDE DEF at
    <3>5. at(k) = i /\ at(l) = j
      BY <2>1, <2>3, <3>3, <3>4 DEF Singly
    <3> QED
      BY <2>1, <2>2, <3>1, <3>5 DEF at
  <2>8. CASE \E c \in Configs : SetConfig(c)
    BY <2>8 DEF SetConfig
  <2> QED
    BY <2>1, <2>4, <2>5, <2>6, <2>7, <2>8, StackMoves
<1> QED
  BY <1>1, AlwaysHost, PTL DEF HostSpec, CardsKeepTheirOrder

-----------------------------------------------------------------------------
\* The popup surface: the feed loses no change.

\* Every notification is stored for as long as it shows: none is transient, and
\* none leaves the history by its timeout.
Backed == \A k \in Kinds : ~k.transient /\ k.ttl # "timed"

Backing ==
  /\ \A n \in popups : \E m \in all : m.id = n.id
  /\ \A n \in all \cup disk : n.ttl # "timed"
  /\ todo \in [Threads -> Seq(Plain)]

\* A list of ops that publishes in the end, and a change the readers will hear of.
Announces(s) == \E i \in 1 .. Len(s) : s[i].op \in {"publish", "sweep"}
Owed == tick \/ \E g \in Threads : Announces(todo[g])

\* The step does not change the popups unheard, and forgets no announcement.
Heard == popups' # popups \/ Owed => Owed'

\* What goroutine g does next is no announcement, and rest what it does then.
Takes(g, rest) ==
  rest \in Seq(Plain) /\ (Announces(todo[g]) => Announces(rest))

LEMMA AnnouncesConcat ==
  ASSUME NEW s \in Seq(Plain), NEW t \in Seq(Plain), Announces(s) \/ Announces(t)
  PROVE  Announces(s \o t)
<1> DEFINE st == s \o t
<1>1. /\ Len(st) = Len(s) + Len(t)
      /\ Len(s) \in Nat /\ Len(t) \in Nat
      /\ \A i \in 1 .. Len(s) : st[i] = s[i]
      /\ \A i \in 1 .. Len(t) : st[Len(s) + i] = t[i]
  OBVIOUS
<1> HIDE DEF st
<1>2. ASSUME NEW i \in 1 .. Len(s), s[i].op \in {"publish", "sweep"}
      PROVE  Announces(st)
  BY <1>1, <1>2 DEF Announces
<1>3. ASSUME NEW i \in 1 .. Len(t), t[i].op \in {"publish", "sweep"}
      PROVE  Announces(st)
  <2>1. Len(s) + i \in 1 .. Len(st) /\ st[Len(s) + i].op \in {"publish", "sweep"}
    BY <1>1, <1>3
  <2> QED
    BY <2>1 DEF Announces
<1>4. Announces(st)
  BY <1>2, <1>3 DEF Announces
<1> QED
  BY <1>4 DEF st

\* A goroutine that starts and a goroutine that goes on.
LEMMA TakesIntro ==
  ASSUME Backing, NEW g \in Threads
  PROVE  /\ Idle(g) => Takes(g, << >>)
         /\ ~Idle(g) => /\ Head(todo[g]) \in Plain /\ Tail(todo[g]) \in Seq(Plain)
                        /\ Head(todo[g]).op \notin {"publish", "sweep"}
                             => Takes(g, Tail(todo[g]))
<1>1. todo[g] \in Seq(Plain)
  BY DEF Backing
<1>2. Idle(g) => Takes(g, << >>)
  BY DEF Idle, Takes
<1>3. ASSUME ~Idle(g)
      PROVE  /\ Head(todo[g]) \in Plain /\ Tail(todo[g]) \in Seq(Plain)
             /\ Head(todo[g]).op \notin {"publish", "sweep"}
                  => Takes(g, Tail(todo[g]))
  <2> DEFINE s == todo[g]
  <2>1. s \in Seq(Plain) /\ s # << >>
    BY <1>1, <1>3 DEF Idle
  <2> HIDE DEF s
  <2>2. /\ Head(s) \in Plain /\ Tail(s) \in Seq(Plain)
        /\ Len(Tail(s)) = Len(s) - 1 /\ Len(s) \in Nat /\ s[1] = Head(s)
        /\ \A i \in 1 .. Len(s) - 1 : Tail(s)[i] = s[i + 1]
    BY <2>1
  <2>3. ASSUME Head(s).op \notin {"publish", "sweep"}, Announces(s)
        PROVE  Announces(Tail(s))
    <3>1. PICK i \in 1 .. Len(s) : s[i].op \in {"publish", "sweep"}
      BY <2>3 DEF Announces
    <3>2. i # 1
      BY <2>2, <2>3, <3>1
    <3>3. i - 1 \in 1 .. Len(Tail(s)) /\ Tail(s)[i - 1] = s[i]
      BY <2>2, <3>2
    <3> QED
      BY <3>1, <3>3 DEF Announces
  <2> QED
    BY <2>2, <2>3 DEF s, Takes
<1> QED
  BY <1>2, <1>3

\* The list a goroutine is given.
LEMMA ContinuePlain ==
  ASSUME Backing, NEW g \in Threads, NEW ops \in Seq(Plain), NEW rest,
         Takes(g, rest), Continue(g, ops, rest), UNCHANGED tick
  PROVE  /\ todo' \in [Threads -> Seq(Plain)]
         /\ Owed => Owed'
         /\ Announces(ops) => Owed'
<1>1. rest \in Seq(Plain) /\ todo \in [Threads -> Seq(Plain)]
  BY DEF Takes, Backing
<1>2. todo' = [todo EXCEPT ![g] = ops \o rest] /\ ops \o rest \in Seq(Plain)
  BY <1>1 DEF Continue
<1>3. Announces(ops) \/ Announces(rest) => Announces(todo'[g])
  BY <1>1, <1>2, AnnouncesConcat
<1>4. Announces(todo[g]) => Announces(todo'[g])
  BY <1>3 DEF Takes
<1>5. \A h \in Threads : Announces(todo[h]) => Announces(todo'[h])
  BY <1>1, <1>2, <1>4
<1> QED
  BY <1>1, <1>2, <1>3, <1>5 DEF Owed

LEMMA ContinueTells ==
  ASSUME Backing, NEW g \in Threads, NEW ops \in Seq(Plain), NEW rest \in Seq(Plain),
         Continue(g, ops, rest)
  PROVE  /\ todo' \in [Threads -> Seq(Plain)]
         /\ Announces(ops) => Owed'
<1>1. todo' = [todo EXCEPT ![g] = ops \o rest] /\ ops \o rest \in Seq(Plain)
  BY DEF Continue
<1>2. Announces(ops) => Announces(todo'[g])
  BY <1>1, AnnouncesConcat DEF Backing
<1> QED
  BY <1>1, <1>2 DEF Backing, Owed

\* The lists of the calls.
LEMMA PlainLists ==
  /\ << >> \in Seq(Plain)
  /\ <<Publish>> \in Seq(Plain) /\ Announces(<<Publish>>)
  /\ \A n \in Notification : n.ttl # "timed" =>
       /\ <<[op |-> "add", n |-> n], Publish>> \in Seq(Plain)
       /\ Announces(<<[op |-> "add", n |-> n], Publish>>)
  /\ \A id \in Ids, n \in Notification, r \in Reasons :
       LET ops == <<[op |-> "remove", id |-> id],
                    [op |-> "closed", n |-> n, reason |-> r], Publish>>
       IN  ops \in Seq(Plain) /\ Announces(ops)
  /\ \A rows \in SUBSET Notification :
       LET ops == <<[op |-> "sweep", rows |-> rows]>>
       IN  ops \in Seq(Plain) /\ Announces(ops)
  /\ \A n \in Notification, r \in Reasons :
       LET ops == <<[op |-> "closed", n |-> n, reason |-> r], Publish>>
       IN  ops \in Seq(Plain) /\ Announces(ops)
  /\ \A id \in Ids, tok \in Stamps :
       <<[op |-> "popup", id |-> id, tok |-> tok]>> \in Seq(Plain)
  /\ \A on \in BOOLEAN : <<[op |-> "saveDND", on |-> on], Publish>> \in Seq(Plain)
  /\ \A id \in Ids :
       /\ <<[op |-> "invoked", id |-> id]>> \in Seq(Plain)
       /\ <<CloseOp(id, "closedCall", 0)>> \in Seq(Plain)
<1>1. /\ Publish \in Plain /\ Publish.op = "publish"
      /\ \A n \in Notification : n.ttl # "timed" => [op |-> "add", n |-> n] \in Plain
      /\ \A n \in Notification, r \in Reasons :
           [op |-> "closed", n |-> n, reason |-> r] \in Plain
      /\ \A id \in Ids : [op |-> "remove", id |-> id] \in Plain
      /\ \A id \in Ids : [op |-> "invoked", id |-> id] \in Plain
      /\ \A rows \in SUBSET Notification : [op |-> "sweep", rows |-> rows] \in Plain
      /\ \A on \in BOOLEAN : [op |-> "saveDND", on |-> on] \in Plain
      /\ \A id \in Ids, tok \in Stamps :
           [op |-> "popup", id |-> id, tok |-> tok] \in Plain
  BY OpIntro DEF Plain, Publish
<1>2. ASSUME NEW id \in Ids PROVE CloseOp(id, "closedCall", 0) \in Plain
  <2>1. CloseOp(id, "closedCall", 0) \in Op
    BY OpIntro, BoundsAssumption DEF Reasons
  <2> QED
    BY <2>1 DEF Plain, CloseOp
<1>3. \A o : Announces(<<o, Publish>>)
  <2> SUFFICES ASSUME NEW o PROVE Announces(<<o, Publish>>)
    OBVIOUS
  <2>1. 2 \in 1 .. Len(<<o, Publish>>) /\ <<o, Publish>>[2] = Publish
    OBVIOUS
  <2> QED
    BY <1>1, <2>1 DEF Announces
<1>4. \A o, p : Announces(<<o, p, Publish>>)
  <2> SUFFICES ASSUME NEW o, NEW p PROVE Announces(<<o, p, Publish>>)
    OBVIOUS
  <2>1. 3 \in 1 .. Len(<<o, p, Publish>>) /\ <<o, p, Publish>>[3] = Publish
    OBVIOUS
  <2> QED
    BY <1>1, <2>1 DEF Announces
<1>5. \A o : o.op \in {"publish", "sweep"} => Announces(<<o>>)
  BY DEF Announces
<1> QED
  BY <1>1, <1>2, <1>3, <1>4, <1>5

\* A goroutine goes on, and the lists of the service stay as they are.
LEMMA ContinueBacked ==
  ASSUME Backing, NEW g \in Threads, NEW ops \in Seq(Plain), NEW rest,
         Takes(g, rest), Continue(g, ops, rest), UNCHANGED <<all, popups, tick>>,
         \A n \in disk' : n.ttl # "timed"
  PROVE  Backing' /\ Heard
<1>1. todo' \in [Threads -> Seq(Plain)] /\ (Owed => Owed')
  BY ContinuePlain
<1> QED
  BY <1>1 DEF Backing, Heard

\* An arrival is stored with its popup, and published.
LEMMA NotifyBacked ==
  ASSUME Backed, Typed, Backing, NEW g \in Threads, NEW app \in Apps,
         NEW replaces \in 0 .. MaxId, NEW kind \in Kinds,
         Notify(g, app, replaces, kind)
  PROVE  Backing' /\ Heard
<1> DEFINE id == ResolvedId(app, replaces)
           n  == [id |-> id, app |-> app, stamp |-> stamp + 1, ttl |-> kind.ttl,
                  transient |-> kind.transient, resident |-> kind.resident]
           ops == <<[op |-> "add", n |-> n], Publish>>
<1>1. id \in Ids /\ stamp + 1 \in Stamps
  BY BoundsAssumption DEF Notify, Typed, TypeOK, Stamps
<1>2. n \in Notification /\ ~n.transient /\ n.ttl # "timed" /\ n.id = id
  BY <1>1, KindsAssumption DEF Notification, Names, Backed
<1>3. /\ Without(all, id) = {m \in all : m.id # id}
      /\ Without(popups, id) = {m \in popups : m.id # id}
  BY WithoutUnique DEF Typed, TypeOK, UniqueIds
<1>4. ops \in Seq(Plain) /\ Announces(ops)
  BY <1>2, PlainLists
<1>5. /\ all' = Without(all, id) \cup {n}
      /\ popups' \subseteq Without(popups, id) \cup {n} \/ popups' = popups
      /\ Idle(g) /\ Continue(g, ops, << >>) /\ UNCHANGED <<disk, tick>>
  BY <1>2 DEF Notify, AddPopup, storage
<1> HIDE DEF n, id, ops
<1>6. todo' \in [Threads -> Seq(Plain)] /\ Owed'
  BY <1>4, <1>5, ContinuePlain, TakesIntro
<1>7. \A m \in popups' : \E k \in all' : k.id = m.id
  <2> SUFFICES ASSUME NEW m \in popups' PROVE \E k \in all' : k.id = m.id
    OBVIOUS
  <2>1. CASE m = n
    BY <1>5, <2>1
  <2>2. CASE m \in popups
    <3>1. PICK k \in all : k.id = m.id
      BY <2>2 DEF Backing
    <3>2. k \in all' \/ k.id = id
      BY <1>3, <1>5
    <3> QED
      BY <1>2, <1>5, <3>1, <3>2
  <2> QED
    BY <1>3, <1>5, <2>1, <2>2
<1>8. \A m \in all' \cup disk' : m.ttl # "timed"
  BY <1>2, <1>3, <1>5 DEF Backing
<1> QED
  BY <1>6, <1>7, <1>8 DEF Backing, Heard

\* A close takes a popup off the screen together with its entry, and says so.
LEMMA CloseBacked ==
  ASSUME Typed, Backing, NEW g \in Threads, NEW id \in Ids, NEW reason \in Reasons,
         reason # "expired", NEW rest, Takes(g, rest), Close(g, id, reason, rest)
  PROVE  Backing' /\ Heard
<1>1. all' = {n \in all : n.id # id} /\ popups' = {n \in popups : n.id # id}
  BY RemoveHistoryFacts, DropPopupsFacts, {id} \in SUBSET Ids DEF Close, Typed
<1>2. UNCHANGED <<disk, tick>>
  BY DEF Close, storage
<1>3. /\ \A n \in popups' : \E m \in all' : m.id = n.id
      /\ \A n \in all' \cup disk' : n.ttl # "timed"
  BY <1>1, <1>2 DEF Backing
<1>4. CASE WithId(all, id) = {}
  <2>1. popups' = popups
    BY <1>1, <1>4 DEF Backing, WithId
  <2>2. Continue(g, << >>, rest)
    BY <1>4 DEF Close
  <2>3. todo' \in [Threads -> Seq(Plain)] /\ (Owed => Owed')
    BY <1>2, <2>2, ContinuePlain, PlainLists
  <2> QED
    BY <1>3, <2>1, <2>3 DEF Backing, Heard
<1>5. CASE WithId(all, id) # {}
  <2> DEFINE n == Newest(WithId(all, id))
             ops == <<[op |-> "remove", id |-> id],
                      [op |-> "closed", n |-> n, reason |-> reason], Publish>>
  <2>1. n \in Notification
    BY <1>5, WithoutUnique DEF Typed, TypeOK, UniqueIds, WithId
  <2>2. ops \in Seq(Plain) /\ Announces(ops)
    BY <2>1, PlainLists
  <2>3. Continue(g, ops, rest)
    BY <1>5 DEF Close
  <2> HIDE DEF ops
  <2>4. todo' \in [Threads -> Seq(Plain)] /\ Owed'
    BY <1>2, <2>2, <2>3, ContinuePlain
  <2> QED
    BY <1>3, <2>4 DEF Backing, Heard
<1> QED
  BY <1>4, <1>5

\* DismissAll takes every popup off the screen, and publishes for each entry.
LEMMA DismissAllBacked ==
  ASSUME Typed, Backing, NEW g \in Threads, DismissAll(g)
  PROVE  Backing' /\ Heard
<1> DEFINE ids == {n.id : n \in all}
<1>1. ids \in SUBSET Ids
  BY DEF Typed, TypeOK, Notification
<1>2. all' = {n \in all : n.id \notin ids} /\ popups' = {n \in popups : n.id \notin ids}
  BY <1>1, RemoveHistoryFacts, DropPopupsFacts DEF DismissAll, Typed
<1>3. UNCHANGED <<disk, tick>> /\ Takes(g, << >>)
  BY TakesIntro DEF DismissAll, storage
<1>4. /\ \A n \in popups' : \E m \in all' : m.id = n.id
      /\ \A n \in all' \cup disk' : n.ttl # "timed"
  BY <1>2, <1>3 DEF Backing
<1>5. CASE all = {}
  <2>1. popups' = popups
    BY <1>2, <1>5
  <2>2. Continue(g, << >>, << >>)
    BY <1>5 DEF DismissAll
  <2>3. todo' \in [Threads -> Seq(Plain)] /\ (Owed => Owed')
    BY <1>3, <2>2, ContinuePlain, PlainLists
  <2> QED
    BY <1>4, <2>1, <2>3 DEF Backing, Heard
<1>6. CASE all # {}
  <2> DEFINE ops == <<[op |-> "sweep", rows |-> all]>>
  <2>1. ops \in Seq(Plain) /\ Announces(ops)
    BY PlainLists DEF Typed, TypeOK
  <2>2. Continue(g, ops, << >>)
    BY <1>6 DEF DismissAll
  <2> HIDE DEF ops
  <2>3. todo' \in [Threads -> Seq(Plain)] /\ Owed'
    BY <1>3, <2>1, <2>2, ContinuePlain
  <2> QED
    BY <1>4, <2>3 DEF Backing, Heard
<1> QED
  BY <1>5, <1>6

\* A popup dropped from the screen is published when there was one.
LEMMA DropBacked ==
  ASSUME Typed, Backing, NEW g \in Threads, NEW id \in Ids, NEW rest, Takes(g, rest),
         DropPopups({id}), UNCHANGED <<all, disk, tick>>,
         Continue(g, IF WithId(popups, id) = {} THEN << >> ELSE <<Publish>>, rest)
  PROVE  Backing' /\ Heard
<1>1. popups' = {n \in popups : n.id # id}
  BY DropPopupsFacts, {id} \in SUBSET Ids DEF Typed
<1>2. (\A n \in popups' : \E m \in all' : m.id = n.id)
      /\ \A n \in all' \cup disk' : n.ttl # "timed"
  BY <1>1 DEF Backing
<1>3. CASE WithId(popups, id) = {}
  <2>1. popups' = popups
    BY <1>1, <1>3 DEF WithId
  <2>2. todo' \in [Threads -> Seq(Plain)] /\ (Owed => Owed')
    BY <1>3, ContinuePlain, PlainLists
  <2> QED
    BY <1>2, <2>1, <2>2 DEF Backing, Heard
<1>4. CASE WithId(popups, id) # {}
  <2>1. todo' \in [Threads -> Seq(Plain)] /\ Owed'
    BY <1>4, ContinuePlain, PlainLists
  <2> QED
    BY <1>2, <2>1 DEF Backing, Heard
<1> QED
  BY <1>3, <1>4

LEMMA DismissPopupBacked ==
  ASSUME Typed, Backing, NEW g \in Threads, NEW id \in Ids, NEW rest, Takes(g, rest),
         DismissPopup(g, id, rest)
  PROVE  Backing' /\ Heard
BY DropBacked DEF DismissPopup, storage

LEMMA InvokeActionBacked ==
  ASSUME Typed, Backing, NEW g \in Threads, NEW id \in Ids, NEW rest, Takes(g, rest),
         InvokeAction(g, id, rest)
  PROVE  Backing' /\ Heard
<1> DEFINE found    == Found(id)
           resident == found # {} /\ Newest(found).resident
           close    == IF resident THEN << >> ELSE <<CloseOp(id, "closedCall", 0)>>
           ops      == <<[op |-> "invoked", id |-> id]>> \o close \o <<Publish>>
<1>1. close \in Seq(Plain)
  BY PlainLists
<1>2. (IF owners[id] = NoOwner THEN << >> ELSE ops) \in Seq(Plain)
  <2>1. <<[op |-> "invoked", id |-> id]>> \in Seq(Plain) /\ <<Publish>> \in Seq(Plain)
        /\ << >> \in Seq(Plain)
    BY PlainLists
  <2> HIDE DEF close
  <2> QED
    BY <1>1, <2>1
<1>3. /\ Continue(g, IF owners[id] = NoOwner THEN << >> ELSE ops, rest)
      /\ UNCHANGED <<all, popups, disk, tick>>
  BY DEF InvokeAction, service, storage
<1>4. \A n \in disk' : n.ttl # "timed"
  BY <1>3 DEF Backing
<1> HIDE DEF ops
<1> QED
  BY <1>2, <1>3, <1>4, ContinueBacked

LEMMA ReleasePopupBacked ==
  ASSUME Typed, Backing, NEW g \in Threads, NEW id \in Ids, ReleasePopup(g, id)
  PROVE  Backing' /\ Heard
<1>1. UNCHANGED <<all, disk, tick>> /\ Takes(g, << >>)
  BY TakesIntro DEF ReleasePopup, storage
<1>2. CASE timers[id].state = "spent"
  BY <1>1, <1>2, DropBacked DEF ReleasePopup
<1>3. CASE timers[id].state # "spent"
  BY <1>1, <1>3 DEF ReleasePopup, Backing, Heard, Owed
<1> QED
  BY <1>2, <1>3

\* What a goroutine does next.
LEMMA StepBacked ==
  ASSUME Typed, Backing, NEW g \in Threads, Step(g)
  PROVE  Backing' /\ Heard
<1> DEFINE o == Head(todo[g])  rest == Tail(todo[g])
<1>1. /\ o \in Plain /\ rest \in Seq(Plain)
      /\ o.op \notin {"publish", "sweep"} => Takes(g, rest)
  BY TakesIntro DEF Step
<1>2. o \in Op
  BY <1>1 DEF Plain
<1> HIDE DEF o, rest
<1>3. << >> \in Seq(Plain) /\ \A n \in disk : n.ttl # "timed"
  BY PlainLists DEF Backing
<1>4. CASE o.op = "add" /\ StoreAdd(g, o.n, rest)
  <2>1. \A n \in disk' : n.ttl # "timed"
    BY <1>1, <1>3, <1>4 DEF StoreAdd, Plain
  <2> QED
    BY <1>1, <1>3, <1>4, <2>1, ContinueBacked DEF StoreAdd, service
<1>5. CASE o.op = "remove" /\ StoreRemove(g, o.id, rest)
  <2>1. \A n \in disk' : n.ttl # "timed"
    BY <1>3, <1>5 DEF StoreRemove
  <2> QED
    BY <1>1, <1>3, <1>5, <2>1, ContinueBacked DEF StoreRemove, service
<1>6. CASE \/ o.op = "closed"  /\ EmitClosed(g, o.n, rest)
           \/ o.op = "invoked" /\ EmitInvoked(g, rest)
           \/ o.op = "saveDND" /\ SaveDND(g, o.on, rest)
  <2>1. /\ Takes(g, rest) /\ Continue(g, << >>, rest)
        /\ UNCHANGED <<all, popups, disk, tick>>
    BY <1>1, <1>6 DEF EmitClosed, EmitInvoked, SaveDND, service, storage
  <2> QED
    BY <1>3, <2>1, ContinueBacked
<1>7. CASE o.op = "publish" /\ PublishEvent(g, rest)
  <2>1. /\ Continue(g, << >>, rest) /\ tick' = TRUE
        /\ UNCHANGED <<all, popups, disk>>
    BY <1>7 DEF PublishEvent, service, storage
  <2>2. todo' \in [Threads -> Seq(Plain)]
    BY <1>1, <1>3, <2>1, ContinueTells
  <2> QED
    BY <2>1, <2>2 DEF Backing, Heard, Owed
<1>8. CASE o.op = "sweep" /\ Sweep(g, o.rows, rest)
  <2>1. PICK n \in o.rows :
           /\ disk' = {r \in disk : r.id # n.id}
           /\ Continue(g,
                <<[op |-> "closed", n |-> n, reason |-> "dismissed"], Publish>>
                \o (IF o.rows = {n} THEN << >>
                    ELSE <<[op |-> "sweep", rows |-> o.rows \ {n}]>>), rest)
    BY <1>8 DEF Sweep
  <2> DEFINE say  == <<[op |-> "closed", n |-> n, reason |-> "dismissed"], Publish>>
             more == IF o.rows = {n} THEN << >>
                     ELSE <<[op |-> "sweep", rows |-> o.rows \ {n}]>>
  <2>2. o.rows \in SUBSET Notification
    BY <1>2, <1>8, OpFields
  <2>3. say \in Seq(Plain) /\ Announces(say)
    BY <2>2, PlainLists DEF Reasons
  <2>4. more \in Seq(Plain)
    BY <2>2, PlainLists
  <2>5. Continue(g, say \o more, rest) /\ UNCHANGED <<all, popups>>
    BY <1>8, <2>1 DEF Sweep, service
  <2> HIDE DEF say, more
  <2>6. say \o more \in Seq(Plain) /\ Announces(say \o more)
    BY <2>3, <2>4, AnnouncesConcat
  <2>7. todo' \in [Threads -> Seq(Plain)] /\ Owed'
    BY <1>1, <2>5, <2>6, ContinueTells
  <2> QED
    BY <1>3, <2>1, <2>5, <2>7 DEF Backing, Heard
<1>9. CASE o.op = "close" /\ Close(g, o.id, o.reason, rest)
  <2>1. o.id \in Ids /\ o.reason \in Reasons /\ o.reason # "expired"
    BY <1>1, <1>2, <1>9, OpFields DEF Plain
  <2> QED
    BY <1>1, <1>9, <2>1, CloseBacked
<1>10. CASE o.op = "dismissPopup" /\ DismissPopup(g, o.id, rest)
  BY <1>1, <1>2, <1>10, OpFields, DismissPopupBacked
<1>11. CASE o.op = "invoke" /\ InvokeAction(g, o.id, rest)
  BY <1>1, <1>2, <1>11, OpFields, InvokeActionBacked
<1>12. CASE o.op = "popup" /\ PopupFired(g, o.id, o.tok, rest)
  <2>1. o.id \in Ids /\ Takes(g, rest)
    BY <1>1, <1>2, <1>12, OpFields
  <2>2. \/ DismissPopup(g, o.id, rest)
        \/ Continue(g, << >>, rest) /\ UNCHANGED <<all, popups, disk, tick>>
    BY <1>12 DEF PopupFired, service, storage
  <2> QED
    BY <1>3, <2>1, <2>2, DismissPopupBacked, ContinueBacked
<1>13. o.op # "expiry"
  BY <1>1 DEF Plain
<1> QED
  BY <1>4, <1>5, <1>6, <1>7, <1>8, <1>9, <1>10, <1>11, <1>12, <1>13
     DEF Step, o, rest

\* In the life of one process every change of the popups is heard of.
LEMMA ServedBacked ==
  ASSUME Backed, Typed, Coherent, Backing, Served
  PROVE  Backing' /\ Heard
<1>1. ASSUME UNCHANGED <<all, popups, disk, todo, tick>> PROVE Backing' /\ Heard
  BY <1>1 DEF Backing, Heard, Owed
<1>2. ASSUME NEW g \in Callers, Call(g) PROVE Backing' /\ Heard
  <2>1. g \in Threads /\ (Idle(g) => Takes(g, << >>))
    BY TakesIntro DEF Threads
  <2>2. ASSUME NEW app \in Apps, NEW replaces \in 0 .. MaxId,
               NotifyBlocked(g, app, replaces)
        PROVE  Backing' /\ Heard
    BY <1>1, <2>2 DEF NotifyBlocked, storage
  <2>3. ASSUME NEW on \in BOOLEAN, SetDND(g, on) PROVE Backing' /\ Heard
    <3>1. <<[op |-> "saveDND", on |-> on], Publish>> \in Seq(Plain)
      BY PlainLists
    <3>2. /\ Idle(g) /\ UNCHANGED <<all, popups, disk, tick>>
          /\ Continue(g, <<[op |-> "saveDND", on |-> on], Publish>>, << >>)
      BY <2>3 DEF SetDND, storage
    <3>3. \A n \in disk' : n.ttl # "timed"
      BY <3>2 DEF Backing
    <3> QED
      BY <2>1, <3>1, <3>2, <3>3, ContinueBacked
  <2>4. ASSUME NEW id \in Ids, NEW reason \in {"dismissed", "closedCall"},
               Idle(g), Close(g, id, reason, << >>)
        PROVE  Backing' /\ Heard
    BY <2>1, <2>4, CloseBacked DEF Reasons
  <2>5. CASE BusCall(g)
    <3>1. (~dnd) \in BOOLEAN
      <4>1. CASE dnd
        BY <4>1
      <4>2. CASE ~dnd
        BY <4>2
      <4> QED
        BY <4>1, <4>2
    <3> QED
      BY <2>1, <2>2, <2>3, <2>4, <2>5, <3>1, NotifyBacked, DismissAllBacked
         DEF BusCall, ToggleDND
  <2>6. ASSUME NEW id \in Ids, InhibitPopup(g, id) PROVE Backing' /\ Heard
    BY <1>1, <2>6 DEF InhibitPopup, storage
  <2>7. CASE CardCall(g)
    BY <2>1, <2>6, <2>7, DismissPopupBacked, InvokeActionBacked, ReleasePopupBacked
       DEF CardCall
  <2> QED
    BY <1>2, <2>5, <2>7 DEF Call
<1>3. ASSUME NEW g \in Callbacks, Due(g) PROVE Backing' /\ Heard
  <2>1. g \in Threads /\ (Idle(g) => Takes(g, << >>))
    BY TakesIntro DEF Threads
  <2>2. PICK id \in Ids : PopupDue(g, id) \/ ExpiryDue(g, id)
    BY <1>3 DEF Due
  <2>3. CASE PopupDue(g, id)
    <3>1. timers[id].tok \in Stamps
      BY <2>3 DEF PopupDue, Typed, TypeOK, Timer, NoTimer
    <3>2. <<[op |-> "popup", id |-> id, tok |-> timers[id].tok]>> \in Seq(Plain)
      BY <3>1, PlainLists
    <3>3. /\ Idle(g) /\ UNCHANGED <<all, popups, disk, tick>>
          /\ Continue(g, <<[op |-> "popup", id |-> id, tok |-> timers[id].tok]>>, << >>)
      BY <2>3 DEF PopupDue, storage
    <3>4. \A n \in disk' : n.ttl # "timed"
      BY <3>3 DEF Backing
    <3> QED
      BY <2>1, <3>2, <3>3, <3>4, ContinueBacked
  <2>4. CASE ExpiryDue(g, id)
    <3>1. expiry[id] # NoTimer
      BY <2>4 DEF ExpiryDue, NoTimer
    <3>2. PICK n \in WithId(all, id) : n.ttl = "timed"
      BY <3>1 DEF Coherent, ExpiryPerEntry
    <3> QED
      BY <3>2 DEF Backing, WithId
  <2> QED
    BY <2>2, <2>3, <2>4
<1>4. CASE \/ \E patterns \in Blocklists : SetBlocklist(patterns)
           \/ UNCHANGED vars
  BY <1>1, <1>4 DEF SetBlocklist, vars, service, storage
<1> QED
  BY <1>2, <1>3, <1>4, StepBacked DEF Served

LEMMA HostBacked ==
  ASSUME Backed, HostInv, Backing, [HostNext]_hostVars
  PROVE  /\ Backing'
         /\ Heard \/ Sync \/ (popups' = {} /\ stack' = << >> /\ UNCHANGED cfg)
<1> USE DEF HostInv, HostSound
<1>1. CASE Served
  BY <1>1, ServedBacked
<1>2. CASE Restart /\ stack' = << >> /\ UNCHANGED cfg
  <2>1. /\ all' \subseteq disk /\ disk' = disk /\ popups' = {}
        /\ todo' = [g \in Threads |-> << >>]
    BY <1>2 DEF Restart, storage
  <2>2. << >> \in Seq(Plain)
    BY PlainLists
  <2>3. todo' \in [Threads -> Seq(Plain)]
    BY <2>1, <2>2
  <2> QED
    BY <1>2, <2>1, <2>3 DEF Backing
<1>3. CASE Sync
  BY <1>3 DEF Sync, service, storage, Backing
<1>4. ASSUME NEW g \in Callers, NEW ops \in Seq(Plain), Presses(g, ops)
      PROVE  Backing' /\ Heard
  <2>1. Takes(g, << >>) /\ g \in Threads
    BY <1>4, TakesIntro DEF Presses, Threads
  <2>2. /\ Continue(g, ops, << >>) /\ UNCHANGED <<all, popups, disk, tick>>
    BY <1>4 DEF Presses, service, storage
  <2>3. \A n \in disk' : n.ttl # "timed"
    BY <2>2 DEF Backing
  <2> QED
    BY <1>4, <2>1, <2>2, <2>3, ContinueBacked
<1> QED
  BY <1>1, <1>2, <1>3, <1>4, HostMoves

\* Between a change of the popups and the surface's next look at them somebody
\* still has to say so, or has said so.
Abreast == LiveIds(stack) = {n.id : n \in Visible(cfg)} \/ Owed

LEMMA HostFollows ==
  ASSUME Backed, HostInv, Backing, Abreast, [HostNext]_hostVars
  PROVE  Abreast'
<1>1. /\ stack \in Seq(Card) /\ Singly(stack) /\ cfg \in Configs
      /\ Typed /\ Stamped /\ HostTypeOK
  BY DEF HostInv, HostSound, HostTypeOK
<1>2. ASSUME UNCHANGED cfg, LiveIds(stack') = LiveIds(stack), Heard
      PROVE  Abreast'
  BY <1>2 DEF Abreast, Heard, Visible
<1>3. ASSUME NEW c \in Configs, NEW s \in Seq(Card), Singly(s),
             stack' = Reconciled(s, c), cfg' = c, popups' = popups
      PROVE  Abreast'
  <2>1. LiveIds(stack') = {n.id : n \in Visible(c)}
    BY <1>1, <1>3, ReconciledFacts
  <2> QED
    BY <1>3, <2>1 DEF Abreast, Visible
<1>4. CASE popups' = {} /\ stack' = << >> /\ UNCHANGED cfg
  BY <1>4, NoCards DEF Abreast, Visible
<1>5. CASE Sync
  BY <1>1, <1>3, <1>5 DEF Sync, service
<1>6. CASE UNCHANGED <<stack, cfg>>
  BY <1>2, <1>4, <1>5, <1>6, HostBacked
<1>7. CASE Restart /\ stack' = << >> /\ UNCHANGED cfg
  BY <1>4, <1>7 DEF Restart
<1>8. ASSUME NEW i \in DOMAIN stack, DropCard(i) PROVE Abreast'
  <2>1. LiveIds(stack') = LiveIds(stack)
    BY <1>1, <1>8, DropFacts DEF DropCard
  <2>2. UNCHANGED <<popups, tick, todo, cfg>>
    BY <1>8 DEF DropCard, vars, service
  <2> QED
    BY <1>2, <2>1, <2>2 DEF Heard, Owed
<1>9. ASSUME NEW c \in Configs, SetConfig(c) PROVE Abreast'
  <2>1. stack' = Reconciled(<< >>, c) /\ cfg' = c /\ popups' = popups
    BY <1>9 DEF SetConfig, vars, service
  <2> QED
    BY <1>3, <2>1, NoCards
<1> QED
  BY <1>1, <1>5, <1>6, <1>7, <1>8, <1>9, StackMoves

\* Once nobody has anything left to say and the surface has looked, its live cards
\* are the popups in sight: the feed that drops events loses no change.
THEOREM CardsFollow == Backed => (HostSpec => []CardsFollowPopups)
<1> SUFFICES ASSUME Backed PROVE HostSpec => []CardsFollowPopups
  OBVIOUS
<1>1. HostInit => Backing /\ Abreast
  <2> SUFFICES ASSUME HostInit PROVE Backing /\ Abreast
    OBVIOUS
  <2>1. /\ popups = {} /\ all = {} /\ disk = {} /\ stack = << >>
        /\ todo = [g \in Threads |-> << >>]
    BY DEF HostInit, Init
  <2>2. todo \in [Threads -> Seq(Plain)]
    BY <2>1, PlainLists
  <2> QED
    BY <2>1, <2>2, NoCards DEF Backing, Abreast, Visible
<1>2. HostInv /\ Backing /\ Abreast /\ [HostNext]_hostVars => Backing' /\ Abreast'
  BY HostBacked, HostFollows
<1>3. HostInv /\ Backing /\ Abreast => CardsFollowPopups
  <2> SUFFICES ASSUME Backing, Abreast, Quiet, ~tick
               PROVE  LiveIds(stack) = {n.id : n \in Visible(cfg)}
    BY DEF CardsFollowPopups
  <2>1. \A g \in Threads : ~Announces(todo[g])
    BY DEF Quiet, Idle, Announces
  <2> QED
    BY <2>1 DEF Abreast, Owed
<1> QED
  BY <1>1, <1>2, <1>3, AlwaysHost, PTL DEF HostSpec
=============================================================================
