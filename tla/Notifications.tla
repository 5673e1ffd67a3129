--------------------------- MODULE Notifications ---------------------------
(***************************************************************************)
(* The notification service of the shell (service/notifications): the      *)
(* in-memory history, the popup list with its countdowns, the ownership of *)
(* ids, the do-not-disturb flag, and the sqlite store and flag file that   *)
(* outlive the process.                                                    *)
(*                                                                         *)
(* Every exported method of Service takes the mutex for one critical       *)
(* section and then, with the mutex released, writes the store, emits      *)
(* D-Bus signals and publishes on the change feed.  A goroutine is         *)
(* therefore the list of what it still has to do, todo[g]: a call runs its *)
(* critical section and appends what follows it, and Step takes the list's *)
(* head.  D-Bus calls and UI gestures run on the goroutines Callers, fired *)
(* timers on the goroutines Callbacks.                                     *)
(*                                                                         *)
(* Lists that the code keeps newest first are sets ordered by the stamp    *)
(* each arrival takes under the mutex (Notification.Added, and also the    *)
(* identity of the Go pointer).                                            *)
(***************************************************************************)
EXTENDS Integers, Sequences, FiniteSets

CONSTANTS
  Apps,         \* application names that may call Notify
  NoName,       \* the empty application name, "" in Go's map lookups
  NoOwner,      \* the entry of an id the owners map does not hold
  Kinds,        \* the notifications applications send: [ttl, transient, resident]
  Blocklists,   \* the block lists a configuration may carry
  Callers,      \* goroutines that run D-Bus methods and UI gestures
  Callbacks,    \* goroutines that run fired timers
  MaxId,        \* bound on the ids handed out
  MaxStamp,     \* bound on arrivals and countdown starts
  MaxCrashes    \* bound on restarts of the shell

\* ExpireMS: "sticky" is 0, "timed" is positive, "default" is negative.
TTLs == {"sticky", "timed", "default"}

ASSUME BoundsAssumption ==
  MaxId \in Nat /\ MaxStamp \in Nat /\ MaxCrashes \in Nat
ASSUME KindsAssumption ==
  Kinds \subseteq [ttl : TTLs, transient : BOOLEAN, resident : BOOLEAN]
ASSUME NamesAssumption == NoOwner \notin Apps \cup {NoName}
ASSUME BlocklistsAssumption ==
  Blocklists # {} /\ Blocklists \subseteq SUBSET Apps

Ids    == 1 .. MaxId
Stamps == 1 .. MaxStamp
Names  == Apps \cup {NoName}
Threads == Callers \cup Callbacks

Notification ==
  [id : Ids, app : Names, stamp : Stamps,
   ttl : TTLs, transient : BOOLEAN, resident : BOOLEAN]

\* A popupTimer: "armed" until it fires or is stopped, "fired" once its
\* callback is on its way to the mutex, "paused" with time left and "spent"
\* without; its stop is nil in the last two.  An expiryTimer is never paused.
\* NoTimer stands for a key the timers or the expiry map does not hold.
NoTimer   == [tok |-> 0, state |-> "none"]
Timer(states) == [tok : Stamps, state : states] \cup {NoTimer}
\* Mutant: the timer is made without being started.
ArmedStopped(tok) == [tok |-> tok, state |-> "paused"]
Armed(tok) == [tok |-> tok, state |-> "armed"]
Running(t) == t.state \in {"armed", "fired"}
Halted(t)  == t.state \in {"paused", "spent"}

Reasons == {"expired", "dismissed", "closedCall"}

\* What a goroutine still has to do once it let go of the mutex, or, for the
\* ops "close", "dismissPopup", "invoke", "expiry" and "popup", which critical
\* section it enters next.  due is the stamp of the notification whose expiry
\* asked for the close, 0 when none did.
Op ==
       [op : {"add"}, n : Notification]
  \cup [op : {"remove", "invoked", "dismissPopup", "invoke"}, id : Ids]
  \cup [op : {"closed"}, n : Notification, reason : Reasons]
  \cup [op : {"publish"}]
  \cup [op : {"sweep"}, rows : SUBSET Notification]
  \cup [op : {"saveDND"}, on : BOOLEAN]
  \cup [op : {"close"}, id : Ids, reason : Reasons, due : 0 .. MaxStamp]
  \cup [op : {"expiry", "popup"}, id : Ids, tok : Stamps]

VARIABLES
  next,      \* Service.next, the last id handed out
  all,       \* Service.all, the stored history
  expiry,    \* Service.expiry
  popups,    \* Service.popups
  timers,    \* Service.timers
  owners,    \* Service.owners
  dnd,       \* Service.dnd
  block,     \* Service.block
  disk,      \* the rows of notifications.db
  savedDND,  \* the dnd file in the state directory
  todo,      \* what each goroutine still has to do
  tick,      \* an event is buffered for the popup host
  stamp,     \* the last stamp taken (bounds the model's arrivals)
  lapsed,    \* rows whose timeout ran out while the shell was down
  closed,    \* notifications NotificationClosed was emitted for
  crashes    \* restarts so far

service == <<next, all, expiry, popups, timers, owners, dnd, block>>
storage == <<disk, savedDND>>
world   == <<lapsed, closed, crashes>>
vars    == <<service, storage, todo, tick, stamp, world>>

-----------------------------------------------------------------------------
\* The lists and maps.

WithId(S, id) == {n \in S : n.id = id}
Newest(S) == CHOOSE n \in S : \A m \in S : m.stamp =< n.stamp

\* The loops that cut the first entry with id out of a newest-first list.
Without(S, id) ==
  IF WithId(S, id) = {} THEN S ELSE S \ {Newest(WithId(S, id))}

\* s.owners[id]: the zero value "" when the key is missing.
OwnerName(id) == IF owners[id] = NoOwner THEN NoName ELSE owners[id]

\* findLocked: the history is searched before the popups.
Found(id) == IF WithId(all, id) # {} THEN WithId(all, id) ELSE WithId(popups, id)

Idle(g) == todo[g] = << >>
Quiet   == \A g \in Threads : Idle(g)

\* Goroutine g has ops left to do, then rest.
Continue(g, ops, rest) == todo' = [todo EXCEPT ![g] = ops \o rest]

Publish == [op |-> "publish"]
CloseOp(id, reason, due) ==
  [op |-> "close", id |-> id, reason |-> reason, due |-> due]

-----------------------------------------------------------------------------
\* Arrivals.

\* Mutant: an id nobody owns may be taken by anybody.
OwnsIdOrNobodyDoes(app, replaces) ==
  replaces \in Ids /\ OwnerName(replaces) \in {app, NoName}

\* The id NotifyHints gives a call: its own replaces_id when the caller owns
\* it, the next one otherwise.
OwnsId(app, replaces) == replaces \in Ids /\ OwnerName(replaces) = app
ResolvedId(app, replaces) ==
  IF OwnsId(app, replaces) THEN replaces ELSE next + 1

\* addPopupLocked and startPopupTimerLocked: the notification takes its id's
\* place at the front of the popups, with a countdown unless it is sticky.
AddPopup(n) ==
  IF dnd
  THEN UNCHANGED <<popups, timers>>
  ELSE /\ popups' = Without(popups, n.id) \cup {n}
       /\ timers' = [timers EXCEPT ![n.id] =
            IF n.ttl = "sticky" THEN NoTimer ELSE Armed(n.stamp)]

\* NotifyHints for an application no block list pattern matches.
Notify(g, app, replaces, kind) ==
  LET id == ResolvedId(app, replaces)
      n  == [id |-> id, app |-> app, stamp |-> stamp + 1, ttl |-> kind.ttl,
             transient |-> kind.transient, resident |-> kind.resident]
      replaced == WithId(all, id) # {}
      kept == Without(all, id)
  IN
  /\ Idle(g)
  /\ app \notin block
  /\ id \in Ids
  /\ stamp < MaxStamp
  /\ next' = IF OwnsId(app, replaces) THEN next ELSE next + 1
  /\ stamp' = stamp + 1
  /\ all' = IF n.transient THEN kept ELSE kept \cup {n}
  /\ expiry' = [expiry EXCEPT ![id] =
       IF ~n.transient /\ n.ttl = "timed" THEN Armed(n.stamp) ELSE NoTimer]
  /\ owners' = [owners EXCEPT ![id] = app]
  /\ AddPopup(n)
  /\ Continue(g,
       IF ~n.transient THEN <<[op |-> "add", n |-> n], Publish>>
       ELSE IF replaced THEN <<[op |-> "remove", id |-> id], Publish>>
       ELSE <<Publish>>, << >>)
  /\ UNCHANGED <<dnd, block, storage, tick, world>>

\* NotifyHints for a blocked application: the id is consumed, nothing else.
NotifyBlocked(g, app, replaces) ==
  /\ Idle(g)
  /\ app \in block
  /\ ResolvedId(app, replaces) \in Ids
  /\ ~OwnsId(app, replaces)
  /\ next' = next + 1
  /\ UNCHANGED <<all, expiry, popups, timers, owners, dnd, block, storage,
                 todo, tick, stamp, world>>
-----------------------------------------------------------------------------
\* Departures.

\* Mutant: the expiry timer is left running.
RemoveHistoryOnly(ids) ==
  /\ all' = {n \in all : \A id \in ids : n \in Without(all, id)}
  /\ owners' = [i \in Ids |-> IF i \in ids THEN NoOwner ELSE owners[i]]
  /\ UNCHANGED expiry

\* Mutant: the entry stays in the history.
RemoveTimerOnly(ids) ==
  /\ expiry' = [i \in Ids |-> IF i \in ids THEN NoTimer ELSE expiry[i]]
  /\ owners' = [i \in Ids |-> IF i \in ids THEN NoOwner ELSE owners[i]]
  /\ UNCHANGED all

\* removeHistoryLocked on each id of a set: out of the history, its expiry
\* timer stopped, its ownership given up.
RemoveHistory(ids) ==
  /\ all' = {n \in all : \A id \in ids : n \in Without(all, id)}
  /\ expiry' = [i \in Ids |-> IF i \in ids THEN NoTimer ELSE expiry[i]]
  /\ owners' = [i \in Ids |-> IF i \in ids THEN NoOwner ELSE owners[i]]

\* Mutant: the countdown outlives its popup.
DropPopupsOnly(ids) ==
  /\ popups' = {n \in popups : \A id \in ids : n \in Without(popups, id)}
  /\ UNCHANGED timers

\* dropPopupLocked on each id of a set: off the popup list, its countdown
\* stopped.
DropPopups(ids) ==
  /\ popups' = {n \in popups : \A id \in ids : n \in Without(popups, id)}
  /\ timers' = [i \in Ids |-> IF i \in ids THEN NoTimer ELSE timers[i]]

\* Close.  A notification that was not stored leaves without a word.
Close(g, id, reason, rest) ==
  /\ RemoveHistory({id})
  /\ IF reason = "expired" THEN UNCHANGED <<popups, timers>>
                           ELSE DropPopups({id})
  /\ Continue(g,
       IF WithId(all, id) = {} THEN << >>
       ELSE <<[op |-> "remove", id |-> id],
              [op |-> "closed", n |-> Newest(WithId(all, id)),
               reason |-> reason],
              Publish>>, rest)
  /\ UNCHANGED <<next, dnd, block, storage, tick, stamp, world>>

\* DismissAll: every stored id leaves the history and the popups; the store,
\* the bus and the feed hear of them one after the other (Sweep).
DismissAll(g) ==
  LET ids == {n.id : n \in all} IN
  /\ Idle(g)
  /\ RemoveHistory(ids)
  /\ DropPopups(ids)
  /\ Continue(g, IF all = {} THEN << >> ELSE <<[op |-> "sweep", rows |-> all]>>,
              << >>)
  /\ UNCHANGED <<next, dnd, block, storage, tick, stamp, world>>

\* Mutant: the readers are not told.
DismissPopupSilently(g, id, rest) ==
  /\ DropPopups({id})
  /\ Continue(g, << >>, rest)
  /\ UNCHANGED <<next, all, expiry, owners, dnd, block, storage, tick, stamp,
                 world>>

\* DismissPopup: off the screen, still in the history.
DismissPopup(g, id, rest) ==
  /\ DropPopups({id})
  /\ Continue(g, IF WithId(popups, id) = {} THEN << >> ELSE <<Publish>>, rest)
  /\ UNCHANGED <<next, all, expiry, owners, dnd, block, storage, tick, stamp,
                 world>>

\* InvokeAction: the signal, then the close unless the notification stays.
InvokeAction(g, id, rest) ==
  LET found    == Found(id)
      resident == found # {} /\ Newest(found).resident
  IN
  /\ Continue(g,
       IF owners[id] = NoOwner THEN << >>
       ELSE <<[op |-> "invoked", id |-> id]>>
            \o (IF resident THEN << >> ELSE <<CloseOp(id, "closedCall", 0)>>)
            \o <<Publish>>, rest)
  /\ UNCHANGED <<service, storage, tick, stamp, world>>

-----------------------------------------------------------------------------
\* Countdowns.

\* InhibitPopup: what is left is kept.  A countdown whose callback is already
\* waiting has nothing left; one that is still armed may be due.
InhibitPopup(g, id) ==
  /\ Idle(g)
  /\ Running(timers[id])
  /\ \E left \in IF timers[id].state = "fired" THEN {"spent"}
                                              ELSE {"paused", "spent"} :
       timers' = [timers EXCEPT ![id].state = left]
  /\ UNCHANGED <<next, all, expiry, popups, owners, dnd, block, storage, todo,
                 tick, stamp, world>>

\* ReleasePopup: a new countdown over the time that was left, or the popup
\* dropped at once.
ReleasePopup(g, id) ==
  /\ Idle(g)
  /\ Halted(timers[id])
  /\ \/ /\ timers[id].state = "spent"
        /\ DropPopups({id})
        /\ Continue(g, IF WithId(popups, id) = {} THEN << >> ELSE <<Publish>>,
                    << >>)
        /\ UNCHANGED stamp
     \/ /\ timers[id].state = "paused"
        /\ stamp < MaxStamp
        /\ stamp' = stamp + 1
        /\ timers' = [timers EXCEPT ![id] = Armed(stamp')]
        /\ UNCHANGED <<popups, todo>>
  /\ UNCHANGED <<next, all, expiry, owners, dnd, block, storage, tick, world>>

\* The runtime fires an armed timer: its callback runs on a goroutine of its
\* own and has yet to take the mutex.
PopupDue(g, id) ==
  /\ Idle(g)
  /\ timers[id].state = "armed"
  /\ timers' = [timers EXCEPT ![id].state = "fired"]
  /\ Continue(g, <<[op |-> "popup", id |-> id, tok |-> timers[id].tok]>>, << >>)
  /\ UNCHANGED <<next, all, expiry, popups, owners, dnd, block, storage, tick,
                 stamp, world>>

ExpiryDue(g, id) ==
  /\ Idle(g)
  /\ expiry[id].state = "armed"
  /\ expiry' = [expiry EXCEPT ![id].state = "fired"]
  /\ Continue(g, <<[op |-> "expiry", id |-> id, tok |-> expiry[id].tok]>>, << >>)
  /\ UNCHANGED <<next, all, popups, timers, owners, dnd, block, storage, tick,
                 stamp, world>>

\* Mutant: a callback does not notice the pause that overtook it.
PopupFiredAnyway(g, id, tok, rest) ==
  IF timers[id].tok = tok
  THEN DismissPopup(g, id, rest)
  ELSE /\ Continue(g, << >>, rest)
       /\ UNCHANGED <<service, storage, tick, stamp, world>>

\* The countdown's callback: a pause or a restart since made it stale.
PopupFired(g, id, tok, rest) ==
  IF timers[id].tok = tok /\ Running(timers[id])
  THEN DismissPopup(g, id, rest)
  ELSE /\ Continue(g, << >>, rest)
       /\ UNCHANGED <<service, storage, tick, stamp, world>>

\* The expiry's callback: it looks whether it is still the current one and,
\* with the mutex released in between, closes the id.
ExpiryFired(g, id, tok, rest) ==
  /\ Continue(g, IF expiry[id].tok = tok THEN <<CloseOp(id, "expired", tok)>>
                                        ELSE << >>, rest)
  /\ UNCHANGED <<service, storage, tick, stamp, world>>

-----------------------------------------------------------------------------
\* Do not disturb and the block list.

SetDND(g, on) ==
  /\ Idle(g)
  /\ dnd' = on
  /\ Continue(g, <<[op |-> "saveDND", on |-> on], Publish>>, << >>)
  /\ UNCHANGED <<next, all, expiry, popups, timers, owners, block, storage, tick,
                 stamp, world>>

ToggleDND(g) == SetDND(g, ~dnd)

SetBlocklist(patterns) ==
  /\ block' = patterns
  /\ UNCHANGED <<next, all, expiry, popups, timers, owners, dnd, storage, todo,
                 tick, stamp, world>>
-----------------------------------------------------------------------------
\* What goroutines do with the mutex released.

\* Store.Add: INSERT OR REPLACE by id.
StoreAdd(g, n, rest) ==
  /\ disk' = {r \in disk : r.id # n.id} \cup {n}
  /\ Continue(g, << >>, rest)
  /\ UNCHANGED <<service, savedDND, tick, stamp, world>>

\* Store.Remove.
StoreRemove(g, id, rest) ==
  /\ disk' = {r \in disk : r.id # id}
  /\ Continue(g, << >>, rest)
  /\ UNCHANGED <<service, savedDND, tick, stamp, world>>

\* emit(NotificationClosed).
EmitClosed(g, n, rest) ==
  /\ closed' = closed \cup {n}
  /\ Continue(g, << >>, rest)
  /\ UNCHANGED <<service, storage, tick, stamp, lapsed, crashes>>

\* One turn of DismissAll's second loop, in whatever order (the code's is
\* newest first, which nothing outside tells apart).
Sweep(g, rows, rest) ==
  /\ \E n \in rows :
       /\ disk' = {r \in disk : r.id # n.id}
       /\ Continue(g,
            <<[op |-> "closed", n |-> n, reason |-> "dismissed"], Publish>>
            \o (IF rows = {n} THEN << >>
                ELSE <<[op |-> "sweep", rows |-> rows \ {n}]>>), rest)
  /\ UNCHANGED <<service, savedDND, tick, stamp, world>>

SaveDND(g, on, rest) ==
  /\ savedDND' = on
  /\ Continue(g, << >>, rest)
  /\ UNCHANGED <<service, disk, tick, stamp, world>>

\* events.Publish.  The popup host reads the snapshot, not the event, so a
\* full buffer that drops this one still holds an earlier one to wake it.
PublishEvent(g, rest) ==
  /\ tick' = TRUE
  /\ Continue(g, << >>, rest)
  /\ UNCHANGED <<service, storage, stamp, world>>

\* emit(ActionInvoked) changes nothing the service keeps.
EmitInvoked(g, rest) ==
  /\ Continue(g, << >>, rest)
  /\ UNCHANGED <<service, storage, tick, stamp, world>>

\* Goroutine g does the next thing on its list.
Step(g) ==
  /\ ~Idle(g)
  /\ LET o == Head(todo[g])  rest == Tail(todo[g]) IN
     \/ o.op = "add"          /\ StoreAdd(g, o.n, rest)
     \/ o.op = "remove"       /\ StoreRemove(g, o.id, rest)
     \/ o.op = "closed"       /\ EmitClosed(g, o.n, rest)
     \/ o.op = "publish"      /\ PublishEvent(g, rest)
     \/ o.op = "invoked"      /\ EmitInvoked(g, rest)
     \/ o.op = "sweep"        /\ Sweep(g, o.rows, rest)
     \/ o.op = "saveDND"      /\ SaveDND(g, o.on, rest)
     \/ o.op = "close"        /\ Close(g, o.id, o.reason, rest)
     \/ o.op = "dismissPopup" /\ DismissPopup(g, o.id, rest)
     \/ o.op = "invoke"       /\ InvokeAction(g, o.id, rest)
     \/ o.op = "expiry"       /\ ExpiryFired(g, o.id, o.tok, rest)
     \/ o.op = "popup"        /\ PopupFired(g, o.id, o.tok, rest)

-----------------------------------------------------------------------------
\* The process.

\* Mutant: the id counter starts over after a restart.
HighestIdLost(rows, i) == i = 0

\* The counter continues past the restored ids.
HighestId(rows, i) ==
  /\ i \in {0} \cup {n.id : n \in rows}
  /\ \A n \in rows : n.id =< i

\* Mutant: restored entries get no expiry.
RearmedNever(rows) == [id \in Ids |-> NoTimer]

\* The expiries of restored rows.
Rearmed(rows) ==
  [id \in Ids |-> IF \E n \in WithId(rows, id) : n.ttl = "timed"
                  THEN Armed(Newest(WithId(rows, id)).stamp) ELSE NoTimer]

\* The shell dies and starts again: NewService, then AttachStore, before the
\* bus name is taken.  Load leaves out the rows whose timeout ran out while
\* the shell was down (their rows stay), the others are owned again by the
\* applications that have a name, and their expiries are armed again.
Restart ==
  /\ crashes < MaxCrashes
  /\ crashes' = crashes + 1
  /\ \E ranOut \in SUBSET {n \in disk : n.ttl = "timed"} :
       /\ lapsed' = lapsed \cup ranOut
       /\ all' = disk \ lapsed'
  /\ \E i \in 0 .. MaxId : HighestId(all', i) /\ next' = i
  /\ expiry' = Rearmed(all')
  /\ owners' = [id \in Ids |->
       IF \E n \in WithId(all', id) : n.app # NoName
       THEN Newest(WithId(all', id)).app ELSE NoOwner]
  /\ popups' = {}
  /\ timers' = [id \in Ids |-> NoTimer]
  /\ dnd' = savedDND
  /\ todo' = [g \in Threads |-> << >>]
  /\ tick' = FALSE
  /\ closed' = {}
  /\ UNCHANGED <<block, storage, stamp>>

Init ==
  /\ next = 0
  /\ all = {}
  /\ expiry = [id \in Ids |-> NoTimer]
  /\ popups = {}
  /\ timers = [id \in Ids |-> NoTimer]
  /\ owners = [id \in Ids |-> NoOwner]
  /\ dnd = FALSE
  /\ block \in Blocklists
  /\ disk = {}
  /\ savedDND = FALSE
  /\ todo = [g \in Threads |-> << >>]
  /\ tick = FALSE
  /\ stamp = 0
  /\ lapsed = {}
  /\ closed = {}
  /\ crashes = 0

\* One D-Bus method, or a button of the notification list, on goroutine g.
BusCall(g) ==
  \/ \E app \in Apps, replaces \in 0 .. MaxId :
       \/ \E kind \in Kinds : Notify(g, app, replaces, kind)
       \/ NotifyBlocked(g, app, replaces)
  \/ \E id \in Ids, reason \in {"dismissed", "closedCall"} :
       Idle(g) /\ Close(g, id, reason, << >>)
  \/ DismissAll(g)
  \/ \E on \in BOOLEAN : SetDND(g, on)
  \/ ToggleDND(g)

\* One call of the popup surface on goroutine g.
CardCall(g) ==
  \E id \in Ids :
    \/ Idle(g) /\ DismissPopup(g, id, << >>)
    \/ Idle(g) /\ InvokeAction(g, id, << >>)
    \/ InhibitPopup(g, id)
    \/ ReleasePopup(g, id)

Call(g) == BusCall(g) \/ CardCall(g)

\* A timer that ran out.
Due(g) == \E id \in Ids : PopupDue(g, id) \/ ExpiryDue(g, id)

Next ==
  \/ \E g \in Callers : Call(g)
  \/ \E g \in Callbacks : Due(g)
  \/ \E g \in Threads : Step(g)
  \/ \E patterns \in Blocklists : SetBlocklist(patterns)
  \/ Restart

\* The Go scheduler runs every goroutine and every timer that is due.
Fairness ==
  /\ \A g \in Threads : WF_vars(Step(g))
  /\ \A g \in Callbacks : WF_vars(Due(g))

Spec == Init /\ [][Next]_vars /\ Fairness
-----------------------------------------------------------------------------
\* Properties.

\* Type correctness of the service's state, the store and the goroutines.
TypeOK ==
  /\ next \in 0 .. MaxId
  /\ all \subseteq Notification
  /\ expiry \in [Ids -> Timer({"armed", "fired"})]
  /\ popups \subseteq Notification
  /\ timers \in [Ids -> Timer({"armed", "fired", "paused", "spent"})]
  /\ owners \in [Ids -> Names \cup {NoOwner}]
  /\ dnd \in BOOLEAN
  /\ block \in Blocklists
  /\ disk \subseteq Notification
  /\ savedDND \in BOOLEAN
  /\ todo \in [Threads -> Seq(Op)]
  /\ tick \in BOOLEAN
  /\ stamp \in 0 .. MaxStamp
  /\ lapsed \subseteq Notification
  /\ closed \subseteq Notification
  /\ crashes \in 0 .. MaxCrashes

\* No two entries of the history, of the popup list or of the store share an
\* id, although ids are replaced, reused after a restart and cut out of the
\* lists by loops that stop at the first match.
Unique(S) == \A m, n \in S : m.id = n.id => m = n
UniqueIds == Unique(all) /\ Unique(popups) /\ Unique(disk)

\* Whatever is stored can still be replaced by the application that sent it:
\* the owners map and the history never drift apart, across replacements,
\* late closes and restarts.
StoredIsOwned == \A n \in all : OwnerName(n.id) = n.app

\* A popup has a countdown exactly when it is not sticky, and a countdown has
\* a popup: no popup is left to stay for ever and no countdown can take an id
\* that was reused since.
CountdownPerPopup ==
  \A id \in Ids :
    timers[id] # NoTimer <=> \E p \in WithId(popups, id) : p.ttl # "sticky"

\* An armed expiry is the one of the entry the history holds under its id, and
\* every stored notification with a timeout has one, restored ones included.
ExpiryPerEntry ==
  \A id \in Ids :
    /\ expiry[id] # NoTimer =>
         \E n \in WithId(all, id) : n.stamp = expiry[id].tok /\ n.ttl = "timed"
    /\ \A n \in WithId(all, id) : n.ttl = "timed" => expiry[id].tok = n.stamp

\* The maps of the service follow the history: what is stored has its owner
\* and its expiry, and an expiry has its entry.
HistoryIsIndexed == StoredIsOwned /\ ExpiryPerEntry

\* The loops that look for an id meet the one entry that has it, and a popup
\* on the screen the one countdown that takes it off.
PopupsAreIndexed == UniqueIds /\ CountdownPerPopup

\* The notifications an op announces as closed, at once or one by one.
Speaks(o) == IF o.op = "closed" THEN {o.n}
             ELSE IF o.op = "sweep" THEN o.rows ELSE {}

\* Those goroutine g has yet to announce, and those any goroutine has.
Unannounced(g) == UNION {Speaks(todo[g][i]) : i \in DOMAIN todo[g]}
Leaving == UNION {Unannounced(g) : g \in Threads}

\* NotificationClosed is sent at most once for a notification, and only once
\* it has left the history: a notification is in the history, or about to be
\* announced by one goroutine, or announced.
ClosedOnce ==
  /\ all \cap closed = {}
  /\ \A g \in Threads :
       /\ Unannounced(g) \cap (all \cup closed) = {}
       /\ \A h \in Threads \ {g} : Unannounced(g) \cap Unannounced(h) = {}

\* Once an application was told that an id is closed, the id never again
\* names a notification of this session's history.
ClosedIdStaysClosed == \A c \in closed : \A n \in all : n.id # c.id

\* Goroutine g takes the op at the head of its list.
Moves(g) == ~Idle(g) /\ todo'[g] # todo[g] /\ crashes' = crashes

\* An arrival takes the place of stored notifications of the same application
\* only ("An app may only replace an id it owns").
OnlyOwnerReplaces ==
  [][crashes' = crashes =>
       \A n \in all' \ all : \A m \in all \ all' : n.app = m.app]_vars

\* The service keeps the promise of a notification server, across critical
\* sections and goroutines: a stored notification gives way to one of its own
\* application, or is announced as closed exactly once, and its id is not used
\* again in the session.
Server == INSTANCE NotificationServer WITH
  Notes <- Notification, kept <- all, leaving <- Leaving, told <- closed,
  session <- crashes
ServesAsPromised == Server!Spec

\* A countdown that is halted (the pointer is on the card) takes nothing off
\* the screen: only an arrival under its id, a close, a dismissal, or, with no
\* time left, the release does.  Neither a callback that was already on its
\* way nor the expiry of the history entry does.
HaltedPopupStays ==
  [][\A g \in Threads : Moves(g) =>
       LET o == Head(todo[g]) IN
       (o.op = "popup" \/ (o.op = "close" /\ o.reason = "expired"))
         => \A p \in popups : Halted(timers[p.id]) => p \in popups']_vars

\* A countdown that runs takes its popup off the screen in the end, unless it
\* is halted or replaced.
CountdownRunsOut ==
  \A t \in Stamps :
    (\E id \in Ids : timers[id].tok = t /\ Running(timers[id]))
      ~> ~(\E id \in Ids : timers[id].tok = t /\ Running(timers[id]))

\* A stored notification with a timeout leaves the history in the end, also
\* when the shell is restarted on the way.
TimedEntryExpires ==
  \A t \in Stamps :
    (\E n \in all : n.stamp = t /\ n.ttl = "timed")
      ~> ~(\E n \in all : n.stamp = t /\ n.ttl = "timed")

\* Whatever left the history is announced as closed in the end.
LeaversAreTold ==
  \A t \in Stamps : t \in {n.stamp : n \in Leaving} ~> t \notin {n.stamp : n \in Leaving}

\* Whatever has a time to go goes in the end, and its application hears of it.
TimedThingsGo == CountdownRunsOut /\ TimedEntryExpires /\ LeaversAreTold
=============================================================================
