--------------------------- MODULE AdsSubscriptions -------------------------
(***************************************************************************)
(* Notifications of the ads-go client (client_subscriptions.go): Subscribe, *)
(* Unsubscribe and UnsubscribeAll in the application's goroutines, the       *)
(* receive goroutine that routes samples by notification handle, and one    *)
(* callback goroutine per sample.                                           *)
(*                                                                          *)
(* An element of Subs is one SubscribeValue or SubscribeRaw call and the     *)
(* ActiveSubscription it makes; an element of Unsubs is one Unsubscribe call. *)
(* The device is external: it hands out the handles, each once until it may   *)
(* begin anew, and it forgets its table, with everything under way, when the  *)
(* connection or the TwinCAT system restarts (an epoch ends).  A request is    *)
(* answered or times out, as AdsCall says; responses and notifications come     *)
(* over one connection in the order the device sent them, to one goroutine,      *)
(* which an answer that comes too late may stop for good (ReceiverBlocks).       *)
(***************************************************************************)
EXTENDS Integers, Sequences, FiniteSets

CONSTANTS
  Subs,         \* the subscriptions the application makes
  NoSub,        \* "no subscription": the zero value of a map lookup
  MaxHandle,    \* the device's handles are 1 .. MaxHandle
  MaxSamples,   \* bound: samples the device sends for a subscription
  MaxUnsubs,    \* bound: calls of Unsubscribe, UnsubscribeAll's among them
  MaxEpoch,     \* bound: restarts of the connection or the TwinCAT system
  HandlesAnew   \* does the device number its handles anew after a restart?

ASSUME SubscriptionAssumption ==
  /\ NoSub \notin Subs
  /\ MaxHandle \in Nat \ {0}
  /\ MaxSamples \in Nat \ {0}
  /\ MaxUnsubs \in Nat
  /\ MaxEpoch \in Nat
  /\ HandlesAnew \in BOOLEAN

VARIABLES
  pc,            \* pc[s]: how far s has come in its life
  unsub,         \* unsub[u]: the Unsubscribe call u, of what and how far
  handle,        \* handle[s]: ActiveSubscription.Handle, 0 before it is known
  subscriptions, \* Client.subscriptions, total: NoSub where there is no entry
  all,           \* the running UnsubscribeAll: what it copied and has left
  callbacks,     \* samples whose processNotification goroutine has not run yet
  seen,          \* seen[s]: the samples s's callback was called with
  device,        \* device[h]: for whom the device watches under handle h
  requests,      \* requests the device has not handled yet
  sent,          \* sent[s]: how many samples the device sent for s
  used,          \* handles the device has given out
  epoch,         \* how often the device has forgotten everything
  wire,          \* packets the receive goroutine has not read yet
  blocked        \* does the receive goroutine offer an answer to a call that is over?

clientVars == <<pc, unsub, handle, subscriptions, all>>
callbackVars == <<callbacks, seen>>
deviceVars == <<device, requests, sent, used, epoch>>
vars == <<pc, unsub, handle, subscriptions, all, callbacks, seen, device, requests,
          sent, used, epoch, wire, blocked>>

Handles == 1 .. MaxHandle
Samples == [from : Subs, n : 1 .. MaxSamples]
Unsubs == 1 .. MaxUnsubs
Requests ==
  [kind : {"add"}, sub : Subs] \union [kind : {"delete"}, call : Unsubs, handle : Handles]
Packets ==
  [kind : {"added"}, sub : Subs, handle : Handles]
    \union [kind : {"deleted"}, call : Unsubs]
    \union [kind : {"sample"}, sub : Subs, handle : Handles, n : 1 .. MaxSamples]
NotMade == [sub |-> NoSub, at |-> "new", byAll |-> FALSE]
NotUnsubscribingAll == [on |-> FALSE, left |-> {}]

TypeOK ==
  /\ pc \in [Subs -> {"new", "adding", "added", "active", "failed", "gone"}]
  /\ unsub \in [Unsubs -> [sub : Subs \union {NoSub}, byAll : BOOLEAN,
                            at : {"new", "deleting", "deleted", "done"}]]
  /\ handle \in [Subs -> {0} \union Handles]
  /\ subscriptions \in [Handles -> Subs \union {NoSub}]
  /\ all \in [on : BOOLEAN, left : SUBSET Subs]
  /\ callbacks \subseteq [sub : Subs, sample : Samples]
  /\ seen \in [Subs -> SUBSET Samples]
  /\ device \in [Handles -> Subs \union {NoSub}]
  /\ requests \subseteq Requests
  /\ sent \in [Subs -> 0 .. MaxSamples]
  /\ used \subseteq Handles
  /\ epoch \in 0 .. MaxEpoch
  /\ wire \in Seq(Packets)
  /\ blocked \in BOOLEAN

Init ==
  /\ pc = [s \in Subs |-> "new"]
  /\ unsub = [u \in Unsubs |-> NotMade]
  /\ handle = [s \in Subs |-> 0]
  /\ subscriptions = [h \in Handles |-> NoSub]
  /\ all = NotUnsubscribingAll
  /\ callbacks = {}
  /\ seen = [s \in Subs |-> {}]
  /\ device = [h \in Handles |-> NoSub]
  /\ requests = {}
  /\ sent = [s \in Subs |-> 0]
  /\ used = {}
  /\ epoch = 0
  /\ wire = <<>>
  /\ blocked = FALSE

-----------------------------------------------------------------------------
(* addSubscription.                                                        *)

\* AddNotification is sent.
Subscribe(s) ==
  /\ pc[s] = "new"
  /\ pc' = [pc EXCEPT ![s] = "adding"]
  /\ requests' = requests \union {[kind |-> "add", sub |-> s]}
  /\ UNCHANGED <<unsub, handle, subscriptions, all, callbackVars, device, sent, used,
                 epoch, wire, blocked>>

\* send fails or times out, or the device refuses.  After a timeout the
\* notification may exist on the device with no subscription for it.
SubscribeFails(s) ==
  /\ pc[s] = "adding"
  /\ pc' = [pc EXCEPT ![s] = "failed"]
  /\ UNCHANGED <<unsub, handle, subscriptions, all, callbackVars, deviceVars, wire, blocked>>

\* The handle is known; under subscriptionsMutex the entry is made, over an
\* older one for the same handle if there is one.
Store(s) ==
  /\ pc[s] = "added"
  /\ subscriptions' = [subscriptions EXCEPT ![handle[s]] = s]
  /\ pc' = [pc EXCEPT ![s] = "active"]
  /\ UNCHANGED <<unsub, handle, all, callbackVars, deviceVars, wire, blocked>>

-----------------------------------------------------------------------------
(* Unsubscribe and UnsubscribeAll.                                          *)

Running(u) == unsub[u].at \in {"deleting", "deleted"}

\* DeleteNotification is sent, whatever has become of the subscription.
BeginUnsubscribe(u, s, byAll) ==
  /\ unsub[u].at = "new"
  /\ \A v \in Unsubs : v < u => unsub[v].at # "new"
  /\ pc[s] \in {"active", "gone"}
  /\ unsub' = [unsub EXCEPT ![u] = [sub |-> s, at |-> "deleting", byAll |-> byAll]]
  /\ requests' = requests \union {[kind |-> "delete", call |-> u, handle |-> handle[s]]}
  /\ UNCHANGED <<pc, handle, callbackVars, device, sent, used, epoch, wire, blocked>>

\* Faulty: the entry is deleted before the device has answered.
Unsubscribe_EntryFirst(u, s) ==
  /\ BeginUnsubscribe(u, s, FALSE)
  /\ subscriptions' = [subscriptions EXCEPT ![handle[s]] = NoSub]
  /\ UNCHANGED all

Unsubscribe(u, s) ==
  /\ BeginUnsubscribe(u, s, FALSE)
  /\ UNCHANGED <<subscriptions, all>>

\* Faulty: a failed send does not keep Unsubscribe from deleting the entry.
UnsubscribeFails_Deletes(u) ==
  /\ unsub[u].at = "deleting"
  /\ unsub' = [unsub EXCEPT ![u].at = "done"]
  /\ subscriptions' = [subscriptions EXCEPT ![handle[unsub[u].sub]] = NoSub]
  /\ UNCHANGED <<pc, handle, all, callbackVars, deviceVars, wire, blocked>>

\* send fails or times out: the entry stays.
UnsubscribeFails(u) ==
  /\ unsub[u].at = "deleting"
  /\ unsub' = [unsub EXCEPT ![u].at = "done"]
  /\ UNCHANGED <<pc, handle, subscriptions, all, callbackVars, deviceVars, wire, blocked>>

\* Faulty: the entry stays.
RemoveEntry_Keeps(u) ==
  LET s == unsub[u].sub IN
  /\ unsub[u].at = "deleted"
  /\ unsub' = [unsub EXCEPT ![u].at = "done"]
  /\ pc' = [pc EXCEPT ![s] = "gone"]
  /\ UNCHANGED <<subscriptions, handle, all, callbackVars, deviceVars, wire, blocked>>

\* Under subscriptionsMutex the entry of the handle is deleted.
RemoveEntry(u) ==
  LET s == unsub[u].sub IN
  /\ unsub[u].at = "deleted"
  /\ subscriptions' = [subscriptions EXCEPT ![handle[s]] = NoSub]
  /\ unsub' = [unsub EXCEPT ![u].at = "done"]
  /\ pc' = [pc EXCEPT ![s] = "gone"]
  /\ UNCHANGED <<handle, all, callbackVars, deviceVars, wire, blocked>>

\* Faulty: absent entries are copied too.
UnsubscribeAll_WithNil ==
  /\ ~all.on
  /\ all' = [on |-> TRUE, left |-> {subscriptions[h] : h \in Handles}]
  /\ UNCHANGED <<pc, unsub, handle, subscriptions, callbackVars, deviceVars, wire, blocked>>

\* UnsubscribeAll copies the map's values, and no longer looks at it.
UnsubscribeAll ==
  /\ ~all.on
  /\ all' = [on |-> TRUE, left |-> {subscriptions[h] : h \in Handles} \ {NoSub}]
  /\ UNCHANGED <<pc, unsub, handle, subscriptions, callbackVars, deviceVars, wire, blocked>>

\* It unsubscribes them one after the other, going on after a failure.
UnsubscribeNext(u, s) ==
  /\ s \in all.left
  /\ \A v \in Unsubs : unsub[v].byAll => ~Running(v)
  /\ BeginUnsubscribe(u, s, TRUE)
  /\ all' = [all EXCEPT !.left = @ \ {s}]
  /\ UNCHANGED subscriptions

UnsubscribedAll ==
  /\ all.on /\ all.left = {}
  /\ \A v \in Unsubs : unsub[v].byAll => ~Running(v)
  /\ all' = NotUnsubscribingAll
  /\ UNCHANGED <<pc, unsub, handle, subscriptions, callbackVars, deviceVars, wire, blocked>>

-----------------------------------------------------------------------------
(* The device, external.                                                   *)

DeviceAdds(s, h) ==
  /\ [kind |-> "add", sub |-> s] \in requests
  /\ h \notin used
  /\ requests' = requests \ {[kind |-> "add", sub |-> s]}
  /\ device' = [device EXCEPT ![h] = s]
  /\ used' = used \union {h}
  /\ wire' = Append(wire, [kind |-> "added", sub |-> s, handle |-> h])
  /\ UNCHANGED <<clientVars, callbackVars, sent, epoch, blocked>>

\* The value is sent once on subscribing and then whenever it changes.
DeviceSamples(h) ==
  LET s == device[h] IN
  /\ s # NoSub
  /\ sent[s] < MaxSamples
  /\ sent' = [sent EXCEPT ![s] = @ + 1]
  /\ wire' = Append(wire, [kind |-> "sample", sub |-> s, handle |-> h, n |-> sent[s] + 1])
  /\ UNCHANGED <<clientVars, callbackVars, device, requests, used, epoch, blocked>>

\* Whoever has the handle loses it.  If nobody has, the device answers with an
\* ADS error in the payload, which Unsubscribe does not look at.
DeviceDeletes(r) ==
  /\ r \in requests
  /\ r.kind = "delete"
  /\ requests' = requests \ {r}
  /\ device' = [device EXCEPT ![r.handle] = NoSub]
  /\ wire' = Append(wire, [kind |-> "deleted", call |-> r.call])
  /\ UNCHANGED <<clientVars, callbackVars, sent, used, epoch, blocked>>

\* The connection or the TwinCAT system restarts.  A new connection comes with a
\* receive goroutine of its own.
Restart ==
  /\ epoch < MaxEpoch
  /\ epoch' = epoch + 1
  /\ device' = [h \in Handles |-> NoSub]
  /\ requests' = {}
  /\ used' = IF HandlesAnew THEN {} ELSE used
  /\ wire' = <<>>
  /\ blocked' \in {FALSE, blocked}
  /\ UNCHANGED <<clientVars, callbackVars, sent>>

-----------------------------------------------------------------------------
(* The receive goroutine.  An answer is looked up and delivered in one step, *)
(* as between the two the goroutine does nothing else; that the call ends     *)
(* there, and the delivery blocks, is the step ReceiverBlocks.                *)

\* An answer was looked up and, before it was sent on the channel, its call timed
\* out: nobody will receive it.  The call may be a Subscribe, an Unsubscribe or any
\* other call of the client, whose packets are not shown here.
ReceiverBlocks ==
  /\ ~blocked
  /\ blocked' = TRUE
  /\ UNCHANGED <<clientVars, callbackVars, deviceVars, wire>>

\* Faulty: a response goes to any Subscribe that waits, not to its own.
TakeAdded_AnyWaiting ==
  /\ ~blocked /\ wire # <<>> /\ Head(wire).kind = "added"
  /\ IF \E t \in Subs : pc[t] = "adding"
     THEN LET s == CHOOSE t \in Subs : pc[t] = "adding" IN
          /\ pc' = [pc EXCEPT ![s] = "added"]
          /\ handle' = [handle EXCEPT ![s] = Head(wire).handle]
     ELSE UNCHANGED <<pc, handle>>
  /\ wire' = Tail(wire)
  /\ UNCHANGED <<unsub, subscriptions, all, callbackVars, deviceVars, blocked>>

\* The response reaches addSubscription, if it still waits; if it has timed out
\* before the lookup, the response is discarded.
TakeAdded ==
  /\ ~blocked /\ wire # <<>> /\ Head(wire).kind = "added"
  /\ LET s == Head(wire).sub IN
     IF pc[s] = "adding"
     THEN /\ pc' = [pc EXCEPT ![s] = "added"]
          /\ handle' = [handle EXCEPT ![s] = Head(wire).handle]
     ELSE UNCHANGED <<pc, handle>>
  /\ wire' = Tail(wire)
  /\ UNCHANGED <<unsub, subscriptions, all, callbackVars, deviceVars, blocked>>

\* The response reaches Unsubscribe, likewise.
TakeDeleted ==
  /\ ~blocked /\ wire # <<>> /\ Head(wire).kind = "deleted"
  /\ LET u == Head(wire).call IN
     unsub' = IF unsub[u].at = "deleting" THEN [unsub EXCEPT ![u].at = "deleted"] ELSE unsub
  /\ wire' = Tail(wire)
  /\ UNCHANGED <<pc, handle, subscriptions, all, callbackVars, deviceVars, blocked>>

\* Faulty: samples of a subscription that is being deleted are not passed on.
RouteSample_NotWhileDeleting ==
  /\ ~blocked /\ wire # <<>> /\ Head(wire).kind = "sample"
  /\ LET s == subscriptions[Head(wire).handle] IN
     /\ s # NoSub
     /\ callbacks' =
          IF \E u \in Unsubs : Running(u) /\ unsub[u].sub = s THEN callbacks
          ELSE callbacks \union
                 {[sub |-> s, sample |-> [from |-> Head(wire).sub, n |-> Head(wire).n]]}
  /\ wire' = Tail(wire)
  /\ UNCHANGED <<clientVars, seen, deviceVars, blocked>>

\* handleNotification finds the handle and starts processNotification.
RouteSample ==
  /\ ~blocked /\ wire # <<>> /\ Head(wire).kind = "sample"
  /\ subscriptions[Head(wire).handle] # NoSub
  /\ callbacks' = callbacks \union
       {[sub |-> subscriptions[Head(wire).handle],
         sample |-> [from |-> Head(wire).sub, n |-> Head(wire).n]]}
  /\ wire' = Tail(wire)
  /\ UNCHANGED <<clientVars, seen, deviceVars, blocked>>

\* An unknown handle: a warning, and the sample is dropped.
DropSample ==
  /\ ~blocked /\ wire # <<>> /\ Head(wire).kind = "sample"
  /\ subscriptions[Head(wire).handle] = NoSub
  /\ wire' = Tail(wire)
  /\ UNCHANGED <<clientVars, callbackVars, deviceVars, blocked>>

\* processNotification, in a goroutine of its own, calls the user's callback.
\* The sample has the size that was asked for, and converts to a value.
RunCallback(cb) ==
  /\ cb \in callbacks
  /\ callbacks' = callbacks \ {cb}
  /\ seen' = [seen EXCEPT ![cb.sub] = @ \union {cb.sample}]
  /\ UNCHANGED <<clientVars, deviceVars, wire, blocked>>

-----------------------------------------------------------------------------

AppStep(s) ==
  \/ Subscribe(s)
  \/ SubscribeFails(s)
  \/ Store(s)
  \/ \E u \in Unsubs : Unsubscribe(u, s) \/ UnsubscribeNext(u, s)

Receive == TakeAdded \/ TakeDeleted \/ RouteSample \/ DropSample

Next ==
  \/ \E s \in Subs : AppStep(s)
  \/ \E u \in Unsubs : UnsubscribeFails(u) \/ RemoveEntry(u)
  \/ UnsubscribeAll
  \/ UnsubscribedAll
  \/ \E s \in Subs, h \in Handles : DeviceAdds(s, h)
  \/ \E h \in Handles : DeviceSamples(h)
  \/ \E r \in requests : DeviceDeletes(r)
  \/ Restart
  \/ Receive
  \/ ReceiverBlocks
  \/ \E cb \in callbacks : RunCallback(cb)

\* The receive goroutine runs as long as it is not blocked, and so do the callback
\* goroutines, of which there are finitely many.  Nothing is owed by the device,
\* and nothing here waits for the application's calls to end.
Fairness ==
  /\ WF_vars(Receive)
  /\ WF_vars(\E cb \in callbacks : RunCallback(cb))

SafeSpec == Init /\ [][Next]_vars
Spec == SafeSpec /\ Fairness

-----------------------------------------------------------------------------
(* Properties.                                                             *)

OnWire(s, n) == \E k \in 1 .. Len(wire) :
  wire[k].kind = "sample" /\ wire[k].sub = s /\ wire[k].n = n

\* "SubscriptionCallback is called when a subscribed value changes"
\* (client_subscriptions_types.go:43): with a sample the device took for that
\* subscription and never with another's.
RightCallback == \A s \in Subs : \A x \in seen[s] : x.from = s

\* An entry of Client.subscriptions is a subscription that nobody has
\* unsubscribed, under its own handle, across restarts too
\* (client_subscriptions.go:171, 202).
NothingLeftBehind ==
  \A s \in Subs, h \in Handles :
    subscriptions[h] = s => pc[s] = "active" /\ handle[s] = h

\* While the device gives out each handle once, no Store and no RemoveEntry of
\* another subscription takes the entry of an active one.
ActiveIsMapped == \A s \in Subs : pc[s] = "active" => subscriptions[handle[s]] = s

\* The only samples dropped are those that overtake the storing of their handle,
\* and those of a Subscribe that failed: Unsubscribe deletes the entry only after
\* the device's answer, and every sample comes before that answer
\* (client_subscriptions.go:189-202, 350).
OnlyEarlySamplesAreDropped ==
  [][ DropSample => pc[Head(wire).sub] \notin {"active", "gone"} ]_vars

\* A sample under way for a stored subscription reaches its callback, whatever
\* becomes of the subscription meanwhile (client_subscriptions.go:345-358), unless
\* the only receive goroutine comes to block on a late answer (client_buffer.go:102,
\* ReceiverMovesOn of AdsCall).  A restart loses what is under way, so this is about
\* the time after the last one; the first may come at once, so that every behaviour
\* of an earlier epoch is one of the last.
SamplesReachCallback ==
  \A s \in Subs, n \in 1 .. MaxSamples :
    pc[s] = "active" /\ OnWire(s, n) /\ epoch = MaxEpoch
      ~> [from |-> s, n |-> n] \in seen[s] \/ blocked
=============================================================================
