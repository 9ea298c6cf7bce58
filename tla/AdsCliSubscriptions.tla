------------------------ MODULE AdsCliSubscriptions ------------------------
(***************************************************************************)
(* The subscription commands of the command line program                    *)
(* (cmd/cli/cmd_subscriptions.go): subscribe, its shortcuts and sub_all,      *)
(* list_subs, unsubscribe and unsubscribe_all.  The readline loop runs one      *)
(* command at a time; the callbacks count notifications in goroutines of        *)
(* their own, before, during and after the command that made or ended their      *)
(* subscription.                                                            *)
(*                                                                          *)
(* Of the client and the device only what AdsSubscriptions says of them is       *)
(* kept: a call of SubscribeValue or Unsubscribe succeeds, fails before the       *)
(* device has acted, or times out after it has.                                *)
(***************************************************************************)
EXTENDS Integers

CONSTANTS
  MaxID,        \* bound: the IDs the commands give out
  MaxHandle,    \* bound: the device's handles
  MaxSamples,   \* bound: notifications routed to the callback of one ID
  MaxRestart,   \* bound: restarts of the connection or the TwinCAT system
  AllNames      \* how many variables sub_all subscribes to

ASSUME CliAssumption ==
  /\ MaxID \in Nat \ {0} /\ MaxHandle \in Nat \ {0} /\ MaxSamples \in Nat
  /\ MaxRestart \in Nat /\ AllNames \in Nat \ {0}

VARIABLES
  nextSubID,          \* the next command's ID
  subscriptions,      \* the keys of the map from IDs to ActiveSubscriptions
  subscriptionStats,  \* NotificationCount by ID, 0 where there is no entry
  at,                 \* where the command that runs is
  cur,                \* the ID it is about, or 0
  more,               \* the variables sub_all has yet to subscribe to
  left,               \* the subscriptions UnsubscribeAll has yet to unsubscribe
  handle,             \* handle[id]: ActiveSubscription.Handle, 0 before it has one
  client,             \* Client.subscriptions: whose callback a handle has, or 0
  device,             \* for which ID the device watches under a handle, or 0
  nextHandle,         \* the device's next handle
  callbacks,          \* callbacks[id]: goroutines that have yet to call it back
  routed,             \* routed[id]: notifications handed to such goroutines
  failed,             \* IDs of which a call of the client has returned an error
  restarts,           \* how often the device has forgotten its table
  anew                \* has it begun again with its first handle, too?

cmdVars == <<at, cur, more, left>>
clientVars == <<handle, client>>
deviceVars == <<device, nextHandle, restarts, anew>>
countVars == <<subscriptionStats, callbacks, routed>>
vars == <<nextSubID, subscriptions, failed, cmdVars, clientVars, deviceVars, countVars>>

IDs == 1 .. MaxID
Handles == 1 .. MaxHandle

TypeOK ==
  /\ nextSubID \in 1 .. MaxID + 1
  /\ subscriptions \subseteq IDs
  /\ subscriptionStats \in [IDs -> Nat]
  /\ at \in {"prompt", "adding", "added", "stored", "unlisted", "deleting", "deleted",
             "cleared", "next"}
  /\ cur \in 0 .. MaxID
  /\ more \in 0 .. AllNames
  /\ left \subseteq IDs
  /\ at \in {"adding", "added", "stored", "unlisted", "deleting", "deleted"} => cur \in IDs
  /\ handle \in [IDs -> 0 .. MaxHandle]
  /\ client \in [Handles -> 0 .. MaxID] /\ device \in [Handles -> 0 .. MaxID]
  /\ nextHandle \in 1 .. MaxHandle + 1
  /\ callbacks \in [IDs -> Nat] /\ routed \in [IDs -> Nat]
  /\ failed \subseteq IDs
  /\ restarts \in 0 .. MaxRestart /\ anew \in BOOLEAN

Init ==
  /\ nextSubID = 1
  /\ subscriptions = {}
  /\ subscriptionStats = [id \in IDs |-> 0]
  /\ at = "prompt"
  /\ cur = 0
  /\ more = 0
  /\ left = {}
  /\ handle = [id \in IDs |-> 0]
  /\ client = [h \in Handles |-> 0]
  /\ device = [h \in Handles |-> 0]
  /\ nextHandle = 1
  /\ callbacks = [id \in IDs |-> 0]
  /\ routed = [id \in IDs |-> 0]
  /\ failed = {}
  /\ restarts = 0
  /\ anew = FALSE

Goto(place) == at' = place /\ UNCHANGED <<cur, more, left>>
About(place, id) == at' = place /\ cur' = id /\ UNCHANGED <<more, left>>

-----------------------------------------------------------------------------
(* subscribe, sub_counter, sub_toggle, sub_timed_counter, sub_timed_toggle    *)
(* (one variable) and sub_all.                                             *)

\* Faulty: the number of subscriptions is taken for the ID.
NewID_OfCount(m) ==
  LET id == CHOOSE i \in 1 .. MaxID + 1 :
              i \notin subscriptions /\ \A j \in 1 .. i - 1 : j \in subscriptions IN
  /\ id \in IDs
  /\ at' = "adding" /\ cur' = id /\ more' = m
  /\ nextSubID' = nextSubID

\* Under subscriptionsMutex the ID is taken, whatever becomes of the call.
NewID(m) ==
  /\ nextSubID \in IDs
  /\ at' = "adding" /\ cur' = nextSubID /\ more' = m
  /\ nextSubID' = nextSubID + 1

\* sub_all goes on with its next variable, after a failure too.
GoOn ==
  \/ more > 0 /\ NewID(more - 1)
  \/ more = 0 /\ at' = "prompt" /\ cur' = 0 /\ UNCHANGED <<more, nextSubID>>

Subscribe(names) ==
  /\ at = "prompt"
  /\ nextSubID + names - 1 \in IDs
  /\ NewID(names - 1)
  /\ UNCHANGED <<subscriptions, failed, left, clientVars, deviceVars, countVars>>

\* The device adds the notification, and its answer arrives in time.
SubscribeValue ==
  /\ at = "adding"
  /\ nextHandle \in Handles
  /\ device' = [device EXCEPT ![nextHandle] = cur]
  /\ nextHandle' = nextHandle + 1
  /\ handle' = [handle EXCEPT ![cur] = nextHandle]
  /\ Goto("added")
  /\ UNCHANGED <<nextSubID, subscriptions, failed, client, restarts, anew, countVars>>

\* The call fails.
SubscribeFails ==
  /\ at = "adding"
  /\ GoOn
  /\ failed' = failed \union {cur}
  /\ UNCHANGED <<subscriptions, left, clientVars, deviceVars, countVars>>

\* The call times out, but the device has added the notification.
SubscribeTimesOut ==
  /\ at = "adding"
  /\ nextHandle \in Handles
  /\ device' = [device EXCEPT ![nextHandle] = cur]
  /\ nextHandle' = nextHandle + 1
  /\ GoOn
  /\ failed' = failed \union {cur}
  /\ UNCHANGED <<subscriptions, left, clientVars, restarts, anew, countVars>>

\* The client knows the handle; its callback is called from now on.
ClientStores ==
  /\ at = "added"
  /\ client' = [client EXCEPT ![handle[cur]] = cur]
  /\ Goto("stored")
  /\ UNCHANGED <<nextSubID, subscriptions, failed, handle, deviceVars, countVars>>

\* Faulty: sub_all stores only its last subscription.
Store_LastOnly ==
  /\ at = "stored"
  /\ subscriptions' = IF more = 0 THEN subscriptions \union {cur} ELSE subscriptions
  /\ GoOn
  /\ UNCHANGED <<failed, left, clientVars, deviceVars, countVars>>

\* Under subscriptionsMutex the subscription is stored.
Store ==
  /\ at = "stored"
  /\ subscriptions' = subscriptions \union {cur}
  /\ GoOn
  /\ UNCHANGED <<failed, left, clientVars, deviceVars, countVars>>

-----------------------------------------------------------------------------
(* unsubscribe and unsubscribe_all.                                         *)

\* The completions of unsubscribe, of which the user picks one, and a guard:
\* other IDs are not found.
getUnsubscribeCompletions == subscriptions

\* Faulty: the subscription is removed from the map after the call.
Unsubscribe_Keeps(id) ==
  /\ at = "prompt"
  /\ id \in getUnsubscribeCompletions
  /\ About("unlisted", id)
  /\ UNCHANGED <<nextSubID, subscriptions, failed, clientVars, deviceVars, countVars>>

\* Under subscriptionsMutex the subscription is looked up and deleted.
Unsubscribe(id) ==
  /\ at = "prompt"
  /\ id \in getUnsubscribeCompletions
  /\ subscriptions' = subscriptions \ {id}
  /\ About("unlisted", id)
  /\ UNCHANGED <<nextSubID, failed, clientVars, deviceVars, countVars>>

\* Under subscriptionStatsMutex, then the client is called.
DeleteStats ==
  /\ at = "unlisted"
  /\ subscriptionStats' = [subscriptionStats EXCEPT ![cur] = 0]
  /\ Goto("deleting")
  /\ UNCHANGED <<nextSubID, subscriptions, failed, clientVars, deviceVars, callbacks, routed>>

UnsubscribeAll ==
  /\ at = "prompt"
  /\ subscriptions' = {}
  /\ Goto("cleared")
  /\ UNCHANGED <<nextSubID, failed, clientVars, deviceVars, countVars>>

\* Faulty: absent entries are copied too.
ClearStats_WithNil ==
  /\ at = "cleared"
  /\ subscriptionStats' = [id \in IDs |-> 0]
  /\ at' = "next" /\ left' = {client[h] : h \in Handles}
  /\ UNCHANGED <<cur, more, nextSubID, subscriptions, failed, clientVars, deviceVars, callbacks,
                 routed>>

\* The statistics are replaced, then Client.UnsubscribeAll copies the client's
\* map: it has the subscriptions of earlier failures, too.
ClearStats ==
  /\ at = "cleared"
  /\ subscriptionStats' = [id \in IDs |-> 0]
  /\ at' = "next" /\ left' = {client[h] : h \in Handles} \ {0}
  /\ UNCHANGED <<cur, more, nextSubID, subscriptions, failed, clientVars, deviceVars, callbacks,
                 routed>>

UnsubscribeNext(id) ==
  /\ at = "next"
  /\ id \in left
  /\ at' = "deleting" /\ cur' = id /\ left' = left \ {id}
  /\ UNCHANGED <<more, nextSubID, subscriptions, failed, clientVars, deviceVars, countVars>>

UnsubscribedAll ==
  /\ at = "next" /\ left = {}
  /\ Goto("prompt")
  /\ UNCHANGED <<nextSubID, subscriptions, failed, clientVars, deviceVars, countVars>>

\* After Client.Unsubscribe: unsubscribe is done, UnsubscribeAll goes on, after
\* a failure too.
Unsubscribed == About("next", 0)

\* The device deletes the notification of the handle, and answers in time.
DeleteNotification ==
  /\ at = "deleting"
  /\ device' = [device EXCEPT ![handle[cur]] = 0]
  /\ Goto("deleted")
  /\ UNCHANGED <<nextSubID, subscriptions, failed, clientVars, nextHandle, restarts, anew,
                 countVars>>

\* Client.Unsubscribe fails, or times out although the device has deleted it:
\* the client's entry stays.
UnsubscribeFails ==
  /\ at = "deleting"
  /\ device' \in {device, [device EXCEPT ![handle[cur]] = 0]}
  /\ failed' = failed \union {cur}
  /\ Unsubscribed
  /\ UNCHANGED <<nextSubID, subscriptions, clientVars, nextHandle, restarts, anew, countVars>>

ClientRemoves ==
  /\ at = "deleted"
  /\ client' = [client EXCEPT ![handle[cur]] = 0]
  /\ Unsubscribed
  /\ UNCHANGED <<nextSubID, subscriptions, failed, handle, deviceVars, countVars>>

-----------------------------------------------------------------------------
(* Notifications and their callbacks.                                       *)

\* A notification comes; the client looks its handle up and starts a goroutine.
Notify(h) ==
  LET id == client[h] IN
  /\ device[h] # 0
  /\ id # 0 /\ routed[id] < MaxSamples
  /\ callbacks' = [callbacks EXCEPT ![id] = @ + 1]
  /\ routed' = [routed EXCEPT ![id] = @ + 1]
  /\ UNCHANGED <<nextSubID, subscriptions, failed, cmdVars, clientVars, deviceVars,
                 subscriptionStats>>

\* createSubscriptionCallback's function, under subscriptionStatsMutex: an
\* entry is made if there is none, and counts one more.
Callback(id) ==
  /\ callbacks[id] > 0
  /\ callbacks' = [callbacks EXCEPT ![id] = @ - 1]
  /\ subscriptionStats' = [subscriptionStats EXCEPT ![id] = @ + 1]
  /\ UNCHANGED <<nextSubID, subscriptions, failed, cmdVars, clientVars, deviceVars, routed>>

\* The connection or the TwinCAT system restarts; the device has forgotten its
\* notifications, and perhaps how far its handles had come.  The maps stay.
Restart ==
  /\ restarts < MaxRestart
  /\ restarts' = restarts + 1
  /\ device' = [h \in Handles |-> 0]
  /\ \/ UNCHANGED <<nextHandle, anew>>
     \/ nextHandle' = 1 /\ anew' = TRUE
  /\ UNCHANGED <<nextSubID, subscriptions, failed, cmdVars, clientVars, countVars>>

-----------------------------------------------------------------------------

Command ==
  \/ \E names \in {1, AllNames} : Subscribe(names)
  \/ SubscribeValue \/ SubscribeFails \/ SubscribeTimesOut \/ ClientStores \/ Store
  \/ \E id \in IDs : Unsubscribe(id) \/ UnsubscribeNext(id)
  \/ DeleteStats \/ UnsubscribeAll \/ ClearStats \/ UnsubscribedAll
  \/ DeleteNotification \/ UnsubscribeFails \/ ClientRemoves

Next ==
  \/ Command
  \/ \E h \in Handles : Notify(h)
  \/ \E id \in IDs : Callback(id)
  \/ Restart

Spec == Init /\ [][Next]_vars

-----------------------------------------------------------------------------
(* Properties.                                                             *)

\* What list_subs shows: the notifications each subscription has had.
ListSubs == [id \in subscriptions |-> subscriptionStats[id]]

\* Every subscription that list_subs shows and unsubscribe accepts is the one the
\* client calls back under its handle, unless the device has numbered its handles
\* anew (cmd_subscriptions.go:86, 169, 193; client_subscriptions.go:171, 202).
ListedIsRouted ==
  ~anew => \A id \in subscriptions : client[handle[id]] = id

\* The count that list_subs shows, with the goroutines still on their way, is
\* the number of notifications routed to that subscription: the entry that a late
\* callback makes after unsubscribe never comes under another subscription's
\* ID (cmd_subscriptions.go:39-44, 174, 197).
AllCounted ==
  \A id \in subscriptions : ListSubs[id] + callbacks[id] = routed[id]

\* Only what a call returned an error for is out of unsubscribe's reach: else
\* every notification the device keeps, and every callback the client
\* keeps, is of a listed subscription or of the command that runs
\* (cmd_subscriptions.go:78-87, 169-178, 193-201, 366-374).
NothingOrphaned ==
  at # "cleared" =>
    \A h \in Handles :
      {device[h], client[h]} \ {0}
        \subseteq subscriptions \union failed \union {cur} \union left
=============================================================================
