----------------------- MODULE AdsSubscriptionsProofs -----------------------
(***************************************************************************)
(* Proofs about AdsSubscriptions, for any number of subscriptions, calls of  *)
(* Unsubscribe, handles and restarts.  The entries of the map are those of    *)
(* active subscriptions whatever the device does.  That no subscription gets   *)
(* another's samples, and that an active one keeps its entry, rests on each     *)
(* handle having one owner, which is so as long as the device does not number    *)
(* its handles anew.                                                        *)
(***************************************************************************)
EXTENDS AdsSubscriptions, SequenceTheorems, TLAPS

\* What a call of Unsubscribe and an addSubscription know.
CallsKnow ==
  /\ \A u \in Unsubs : unsub[u].at # "new" =>
       unsub[u].sub \in Subs /\ pc[unsub[u].sub] \in {"active", "gone"}
  /\ \A s \in Subs : pc[s] \in {"added", "active", "gone"} => handle[s] \in Handles

\* Packets that say that h is the handle of s.
Names(p, s, h) == p.kind \in {"added", "sample"} /\ p.sub = s /\ p.handle = h

\* Who may think that h is the handle of s.
Claims(s, h) ==
  \/ device[h] = s
  \/ handle[s] = h
  \/ \E k \in 1 .. Len(wire) : Names(wire[k], s, h)

OneOwner ==
  /\ \A h \in Handles, s \in Subs : Claims(s, h) => h \in used
  /\ \A h \in Handles, s, t \in Subs : Claims(s, h) /\ Claims(t, h) => s = t

OwnSamples ==
  /\ \A cb \in callbacks : cb.sample.from = cb.sub
  /\ RightCallback

MapInv == TypeOK /\ CallsKnow /\ NothingLeftBehind
OwnerInv == OneOwner /\ OwnSamples /\ ActiveIsMapped

-----------------------------------------------------------------------------
(* Sequences of packets.                                                    *)

LEMMA HeadAndTail ==
  ASSUME wire \in Seq(Packets), wire # <<>>
  PROVE  /\ Head(wire) = wire[1] /\ Head(wire) \in Packets /\ Tail(wire) \in Seq(Packets)
         /\ Len(Tail(wire)) = Len(wire) - 1 /\ 1 \in 1 .. Len(wire)
         /\ \A k \in 1 .. Len(Tail(wire)) : k + 1 \in 1 .. Len(wire) /\ Tail(wire)[k] = wire[k + 1]
  OBVIOUS

LEMMA AtIsSet ==
  ASSUME TypeOK, NEW u \in Unsubs, NEW a \in {"new", "deleting", "deleted", "done"}
  PROVE  [unsub EXCEPT ![u].at = a]
           \in [Unsubs -> [sub : Subs \union {NoSub}, byAll : BOOLEAN,
                           at : {"new", "deleting", "deleted", "done"}]]
  <1> DEFINE Unsub == [sub : Subs \union {NoSub}, byAll : BOOLEAN,
                       at : {"new", "deleting", "deleted", "done"}]
             new == [unsub[u] EXCEPT !.at = a]
  <1>1. unsub \in [Unsubs -> Unsub]  BY DEF TypeOK
  <1>2. unsub[u] \in Unsub  BY <1>1
  <1>3. new \in Unsub  BY <1>2
  <1>4. [unsub EXCEPT ![u].at = a] = [unsub EXCEPT ![u] = new]  OBVIOUS
  <1>5. [unsub EXCEPT ![u] = new] \in [Unsubs -> Unsub]
    <2> HIDE DEF Unsub, new
    <2> QED  BY <1>1, <1>3
  <1> QED  BY <1>4, <1>5

LEMMA AddedHead ==
  ASSUME Head(wire) \in Packets, Head(wire).kind = "added"
  PROVE  Head(wire).sub \in Subs /\ Head(wire).handle \in Handles
  BY DEF Packets

LEMMA DeletedHead ==
  ASSUME Head(wire) \in Packets, Head(wire).kind = "deleted"
  PROVE  Head(wire).call \in Unsubs
  BY DEF Packets

LEMMA SampleHead ==
  ASSUME Head(wire) \in Packets, Head(wire).kind = "sample"
  PROVE  /\ Head(wire).sub \in Subs /\ Head(wire).handle \in Handles
         /\ Head(wire).n \in 1 .. MaxSamples
  BY DEF Packets

LEMMA SubscribeKeepsMap ==
  ASSUME MapInv, NEW s \in Subs, Subscribe(s)
  PROVE  MapInv'
  <1> USE DEF Subscribe, clientVars, callbackVars, deviceVars
  <1>1. [kind |-> "add", sub |-> s] \in Requests
    BY DEF Requests
  <1>2. TypeOK'
    BY <1>1 DEF MapInv, TypeOK
  <1>3. CallsKnow'
    BY <1>1 DEF MapInv, CallsKnow, TypeOK
  <1>4. NothingLeftBehind'
    BY <1>1 DEF MapInv, CallsKnow, NothingLeftBehind, TypeOK
  <1> QED
    BY <1>2, <1>3, <1>4 DEF MapInv

LEMMA SubscribeFailsKeepsMap ==
  ASSUME MapInv, NEW s \in Subs, SubscribeFails(s)
  PROVE  MapInv'
  <1> USE DEF SubscribeFails, clientVars, callbackVars, deviceVars
  <1>1. TypeOK'
    BY DEF MapInv, TypeOK
  <1>2. CallsKnow'
    BY DEF MapInv, CallsKnow, TypeOK
  <1>3. NothingLeftBehind'
    BY DEF MapInv, CallsKnow, NothingLeftBehind, TypeOK
  <1> QED
    BY <1>1, <1>2, <1>3 DEF MapInv

LEMMA StoreKeepsMap ==
  ASSUME MapInv, NEW s \in Subs, Store(s)
  PROVE  MapInv'
  <1> USE DEF Store, clientVars, callbackVars, deviceVars
  <1>1. TypeOK'
    BY DEF MapInv, TypeOK
  <1>2. CallsKnow'
    BY DEF MapInv, CallsKnow, TypeOK
  <1>3. NothingLeftBehind'
    BY DEF MapInv, CallsKnow, NothingLeftBehind, TypeOK
  <1> QED
    BY <1>1, <1>2, <1>3 DEF MapInv

LEMMA UnsubscribeKeepsMap ==
  ASSUME MapInv, NEW u \in Unsubs, NEW s \in Subs, Unsubscribe(u, s)
  PROVE  MapInv'
  <1> USE DEF Unsubscribe, BeginUnsubscribe, clientVars, callbackVars, deviceVars
  <1>1. handle[s] \in Handles
    BY DEF MapInv, CallsKnow
  <1>2. [sub |-> s, at |-> "deleting", byAll |-> FALSE]
           \in [sub : Subs \union {NoSub}, byAll : BOOLEAN,
                at : {"new", "deleting", "deleted", "done"}]
    OBVIOUS
  <1>3. [kind |-> "delete", call |-> u, handle |-> handle[s]] \in Requests
    BY <1>1 DEF Requests
  <1>4. TypeOK'
    BY <1>1, <1>2, <1>3 DEF MapInv, TypeOK
  <1>5. CallsKnow'
    BY <1>1, <1>2, <1>3 DEF MapInv, CallsKnow, TypeOK
  <1>6. NothingLeftBehind'
    BY <1>1, <1>2, <1>3 DEF MapInv, CallsKnow, NothingLeftBehind, TypeOK
  <1> QED
    BY <1>4, <1>5, <1>6 DEF MapInv

LEMMA UnsubscribeFailsKeepsMap ==
  ASSUME MapInv, NEW u \in Unsubs, UnsubscribeFails(u)
  PROVE  MapInv'
  <1> USE DEF UnsubscribeFails, clientVars, callbackVars, deviceVars
  <1>1. TypeOK'
    <2>1. unsub[u] \in [sub : Subs \union {NoSub}, byAll : BOOLEAN,
                        at : {"new", "deleting", "deleted", "done"}]
      BY DEF MapInv, TypeOK
    <2>2. [unsub[u] EXCEPT !.at = "done"]
             \in [sub : Subs \union {NoSub}, byAll : BOOLEAN,
                  at : {"new", "deleting", "deleted", "done"}]
      BY <2>1
    <2>3. unsub' = [unsub EXCEPT ![u] = [unsub[u] EXCEPT !.at = "done"]]
      OBVIOUS
    <2>4. unsub' \in [Unsubs -> [sub : Subs \union {NoSub}, byAll : BOOLEAN,
                                at : {"new", "deleting", "deleted", "done"}]]
      BY <2>2, <2>3 DEF MapInv, TypeOK
    <2> QED BY <2>4 DEF MapInv, TypeOK
  <1>2. CallsKnow'
    BY DEF MapInv, CallsKnow, TypeOK
  <1>3. NothingLeftBehind'
    BY DEF MapInv, CallsKnow, NothingLeftBehind, TypeOK
  <1> QED
    BY <1>1, <1>2, <1>3 DEF MapInv

LEMMA RemoveEntryKeepsMap ==
  ASSUME MapInv, NEW u \in Unsubs, RemoveEntry(u)
  PROVE  MapInv'
  <1> USE DEF RemoveEntry, clientVars, callbackVars, deviceVars
  <1>1. unsub[u].sub \in Subs /\ handle[unsub[u].sub] \in Handles
    BY DEF MapInv, CallsKnow
  <1>2. TypeOK'
    <2>1. unsub[u] \in [sub : Subs \union {NoSub}, byAll : BOOLEAN,
                        at : {"new", "deleting", "deleted", "done"}]
      BY DEF MapInv, TypeOK
    <2>2. [unsub[u] EXCEPT !.at = "done"]
             \in [sub : Subs \union {NoSub}, byAll : BOOLEAN,
                  at : {"new", "deleting", "deleted", "done"}]
      BY <2>1
    <2>3. unsub' = [unsub EXCEPT ![u] = [unsub[u] EXCEPT !.at = "done"]]
      OBVIOUS
    <2>4. unsub' \in [Unsubs -> [sub : Subs \union {NoSub}, byAll : BOOLEAN,
                                at : {"new", "deleting", "deleted", "done"}]]
      BY <2>2, <2>3 DEF MapInv, TypeOK
    <2> QED BY <1>1, <2>4 DEF MapInv, TypeOK
  <1>3. CallsKnow'
    BY <1>1 DEF MapInv, CallsKnow, TypeOK
  <1>4. NothingLeftBehind'
    <2>1. SUFFICES ASSUME NEW t \in Subs, NEW h \in Handles, subscriptions'[h] = t
                   PROVE  pc'[t] = "active" /\ handle'[t] = h
      BY DEF NothingLeftBehind
    <2>2. h # handle[unsub[u].sub] /\ subscriptions[h] = t
      BY <1>1, <2>1, SubscriptionAssumption DEF MapInv, TypeOK
    <2>3. t # unsub[u].sub
      BY <1>1, <2>2 DEF MapInv, NothingLeftBehind
    <2> QED
      BY <1>1, <2>2, <2>3 DEF MapInv, NothingLeftBehind, TypeOK
  <1> QED
    BY <1>2, <1>3, <1>4 DEF MapInv

LEMMA UnsubscribeAllKeepsMap ==
  ASSUME MapInv, UnsubscribeAll
  PROVE  MapInv'
  <1> USE DEF UnsubscribeAll, clientVars, callbackVars, deviceVars
  <1>1. [on |-> TRUE, left |-> {subscriptions[h] : h \in Handles} \ {NoSub}]
           \in [on : BOOLEAN, left : SUBSET Subs]
    BY DEF MapInv, TypeOK
  <1>2. TypeOK'
    BY <1>1 DEF MapInv, TypeOK
  <1>3. CallsKnow'
    BY <1>1 DEF MapInv, CallsKnow, TypeOK
  <1>4. NothingLeftBehind'
    BY <1>1 DEF MapInv, CallsKnow, NothingLeftBehind, TypeOK
  <1> QED
    BY <1>2, <1>3, <1>4 DEF MapInv

LEMMA UnsubscribeNextKeepsMap ==
  ASSUME MapInv, NEW u \in Unsubs, NEW s \in Subs, UnsubscribeNext(u, s)
  PROVE  MapInv'
  <1> USE DEF UnsubscribeNext, BeginUnsubscribe, clientVars, callbackVars, deviceVars
  <1>1. handle[s] \in Handles
    BY DEF MapInv, CallsKnow
  <1>2. [all EXCEPT !.left = @ \ {s}] \in [on : BOOLEAN, left : SUBSET Subs]
    BY DEF MapInv, TypeOK
  <1>3. [sub |-> s, at |-> "deleting", byAll |-> TRUE]
           \in [sub : Subs \union {NoSub}, byAll : BOOLEAN,
                at : {"new", "deleting", "deleted", "done"}]
    OBVIOUS
  <1>4. [kind |-> "delete", call |-> u, handle |-> handle[s]] \in Requests
    BY <1>1 DEF Requests
  <1>5. TypeOK'
    BY <1>1, <1>2, <1>3, <1>4 DEF MapInv, TypeOK
  <1>6. CallsKnow'
    BY <1>1, <1>2, <1>3, <1>4 DEF MapInv, CallsKnow, TypeOK
  <1>7. NothingLeftBehind'
    BY <1>1, <1>2, <1>3, <1>4 DEF MapInv, CallsKnow, NothingLeftBehind, TypeOK
  <1> QED
    BY <1>5, <1>6, <1>7 DEF MapInv

LEMMA UnsubscribedAllKeepsMap ==
  ASSUME MapInv, UnsubscribedAll
  PROVE  MapInv'
  <1> USE DEF UnsubscribedAll, NotUnsubscribingAll, clientVars, callbackVars, deviceVars
  <1>1. TypeOK'
    BY DEF MapInv, TypeOK
  <1>2. CallsKnow'
    BY DEF MapInv, CallsKnow, TypeOK
  <1>3. NothingLeftBehind'
    BY DEF MapInv, CallsKnow, NothingLeftBehind, TypeOK
  <1> QED
    BY <1>1, <1>2, <1>3 DEF MapInv

LEMMA DeviceAddsKeepsMap ==
  ASSUME MapInv, NEW s \in Subs, NEW h \in Handles, DeviceAdds(s, h)
  PROVE  MapInv'
  <1> USE DEF DeviceAdds, clientVars, callbackVars, deviceVars
  <1>1. [kind |-> "added", sub |-> s, handle |-> h] \in Packets
    BY DEF Packets
  <1>2. wire' \in Seq(Packets)
    BY <1>1, AppendProperties DEF MapInv, TypeOK
  <1>3. TypeOK'
    BY <1>1, <1>2 DEF MapInv, TypeOK
  <1>4. CallsKnow'
    BY <1>1, <1>2 DEF MapInv, CallsKnow, TypeOK
  <1>5. NothingLeftBehind'
    BY <1>1, <1>2 DEF MapInv, CallsKnow, NothingLeftBehind, TypeOK
  <1> QED
    BY <1>3, <1>4, <1>5 DEF MapInv

LEMMA DeviceSamplesKeepsMap ==
  ASSUME MapInv, NEW h \in Handles, DeviceSamples(h)
  PROVE  MapInv'
  <1> USE DEF DeviceSamples, clientVars, callbackVars, deviceVars
  <1>1. device[h] \in Subs /\ sent[device[h]] + 1 \in 1 .. MaxSamples
    BY SubscriptionAssumption DEF MapInv, TypeOK
  <1>2. [kind |-> "sample", sub |-> device[h], handle |-> h, n |-> sent[device[h]] + 1] \in Packets
    BY <1>1 DEF Packets
  <1>3. wire' \in Seq(Packets)
    BY <1>2, AppendProperties DEF MapInv, TypeOK
  <1>4. TypeOK'
    BY <1>1, <1>2, <1>3 DEF MapInv, TypeOK
  <1>5. CallsKnow'
    BY <1>1, <1>2, <1>3 DEF MapInv, CallsKnow, TypeOK
  <1>6. NothingLeftBehind'
    BY <1>1, <1>2, <1>3 DEF MapInv, CallsKnow, NothingLeftBehind, TypeOK
  <1> QED
    BY <1>4, <1>5, <1>6 DEF MapInv

LEMMA DeviceDeletesKeepsMap ==
  ASSUME MapInv, NEW r \in requests, DeviceDeletes(r)
  PROVE  MapInv'
  <1> USE DEF DeviceDeletes, clientVars, callbackVars, deviceVars
  <1>1. r.call \in Unsubs /\ r.handle \in Handles
    BY DEF MapInv, TypeOK, Requests
  <1>2. [kind |-> "deleted", call |-> r.call] \in Packets
    BY <1>1 DEF Packets
  <1>3. wire' \in Seq(Packets)
    BY <1>2, AppendProperties DEF MapInv, TypeOK
  <1>4. TypeOK'
    BY <1>1, <1>2, <1>3 DEF MapInv, TypeOK
  <1>5. CallsKnow'
    BY <1>1, <1>2, <1>3 DEF MapInv, CallsKnow, TypeOK
  <1>6. NothingLeftBehind'
    BY <1>1, <1>2, <1>3 DEF MapInv, CallsKnow, NothingLeftBehind, TypeOK
  <1> QED
    BY <1>4, <1>5, <1>6 DEF MapInv

LEMMA RestartKeepsMap ==
  ASSUME MapInv, Restart
  PROVE  MapInv'
  <1> USE DEF Restart, clientVars, callbackVars, deviceVars
  <1>1. <<>> \in Seq(Packets) /\ epoch + 1 \in 0 .. MaxEpoch
    BY SubscriptionAssumption DEF MapInv, TypeOK
  <1>2. TypeOK'
    BY <1>1 DEF MapInv, TypeOK
  <1>3. CallsKnow'
    BY <1>1 DEF MapInv, CallsKnow, TypeOK
  <1>4. NothingLeftBehind'
    BY <1>1 DEF MapInv, CallsKnow, NothingLeftBehind, TypeOK
  <1> QED
    BY <1>2, <1>3, <1>4 DEF MapInv

LEMMA TakeAddedKeepsMap ==
  ASSUME MapInv, TakeAdded
  PROVE  MapInv'
  <1> USE DEF TakeAdded, clientVars, callbackVars, deviceVars
  <1>1. Head(wire).sub \in Subs /\ Head(wire).handle \in Handles /\ Tail(wire) \in Seq(Packets)
    BY HeadAndTail, AddedHead DEF MapInv, TypeOK
  <1>2. /\ pc' \in [Subs -> {"new", "adding", "added", "active", "failed", "gone"}]
        /\ handle' \in [Subs -> {0} \union Handles]
    <2>1. CASE pc[Head(wire).sub] = "adding"
      BY <1>1, <2>1 DEF MapInv, TypeOK
    <2>2. CASE pc[Head(wire).sub] # "adding"
      BY <1>1, <2>2 DEF MapInv, TypeOK
    <2> QED
      BY <2>1, <2>2
  <1>3. \A s \in Subs :
          \/ pc'[s] = pc[s] /\ handle'[s] = handle[s]
          \/ pc[s] = "adding" /\ pc'[s] = "added" /\ handle'[s] \in Handles
    <2>1. CASE pc[Head(wire).sub] = "adding"
      BY <1>1, <2>1 DEF MapInv, TypeOK
    <2>2. CASE pc[Head(wire).sub] # "adding"
      BY <1>1, <2>2 DEF MapInv, TypeOK
    <2> QED
      BY <2>1, <2>2
  <1>4. TypeOK'
    BY <1>1, <1>2, <1>3 DEF MapInv, TypeOK
  <1>5. CallsKnow'
    BY <1>1, <1>2, <1>3 DEF MapInv, CallsKnow, TypeOK
  <1>6. NothingLeftBehind'
    BY <1>1, <1>2, <1>3 DEF MapInv, CallsKnow, NothingLeftBehind, TypeOK
  <1> QED
    BY <1>4, <1>5, <1>6 DEF MapInv

LEMMA TakeDeletedKeepsMap ==
  ASSUME MapInv, TakeDeleted
  PROVE  MapInv'
  <1> USE DEF TakeDeleted, clientVars, callbackVars, deviceVars
  <1>1. Head(wire).call \in Unsubs /\ Tail(wire) \in Seq(Packets)
    BY HeadAndTail, DeletedHead DEF MapInv, TypeOK
  <1>2. unsub' \in [Unsubs -> [sub : Subs \union {NoSub}, byAll : BOOLEAN,
                              at : {"new", "deleting", "deleted", "done"}]]
    <2>1. CASE unsub[Head(wire).call].at = "deleting"
      <3>1. unsub' = [unsub EXCEPT ![Head(wire).call].at = "deleted"]
        BY <2>1
      <3> HIDE DEF TakeDeleted
      <3>2. TypeOK /\ "deleted" \in {"new", "deleting", "deleted", "done"}
        BY DEF MapInv
      <3> QED
        BY <1>1, <3>1, <3>2, AtIsSet
    <2>2. CASE unsub[Head(wire).call].at # "deleting"
      BY <1>1, <2>2 DEF MapInv, TypeOK
    <2> QED
      BY <2>1, <2>2
  <1>3. \A u \in Unsubs : unsub'[u].sub = unsub[u].sub /\ (unsub'[u].at = "new" <=> unsub[u].at = "new")
    <2>1. CASE unsub[Head(wire).call].at = "deleting"
      BY <1>1, <2>1 DEF MapInv, TypeOK
    <2>2. CASE unsub[Head(wire).call].at # "deleting"
      BY <1>1, <2>2 DEF MapInv, TypeOK
    <2> QED
      BY <2>1, <2>2
  <1>4. TypeOK'
    BY <1>1, <1>2, <1>3 DEF MapInv, TypeOK
  <1>5. CallsKnow'
    BY <1>1, <1>2, <1>3 DEF MapInv, CallsKnow, TypeOK
  <1>6. NothingLeftBehind'
    BY <1>1, <1>2, <1>3 DEF MapInv, CallsKnow, NothingLeftBehind, TypeOK
  <1> QED
    BY <1>4, <1>5, <1>6 DEF MapInv

LEMMA RouteSampleKeepsMap ==
  ASSUME MapInv, RouteSample
  PROVE  MapInv'
  <1> USE DEF RouteSample, clientVars, callbackVars, deviceVars
  <1>1. Head(wire).sub \in Subs /\ Head(wire).handle \in Handles
          /\ Head(wire).n \in 1 .. MaxSamples /\ Tail(wire) \in Seq(Packets)
    BY HeadAndTail, SampleHead DEF MapInv, TypeOK
  <1>2. subscriptions[Head(wire).handle] \in Subs
    BY <1>1 DEF MapInv, TypeOK
  <1>3. [from |-> Head(wire).sub, n |-> Head(wire).n] \in Samples
    BY <1>1 DEF Samples
  <1>4. [sub |-> subscriptions[Head(wire).handle],
           sample |-> [from |-> Head(wire).sub, n |-> Head(wire).n]] \in [sub : Subs, sample : Samples]
    BY <1>2, <1>3
  <1>5. TypeOK'
    BY <1>1, <1>2, <1>3, <1>4 DEF MapInv, TypeOK
  <1>6. CallsKnow'
    BY <1>1, <1>2, <1>3, <1>4 DEF MapInv, CallsKnow, TypeOK
  <1>7. NothingLeftBehind'
    BY <1>1, <1>2, <1>3, <1>4 DEF MapInv, CallsKnow, NothingLeftBehind, TypeOK
  <1> QED
    BY <1>5, <1>6, <1>7 DEF MapInv

LEMMA DropSampleKeepsMap ==
  ASSUME MapInv, DropSample
  PROVE  MapInv'
  <1> USE DEF DropSample, clientVars, callbackVars, deviceVars
  <1>1. Tail(wire) \in Seq(Packets)
    BY HeadAndTail DEF MapInv, TypeOK
  <1>2. TypeOK'
    BY <1>1 DEF MapInv, TypeOK
  <1>3. CallsKnow'
    BY <1>1 DEF MapInv, CallsKnow, TypeOK
  <1>4. NothingLeftBehind'
    BY <1>1 DEF MapInv, CallsKnow, NothingLeftBehind, TypeOK
  <1> QED
    BY <1>2, <1>3, <1>4 DEF MapInv

LEMMA RunCallbackKeepsMap ==
  ASSUME MapInv, NEW cb \in callbacks, RunCallback(cb)
  PROVE  MapInv'
  <1> USE DEF RunCallback, clientVars, callbackVars, deviceVars
  <1>1. cb.sub \in Subs /\ cb.sample \in Samples
    BY DEF MapInv, TypeOK
  <1>2. TypeOK'
    BY <1>1 DEF MapInv, TypeOK
  <1>3. CallsKnow'
    BY <1>1 DEF MapInv, CallsKnow, TypeOK
  <1>4. NothingLeftBehind'
    BY <1>1 DEF MapInv, CallsKnow, NothingLeftBehind, TypeOK
  <1> QED
    BY <1>2, <1>3, <1>4 DEF MapInv

LEMMA ReceiverBlocksKeepsMap ==
  ASSUME MapInv, ReceiverBlocks
  PROVE  MapInv'
  <1> USE DEF ReceiverBlocks, clientVars, callbackVars, deviceVars
  <1>1. TypeOK'
    BY DEF MapInv, TypeOK
  <1>2. CallsKnow'
    BY DEF MapInv, CallsKnow, TypeOK
  <1>3. NothingLeftBehind'
    BY DEF MapInv, CallsKnow, NothingLeftBehind, TypeOK
  <1> QED
    BY <1>1, <1>2, <1>3 DEF MapInv

LEMMA StutterKeepsMap ==
  ASSUME MapInv, UNCHANGED vars
  PROVE  MapInv'
  BY DEF MapInv, TypeOK, CallsKnow, NothingLeftBehind, vars

LEMMA InitIsMap ==
  ASSUME Init
  PROVE  MapInv
  <1>1. [sub |-> NoSub, at |-> "new", byAll |-> FALSE]
          \in [sub : Subs \union {NoSub}, byAll : BOOLEAN,
               at : {"new", "deleting", "deleted", "done"}]
    OBVIOUS
  <1>2. TypeOK
    <2>1. /\ unsub \in [Unsubs -> [sub : Subs \union {NoSub}, byAll : BOOLEAN,
                                   at : {"new", "deleting", "deleted", "done"}]]
          /\ all \in [on : BOOLEAN, left : SUBSET Subs]
      BY <1>1 DEF Init, NotMade, NotUnsubscribingAll
    <2>2. wire \in Seq(Packets)
      BY DEF Init
    <2>3. /\ pc \in [Subs -> {"new", "adding", "added", "active", "failed", "gone"}]
          /\ handle \in [Subs -> {0} \union Handles]
          /\ subscriptions \in [Handles -> Subs \union {NoSub}]
          /\ device \in [Handles -> Subs \union {NoSub}]
          /\ seen \in [Subs -> SUBSET Samples]
      BY DEF Init
    <2>4. /\ callbacks \subseteq [sub : Subs, sample : Samples]
          /\ requests \subseteq Requests /\ used \subseteq Handles /\ blocked \in BOOLEAN
      BY DEF Init
    <2>5. sent \in [Subs -> 0 .. MaxSamples] /\ epoch \in 0 .. MaxEpoch
      BY SubscriptionAssumption DEF Init
    <2> QED
      BY <2>1, <2>2, <2>3, <2>4, <2>5 DEF TypeOK
  <1>3. CallsKnow /\ NothingLeftBehind
    BY SubscriptionAssumption DEF Init, CallsKnow, NothingLeftBehind, NotMade
  <1> QED
    BY <1>2, <1>3 DEF MapInv

LEMMA MapStep ==
  ASSUME MapInv, [Next]_vars
  PROVE  MapInv'
  <1>1. ASSUME NEW s \in Subs, Subscribe(s) PROVE MapInv'
    BY <1>1, SubscribeKeepsMap
  <1>2. ASSUME NEW s \in Subs, SubscribeFails(s) PROVE MapInv'
    BY <1>2, SubscribeFailsKeepsMap
  <1>3. ASSUME NEW s \in Subs, Store(s) PROVE MapInv'
    BY <1>3, StoreKeepsMap
  <1>4. ASSUME NEW u \in Unsubs, NEW s \in Subs, Unsubscribe(u, s) PROVE MapInv'
    BY <1>4, UnsubscribeKeepsMap
  <1>5. ASSUME NEW u \in Unsubs, NEW s \in Subs, UnsubscribeNext(u, s) PROVE MapInv'
    BY <1>5, UnsubscribeNextKeepsMap
  <1>6. ASSUME NEW u \in Unsubs, UnsubscribeFails(u) PROVE MapInv'
    BY <1>6, UnsubscribeFailsKeepsMap
  <1>7. ASSUME NEW u \in Unsubs, RemoveEntry(u) PROVE MapInv'
    BY <1>7, RemoveEntryKeepsMap
  <1>8. CASE UnsubscribeAll
    BY <1>8, UnsubscribeAllKeepsMap
  <1>9. CASE UnsubscribedAll
    BY <1>9, UnsubscribedAllKeepsMap
  <1>10. ASSUME NEW s \in Subs, NEW h \in Handles, DeviceAdds(s, h) PROVE MapInv'
    BY <1>10, DeviceAddsKeepsMap
  <1>11. ASSUME NEW h \in Handles, DeviceSamples(h) PROVE MapInv'
    BY <1>11, DeviceSamplesKeepsMap
  <1>12. ASSUME NEW r \in requests, DeviceDeletes(r) PROVE MapInv'
    BY <1>12, DeviceDeletesKeepsMap
  <1>13. CASE Restart
    BY <1>13, RestartKeepsMap
  <1>14. CASE TakeAdded
    BY <1>14, TakeAddedKeepsMap
  <1>15. CASE TakeDeleted
    BY <1>15, TakeDeletedKeepsMap
  <1>16. CASE RouteSample
    BY <1>16, RouteSampleKeepsMap
  <1>17. CASE DropSample
    BY <1>17, DropSampleKeepsMap
  <1>18. ASSUME NEW cb \in callbacks, RunCallback(cb) PROVE MapInv'
    BY <1>18, RunCallbackKeepsMap
  <1>19. CASE ReceiverBlocks
    BY <1>19, ReceiverBlocksKeepsMap
  <1>20. CASE UNCHANGED vars
    BY <1>20, StutterKeepsMap
  <1> QED
    BY <1>1, <1>2, <1>3, <1>4, <1>5, <1>6, <1>7, <1>8, <1>9, <1>10,
       <1>11, <1>12, <1>13, <1>14, <1>15, <1>16, <1>17, <1>18, <1>19, <1>20
       DEF Next, AppStep, Receive

\* What the map, the calls and the device know of each other, across restarts
\* and whether or not the device numbers its handles anew.
THEOREM MapInvariance == SafeSpec => []MapInv
  BY InitIsMap, MapStep, PTL DEF SafeSpec

\* The types of the state (client.go:25-57, client_subscriptions_types.go).
THEOREM TypeCorrect == SafeSpec => []TypeOK
  BY MapInvariance, PTL DEF MapInv

\* No entry of Client.subscriptions outlives its subscription, whatever Subscribe,
\* Unsubscribe, UnsubscribeAll and restarts interleave.
THEOREM MapIsOfTheActive == SafeSpec => []NothingLeftBehind
  BY MapInvariance, PTL DEF MapInv

-----------------------------------------------------------------------------
(* One owner of each handle, while the device gives out each handle once.    *)

LEMMA OwnersFromClaims ==
  ASSUME OneOwner, used \subseteq used',
         \A s \in Subs, h \in Handles : Claims(s, h)' => Claims(s, h)
  PROVE  OneOwner'
  BY DEF OneOwner

LEMMA SubscribeKeepsOwner ==
  ASSUME MapInv, OwnerInv, ~HandlesAnew, NEW s \in Subs, Subscribe(s)
  PROVE  OwnerInv'
  <1> USE DEF Subscribe, clientVars, callbackVars, deviceVars
  <1>1. OneOwner'
    BY DEF OwnerInv, OneOwner, Claims, Names
  <1>2. OwnSamples'
    BY DEF OwnerInv, OwnSamples, RightCallback
  <1>3. ActiveIsMapped'
    BY DEF OwnerInv, ActiveIsMapped, MapInv, TypeOK
  <1> QED
    BY <1>1, <1>2, <1>3 DEF OwnerInv

LEMMA SubscribeFailsKeepsOwner ==
  ASSUME MapInv, OwnerInv, ~HandlesAnew, NEW s \in Subs, SubscribeFails(s)
  PROVE  OwnerInv'
  <1> USE DEF SubscribeFails, clientVars, callbackVars, deviceVars
  <1>1. OneOwner'
    BY DEF OwnerInv, OneOwner, Claims, Names
  <1>2. OwnSamples'
    BY DEF OwnerInv, OwnSamples, RightCallback
  <1>3. ActiveIsMapped'
    BY DEF OwnerInv, ActiveIsMapped, MapInv, TypeOK
  <1> QED
    BY <1>1, <1>2, <1>3 DEF OwnerInv

LEMMA StoreKeepsOwner ==
  ASSUME MapInv, OwnerInv, ~HandlesAnew, NEW s \in Subs, Store(s)
  PROVE  OwnerInv'
  <1> USE DEF Store, clientVars, callbackVars, deviceVars
  <1>1. OneOwner'
    BY DEF OwnerInv, OneOwner, Claims, Names
  <1>2. OwnSamples'
    BY DEF OwnerInv, OwnSamples, RightCallback
  <1>3. ActiveIsMapped'
    <2>1. s \in Subs /\ handle[s] \in Handles
      BY DEF MapInv, CallsKnow
    <2>2. \A t \in Subs : pc[t] = "active" /\ t # s => handle[t] \in Handles /\ handle[t] # handle[s]
      BY <2>1 DEF MapInv, CallsKnow, OwnerInv, OneOwner, Claims
    <2> QED
      BY <2>1, <2>2 DEF OwnerInv, ActiveIsMapped, MapInv, TypeOK
  <1> QED
    BY <1>1, <1>2, <1>3 DEF OwnerInv

LEMMA UnsubscribeKeepsOwner ==
  ASSUME MapInv, OwnerInv, ~HandlesAnew, NEW u \in Unsubs, NEW s \in Subs, Unsubscribe(u, s)
  PROVE  OwnerInv'
  <1> USE DEF Unsubscribe, BeginUnsubscribe, clientVars, callbackVars, deviceVars
  <1>1. OneOwner'
    BY DEF OwnerInv, OneOwner, Claims, Names
  <1>2. OwnSamples'
    BY DEF OwnerInv, OwnSamples, RightCallback
  <1>3. ActiveIsMapped'
    BY DEF OwnerInv, ActiveIsMapped
  <1> QED
    BY <1>1, <1>2, <1>3 DEF OwnerInv

LEMMA UnsubscribeFailsKeepsOwner ==
  ASSUME MapInv, OwnerInv, ~HandlesAnew, NEW u \in Unsubs, UnsubscribeFails(u)
  PROVE  OwnerInv'
  <1> USE DEF UnsubscribeFails, clientVars, callbackVars, deviceVars
  <1>1. OneOwner'
    BY DEF OwnerInv, OneOwner, Claims, Names
  <1>2. OwnSamples'
    BY DEF OwnerInv, OwnSamples, RightCallback
  <1>3. ActiveIsMapped'
    BY DEF OwnerInv, ActiveIsMapped
  <1> QED
    BY <1>1, <1>2, <1>3 DEF OwnerInv

LEMMA RemoveEntryKeepsOwner ==
  ASSUME MapInv, OwnerInv, ~HandlesAnew, NEW u \in Unsubs, RemoveEntry(u)
  PROVE  OwnerInv'
  <1> USE DEF RemoveEntry, clientVars, callbackVars, deviceVars
  <1>1. OneOwner'
    BY DEF OwnerInv, OneOwner, Claims, Names
  <1>2. OwnSamples'
    BY DEF OwnerInv, OwnSamples, RightCallback
  <1>3. ActiveIsMapped'
    <2>1. unsub[u].sub \in Subs /\ handle[unsub[u].sub] \in Handles
      BY DEF MapInv, CallsKnow
    <2>2. \A t \in Subs : pc[t] = "active" /\ t # unsub[u].sub => handle[t] \in Handles /\ handle[t] # handle[unsub[u].sub]
      BY <2>1 DEF MapInv, CallsKnow, OwnerInv, OneOwner, Claims
    <2> QED
      BY <2>1, <2>2 DEF OwnerInv, ActiveIsMapped, MapInv, TypeOK
  <1> QED
    BY <1>1, <1>2, <1>3 DEF OwnerInv

LEMMA UnsubscribeAllKeepsOwner ==
  ASSUME MapInv, OwnerInv, ~HandlesAnew, UnsubscribeAll
  PROVE  OwnerInv'
  <1> USE DEF UnsubscribeAll, clientVars, callbackVars, deviceVars
  <1>1. OneOwner'
    BY DEF OwnerInv, OneOwner, Claims, Names
  <1>2. OwnSamples'
    BY DEF OwnerInv, OwnSamples, RightCallback
  <1>3. ActiveIsMapped'
    BY DEF OwnerInv, ActiveIsMapped
  <1> QED
    BY <1>1, <1>2, <1>3 DEF OwnerInv

LEMMA UnsubscribeNextKeepsOwner ==
  ASSUME MapInv, OwnerInv, ~HandlesAnew, NEW u \in Unsubs, NEW s \in Subs, UnsubscribeNext(u, s)
  PROVE  OwnerInv'
  <1> USE DEF UnsubscribeNext, BeginUnsubscribe, clientVars, callbackVars, deviceVars
  <1>1. OneOwner'
    BY DEF OwnerInv, OneOwner, Claims, Names
  <1>2. OwnSamples'
    BY DEF OwnerInv, OwnSamples, RightCallback
  <1>3. ActiveIsMapped'
    BY DEF OwnerInv, ActiveIsMapped
  <1> QED
    BY <1>1, <1>2, <1>3 DEF OwnerInv

LEMMA UnsubscribedAllKeepsOwner ==
  ASSUME MapInv, OwnerInv, ~HandlesAnew, UnsubscribedAll
  PROVE  OwnerInv'
  <1> USE DEF UnsubscribedAll, NotUnsubscribingAll, clientVars, callbackVars, deviceVars
  <1>1. OneOwner'
    BY DEF OwnerInv, OneOwner, Claims, Names
  <1>2. OwnSamples'
    BY DEF OwnerInv, OwnSamples, RightCallback
  <1>3. ActiveIsMapped'
    BY DEF OwnerInv, ActiveIsMapped
  <1> QED
    BY <1>1, <1>2, <1>3 DEF OwnerInv

LEMMA DeviceAddsKeepsOwner ==
  ASSUME MapInv, OwnerInv, ~HandlesAnew, NEW s \in Subs, NEW h \in Handles, DeviceAdds(s, h)
  PROVE  OwnerInv'
  <1> USE DEF DeviceAdds, clientVars, callbackVars, deviceVars
  <1>1. OneOwner'
    <2>1. \A t \in Subs : ~Claims(t, h)
      BY DEF OwnerInv, OneOwner
    <2>2. wire' = Append(wire, [kind |-> "added", sub |-> s, handle |-> h])
      OBVIOUS
    <2>3. \A k \in 1 .. Len(wire') : \/ k \in 1 .. Len(wire) /\ wire'[k] = wire[k]
                                     \/ wire'[k].sub = s /\ wire'[k].handle = h
      BY <2>2 DEF MapInv, TypeOK
    <2>4. \A t \in Subs, g \in Handles : device'[g] = t =>
                                               device[g] = t \/ (t = s /\ g = h)
      BY DEF MapInv, TypeOK
    <2>5. \A t \in Subs, g \in Handles : Claims(t, g)' =>
                                               Claims(t, g) \/ (t = s /\ g = h)
      BY <2>3, <2>4 DEF Claims, Names
    <2> QED
      BY <2>1, <2>5 DEF OwnerInv, OneOwner
  <1>2. OwnSamples'
    BY DEF OwnerInv, OwnSamples, RightCallback
  <1>3. ActiveIsMapped'
    BY DEF OwnerInv, ActiveIsMapped
  <1> QED
    BY <1>1, <1>2, <1>3 DEF OwnerInv

LEMMA DeviceSamplesKeepsOwner ==
  ASSUME MapInv, OwnerInv, ~HandlesAnew, NEW h \in Handles, DeviceSamples(h)
  PROVE  OwnerInv'
  <1> USE DEF DeviceSamples, clientVars, callbackVars, deviceVars
  <1>1. OneOwner'
    <2>1. \A t \in Subs, g \in Handles : Claims(t, g)' => Claims(t, g)
      <3>1. wire' = Append(wire, [kind |-> "sample", sub |-> device[h], handle |-> h,
                                  n |-> sent[device[h]] + 1])
        OBVIOUS
      <3>2. \A k \in 1 .. Len(wire') : \/ k \in 1 .. Len(wire) /\ wire'[k] = wire[k]
                                       \/ wire'[k].sub = device[h] /\ wire'[k].handle = h
        BY <3>1 DEF MapInv, TypeOK
      <3> QED
        BY <3>2 DEF Claims, Names
    <2> QED
      BY <2>1, OwnersFromClaims DEF OwnerInv
  <1>2. OwnSamples'
    BY DEF OwnerInv, OwnSamples, RightCallback
  <1>3. ActiveIsMapped'
    BY DEF OwnerInv, ActiveIsMapped
  <1> QED
    BY <1>1, <1>2, <1>3 DEF OwnerInv

LEMMA DeviceDeletesKeepsOwner ==
  ASSUME MapInv, OwnerInv, ~HandlesAnew, NEW r \in requests, DeviceDeletes(r)
  PROVE  OwnerInv'
  <1> USE DEF DeviceDeletes, clientVars, callbackVars, deviceVars
  <1>1. OneOwner'
    <2>1. \A t \in Subs, g \in Handles : Claims(t, g)' => Claims(t, g)
      <3>1. wire' = Append(wire, [kind |-> "deleted", call |-> r.call])
        OBVIOUS
      <3>2. \A k \in 1 .. Len(wire') : \/ k \in 1 .. Len(wire) /\ wire'[k] = wire[k]
                                       \/ wire'[k].kind = "deleted"
        BY <3>1 DEF MapInv, TypeOK
      <3>3. \A t \in Subs, h \in Handles : device'[h] = t => device[h] = t
        BY SubscriptionAssumption DEF MapInv, TypeOK
      <3> QED
        BY <3>2, <3>3 DEF Claims, Names
    <2> QED
      BY <2>1, OwnersFromClaims DEF OwnerInv
  <1>2. OwnSamples'
    BY DEF OwnerInv, OwnSamples, RightCallback
  <1>3. ActiveIsMapped'
    BY DEF OwnerInv, ActiveIsMapped
  <1> QED
    BY <1>1, <1>2, <1>3 DEF OwnerInv

LEMMA RestartKeepsOwner ==
  ASSUME MapInv, OwnerInv, ~HandlesAnew, Restart
  PROVE  OwnerInv'
  <1> USE DEF Restart, clientVars, callbackVars, deviceVars
  <1>1. OneOwner'
    <2>1. \A t \in Subs, g \in Handles : Claims(t, g)' => Claims(t, g)
      BY SubscriptionAssumption DEF Claims, MapInv, TypeOK
    <2> QED
      BY <2>1, OwnersFromClaims DEF OwnerInv
  <1>2. OwnSamples'
    BY DEF OwnerInv, OwnSamples, RightCallback
  <1>3. ActiveIsMapped'
    BY DEF OwnerInv, ActiveIsMapped
  <1> QED
    BY <1>1, <1>2, <1>3 DEF OwnerInv

LEMMA TakeAddedKeepsOwner ==
  ASSUME MapInv, OwnerInv, ~HandlesAnew, TakeAdded
  PROVE  OwnerInv'
  <1> USE DEF TakeAdded, clientVars, callbackVars, deviceVars
  <1>1. OneOwner'
    <2>1. \A t \in Subs, g \in Handles : Claims(t, g)' => Claims(t, g)
      <3>1. /\ wire \in Seq(Packets) /\ Head(wire) = wire[1] /\ 1 \in 1 .. Len(wire)
            /\ \A k \in 1 .. Len(wire') : k + 1 \in 1 .. Len(wire) /\ wire'[k] = wire[k + 1]
        BY HeadAndTail DEF MapInv, TypeOK
      <3>2. \A t \in Subs :
               handle'[t] = handle[t] \/ (t = Head(wire).sub /\ handle'[t] = Head(wire).handle)
        <4>1. CASE pc[Head(wire).sub] = "adding"
          BY <4>1 DEF MapInv, TypeOK
        <4>2. CASE pc[Head(wire).sub] # "adding"
          BY <4>2
        <4> QED
          BY <4>1, <4>2
      <3> QED
        BY <3>1, <3>2 DEF Claims, Names
    <2> QED
      BY <2>1, OwnersFromClaims DEF OwnerInv
  <1>2. OwnSamples'
    BY DEF OwnerInv, OwnSamples, RightCallback
  <1>3. ActiveIsMapped'
    <2>1. \A t \in Subs : pc'[t] = "active" => pc[t] = "active" /\ handle'[t] = handle[t]
      BY DEF MapInv, TypeOK
    <2> QED
      BY <2>1 DEF OwnerInv, ActiveIsMapped
  <1> QED
    BY <1>1, <1>2, <1>3 DEF OwnerInv

LEMMA TakeDeletedKeepsOwner ==
  ASSUME MapInv, OwnerInv, ~HandlesAnew, TakeDeleted
  PROVE  OwnerInv'
  <1> USE DEF TakeDeleted, clientVars, callbackVars, deviceVars
  <1>1. OneOwner'
    <2>1. \A t \in Subs, g \in Handles : Claims(t, g)' => Claims(t, g)
      <3>1. \A k \in 1 .. Len(wire') : k + 1 \in 1 .. Len(wire) /\ wire'[k] = wire[k + 1]
        BY HeadAndTail DEF MapInv, TypeOK
      <3> QED
        BY <3>1 DEF Claims, Names
    <2> QED
      BY <2>1, OwnersFromClaims DEF OwnerInv
  <1>2. OwnSamples'
    BY DEF OwnerInv, OwnSamples, RightCallback
  <1>3. ActiveIsMapped'
    BY DEF OwnerInv, ActiveIsMapped
  <1> QED
    BY <1>1, <1>2, <1>3 DEF OwnerInv

LEMMA RouteSampleKeepsOwner ==
  ASSUME MapInv, OwnerInv, ~HandlesAnew, RouteSample
  PROVE  OwnerInv'
  <1> USE DEF RouteSample, clientVars, callbackVars, deviceVars
  <1>1. OneOwner'
    <2>1. \A t \in Subs, g \in Handles : Claims(t, g)' => Claims(t, g)
      <3>1. \A k \in 1 .. Len(wire') : k + 1 \in 1 .. Len(wire) /\ wire'[k] = wire[k + 1]
        BY HeadAndTail DEF MapInv, TypeOK
      <3> QED
        BY <3>1 DEF Claims, Names
    <2> QED
      BY <2>1, OwnersFromClaims DEF OwnerInv
  <1>2. OwnSamples'
    <2>1. /\ Head(wire) = wire[1] /\ Head(wire) \in Packets /\ 1 \in 1 .. Len(wire)
          /\ Head(wire).sub \in Subs /\ Head(wire).handle \in Handles
      BY HeadAndTail, SampleHead DEF MapInv, TypeOK
    <2>2. subscriptions[Head(wire).handle] \in Subs
      BY <2>1 DEF MapInv, TypeOK
    <2>3. Claims(subscriptions[Head(wire).handle], Head(wire).handle)
      BY <2>1, <2>2 DEF MapInv, NothingLeftBehind, Claims
    <2>4. Claims(Head(wire).sub, Head(wire).handle)
      BY <2>1 DEF Claims, Names
    <2>5. Head(wire).sub = subscriptions[Head(wire).handle]
      BY <2>1, <2>2, <2>3, <2>4 DEF OwnerInv, OneOwner
    <2> QED
      BY <2>5 DEF OwnerInv, OwnSamples, RightCallback
  <1>3. ActiveIsMapped'
    BY DEF OwnerInv, ActiveIsMapped
  <1> QED
    BY <1>1, <1>2, <1>3 DEF OwnerInv

LEMMA DropSampleKeepsOwner ==
  ASSUME MapInv, OwnerInv, ~HandlesAnew, DropSample
  PROVE  OwnerInv'
  <1> USE DEF DropSample, clientVars, callbackVars, deviceVars
  <1>1. OneOwner'
    <2>1. \A t \in Subs, g \in Handles : Claims(t, g)' => Claims(t, g)
      <3>1. \A k \in 1 .. Len(wire') : k + 1 \in 1 .. Len(wire) /\ wire'[k] = wire[k + 1]
        BY HeadAndTail DEF MapInv, TypeOK
      <3> QED
        BY <3>1 DEF Claims, Names
    <2> QED
      BY <2>1, OwnersFromClaims DEF OwnerInv
  <1>2. OwnSamples'
    BY DEF OwnerInv, OwnSamples, RightCallback
  <1>3. ActiveIsMapped'
    BY DEF OwnerInv, ActiveIsMapped
  <1> QED
    BY <1>1, <1>2, <1>3 DEF OwnerInv

LEMMA RunCallbackKeepsOwner ==
  ASSUME MapInv, OwnerInv, ~HandlesAnew, NEW cb \in callbacks, RunCallback(cb)
  PROVE  OwnerInv'
  <1> USE DEF RunCallback, clientVars, callbackVars, deviceVars
  <1>1. OneOwner'
    BY DEF OwnerInv, OneOwner, Claims, Names
  <1>2. OwnSamples'
    BY DEF OwnerInv, OwnSamples, RightCallback, MapInv, TypeOK
  <1>3. ActiveIsMapped'
    BY DEF OwnerInv, ActiveIsMapped
  <1> QED
    BY <1>1, <1>2, <1>3 DEF OwnerInv

LEMMA ReceiverBlocksKeepsOwner ==
  ASSUME MapInv, OwnerInv, ~HandlesAnew, ReceiverBlocks
  PROVE  OwnerInv'
  <1> USE DEF ReceiverBlocks, clientVars, callbackVars, deviceVars
  <1>1. OneOwner'
    BY DEF OwnerInv, OneOwner, Claims, Names
  <1>2. OwnSamples'
    BY DEF OwnerInv, OwnSamples, RightCallback
  <1>3. ActiveIsMapped'
    BY DEF OwnerInv, ActiveIsMapped
  <1> QED
    BY <1>1, <1>2, <1>3 DEF OwnerInv

LEMMA StutterKeepsOwner ==
  ASSUME OwnerInv, UNCHANGED vars
  PROVE  OwnerInv'
  BY DEF OwnerInv, OneOwner, Claims, Names, OwnSamples, RightCallback, ActiveIsMapped, vars

LEMMA InitIsOwner ==
  ASSUME Init
  PROVE  OwnerInv
  <1>1. \A h \in Handles, s \in Subs : ~Claims(s, h)
    BY SubscriptionAssumption DEF Init, Claims, Handles
  <1>2. OneOwner
    BY <1>1 DEF OneOwner
  <1> QED
    BY <1>2 DEF Init, OwnerInv, OwnSamples, RightCallback, ActiveIsMapped

LEMMA OwnerStep ==
  ASSUME MapInv, OwnerInv, ~HandlesAnew, [Next]_vars
  PROVE  OwnerInv'
  <1>1. ASSUME NEW s \in Subs, Subscribe(s) PROVE OwnerInv'
    BY <1>1, SubscribeKeepsOwner
  <1>2. ASSUME NEW s \in Subs, SubscribeFails(s) PROVE OwnerInv'
    BY <1>2, SubscribeFailsKeepsOwner
  <1>3. ASSUME NEW s \in Subs, Store(s) PROVE OwnerInv'
    BY <1>3, StoreKeepsOwner
  <1>4. ASSUME NEW u \in Unsubs, NEW s \in Subs, Unsubscribe(u, s) PROVE OwnerInv'
    BY <1>4, UnsubscribeKeepsOwner
  <1>5. ASSUME NEW u \in Unsubs, NEW s \in Subs, UnsubscribeNext(u, s) PROVE OwnerInv'
    BY <1>5, UnsubscribeNextKeepsOwner
  <1>6. ASSUME NEW u \in Unsubs, UnsubscribeFails(u) PROVE OwnerInv'
    BY <1>6, UnsubscribeFailsKeepsOwner
  <1>7. ASSUME NEW u \in Unsubs, RemoveEntry(u) PROVE OwnerInv'
    BY <1>7, RemoveEntryKeepsOwner
  <1>8. CASE UnsubscribeAll
    BY <1>8, UnsubscribeAllKeepsOwner
  <1>9. CASE UnsubscribedAll
    BY <1>9, UnsubscribedAllKeepsOwner
  <1>10. ASSUME NEW s \in Subs, NEW h \in Handles, DeviceAdds(s, h) PROVE OwnerInv'
    BY <1>10, DeviceAddsKeepsOwner
  <1>11. ASSUME NEW h \in Handles, DeviceSamples(h) PROVE OwnerInv'
    BY <1>11, DeviceSamplesKeepsOwner
  <1>12. ASSUME NEW r \in requests, DeviceDeletes(r) PROVE OwnerInv'
    BY <1>12, DeviceDeletesKeepsOwner
  <1>13. CASE Restart
    BY <1>13, RestartKeepsOwner
  <1>14. CASE TakeAdded
    BY <1>14, TakeAddedKeepsOwner
  <1>15. CASE TakeDeleted
    BY <1>15, TakeDeletedKeepsOwner
  <1>16. CASE RouteSample
    BY <1>16, RouteSampleKeepsOwner
  <1>17. CASE DropSample
    BY <1>17, DropSampleKeepsOwner
  <1>18. ASSUME NEW cb \in callbacks, RunCallback(cb) PROVE OwnerInv'
    BY <1>18, RunCallbackKeepsOwner
  <1>19. CASE ReceiverBlocks
    BY <1>19, ReceiverBlocksKeepsOwner
  <1>20. CASE UNCHANGED vars
    BY <1>20, StutterKeepsOwner
  <1> QED
    BY <1>1, <1>2, <1>3, <1>4, <1>5, <1>6, <1>7, <1>8, <1>9, <1>10,
       <1>11, <1>12, <1>13, <1>14, <1>15, <1>16, <1>17, <1>18, <1>19, <1>20
       DEF Next, AppStep, Receive

\* While the device gives out each handle once, a handle has one owner, on the
\* device, in the client and on the wire.
THEOREM OwnerInvariance == ~HandlesAnew => (SafeSpec => []OwnerInv)
  <1> SUFFICES ASSUME ~HandlesAnew PROVE SafeSpec => []OwnerInv
    OBVIOUS
  <1>1. MapInv /\ OwnerInv /\ [Next]_vars => OwnerInv'
    BY OwnerStep
  <1> QED
    BY <1>1, InitIsOwner, MapInvariance, PTL DEF SafeSpec

\* A callback gets samples of its own subscription only.
THEOREM CallbacksAreRight == ~HandlesAnew => (SafeSpec => []RightCallback)
  <1> SUFFICES ASSUME ~HandlesAnew PROVE SafeSpec => []RightCallback
    OBVIOUS
  <1>1. OwnerInv => RightCallback
    BY DEF OwnerInv, OwnSamples
  <1> QED
    BY <1>1, OwnerInvariance, PTL

\* No Store or RemoveEntry takes the entry of another active subscription.
THEOREM ActiveAreMapped == ~HandlesAnew => (SafeSpec => []ActiveIsMapped)
  <1> SUFFICES ASSUME ~HandlesAnew PROVE SafeSpec => []ActiveIsMapped
    OBVIOUS
  <1>1. OwnerInv => ActiveIsMapped
    BY DEF OwnerInv
  <1> QED
    BY <1>1, OwnerInvariance, PTL

-----------------------------------------------------------------------------
(* What is over.  A subscription asks the device once and gets one handle, and  *)
(* the device's answer to DeleteNotification comes after its last sample.  None  *)
(* of this depends on how the device numbers its handles.                        *)

Add(s) == [kind |-> "add", sub |-> s]

OneHandle == \A s \in Subs : \A g, h \in Handles : Claims(s, g) /\ Claims(s, h) => g = h

AskedOnce == \A s \in Subs : Add(s) \in requests \/ pc[s] = "new" =>
  /\ Add(s) \in requests => pc[s] # "new"
  /\ \A h \in Handles : ~Claims(s, h)

\* The device watches nothing for s, and will not.
Forgotten(s) == Add(s) \notin requests /\ \A h \in Handles : device[h] # s

NoSampleAfter(k, s) ==
  \A j \in 1 .. Len(wire) : j > k => ~(wire[j].kind = "sample" /\ wire[j].sub = s)

Over(s) == Forgotten(s) /\ NoSampleAfter(0, s)

DeletesKnow == \A r \in requests : r.kind = "delete" =>
  unsub[r.call].at # "new" /\ r.handle = handle[unsub[r.call].sub]

AnswerIsLast == \A k \in 1 .. Len(wire) : wire[k].kind = "deleted" =>
  /\ unsub[wire[k].call].at # "new"
  /\ Forgotten(unsub[wire[k].call].sub)
  /\ NoSampleAfter(k, unsub[wire[k].call].sub)

DeletedAreOver == \A u \in Unsubs : unsub[u].at = "deleted" => Over(unsub[u].sub)

GoneAreOver == \A s \in Subs : pc[s] = "gone" => Over(s)

EndInv ==
  OneHandle /\ AskedOnce /\ DeletesKnow /\ AnswerIsLast /\ DeletedAreOver /\ GoneAreOver

LEMMA DeletedPacket ==
  ASSUME TypeOK, NEW k \in 1 .. Len(wire), wire[k].kind = "deleted"
  PROVE  wire[k].call \in Unsubs
  <1>1. wire[k] \in Packets
    BY DEF TypeOK
  <1> QED
    BY <1>1 DEF Packets

LEMMA DeleteRequest ==
  ASSUME TypeOK, NEW r \in requests, r.kind = "delete"
  PROVE  r.call \in Unsubs /\ r.handle \in Handles
  BY DEF TypeOK, Requests

\* A call of the client, or the receive goroutine, that asks the device nothing:
\* at most the head of the wire goes.
LEMMA ClientStepKeepsEnd ==
  ASSUME MapInv, EndInv, device' = device, requests' = requests,
         NEW d \in {0, 1},
         \A k \in 1 .. Len(wire') : k + d \in 1 .. Len(wire) /\ wire'[k] = wire[k + d],
         \A s \in Subs : handle'[s] = handle[s] \/ pc[s] = "adding",
         \A s \in Subs, h \in Handles : Claims(s, h)' => Claims(s, h),
         \A u \in Unsubs : /\ unsub'[u].sub = unsub[u].sub
                           /\ unsub'[u].at = "new" => unsub[u].at = "new"
                           /\ unsub'[u].at = "deleted" =>
                                unsub[u].at = "deleted" \/ Over(unsub[u].sub)',
         \A s \in Subs : /\ pc'[s] = "new" => pc[s] = "new"
                         /\ pc'[s] = "gone" => pc[s] = "gone" \/ Over(s)
  PROVE  EndInv'
  <1>1. OneHandle'
    BY DEF EndInv, OneHandle
  <1>2. AskedOnce'
    BY DEF EndInv, AskedOnce
  <1>3. DeletesKnow'
    <2> SUFFICES ASSUME NEW r \in requests, r.kind = "delete"
                 PROVE  unsub'[r.call].at # "new" /\ r.handle = handle'[unsub'[r.call].sub]
      BY DEF DeletesKnow
    <2>1. r.call \in Unsubs
      BY DeleteRequest DEF MapInv
    <2>2. unsub[r.call].at # "new" /\ r.handle = handle[unsub[r.call].sub]
      BY DEF EndInv, DeletesKnow
    <2>3. unsub[r.call].sub \in Subs /\ pc[unsub[r.call].sub] # "adding"
      BY <2>1, <2>2 DEF MapInv, CallsKnow
    <2> QED
      BY <2>1, <2>2, <2>3
  <1>4. \A s : Forgotten(s) => Forgotten(s)'
    BY DEF Forgotten
  <1>5. \A k \in Nat : \A s : NoSampleAfter(k + d, s) => NoSampleAfter(k, s)'
    BY DEF NoSampleAfter
  <1>6. \A s : NoSampleAfter(0, s) => NoSampleAfter(0, s)'
    BY DEF NoSampleAfter
  <1>7. \A s : Over(s) => Over(s)'
    BY <1>4, <1>6 DEF Over
  <1>8. AnswerIsLast'
    <2> SUFFICES ASSUME NEW k \in 1 .. Len(wire'), wire'[k].kind = "deleted"
                 PROVE  /\ unsub'[wire'[k].call].at # "new"
                        /\ Forgotten(unsub[wire[k].call].sub)'
                        /\ NoSampleAfter(k, unsub[wire[k].call].sub)'
      BY DEF AnswerIsLast
    <2>1. k + d \in 1 .. Len(wire) /\ wire'[k] = wire[k + d]
      OBVIOUS
    <2>2. wire[k + d].call \in Unsubs
      BY <2>1, DeletedPacket DEF MapInv
    <2>3. /\ unsub[wire[k + d].call].at # "new"
          /\ Forgotten(unsub[wire[k + d].call].sub)
          /\ NoSampleAfter(k + d, unsub[wire[k + d].call].sub)
      BY <2>1 DEF EndInv, AnswerIsLast
    <2> QED
      BY <1>4, <1>5, <2>1, <2>2, <2>3
  <1>9. DeletedAreOver'
    BY <1>7 DEF EndInv, DeletedAreOver
  <1>10. GoneAreOver'
    BY <1>7 DEF EndInv, GoneAreOver
  <1> QED
    BY <1>1, <1>2, <1>3, <1>8, <1>9, <1>10 DEF EndInv

LEMMA SubscribeKeepsEnd ==
  ASSUME MapInv, EndInv, NEW s \in Subs, Subscribe(s)
  PROVE  EndInv'
  <1> USE DEF Subscribe, clientVars, callbackVars, deviceVars
  <1>1. requests' = requests \union {Add(s)} /\ pc[s] = "new"
    BY DEF Add
  <1>2. \A t \in Subs, h \in Handles : Claims(t, h)' <=> Claims(t, h)
    BY DEF Claims, Names
  <1>3. \A t \in Subs : /\ pc'[t] = "new" => pc[t] = "new" /\ t # s
                        /\ pc'[t] = "gone" => pc[t] = "gone" /\ t # s
    BY DEF MapInv, TypeOK
  <1>4. \A t \in Subs : Add(t) \in requests' => Add(t) \in requests \/ t = s
    BY <1>1 DEF Add
  <1>5. \A t \in Subs : t # s /\ Forgotten(t) => Forgotten(t)'
    BY <1>4 DEF Forgotten
  <1>6. \A k \in Nat, t \in Subs : NoSampleAfter(k, t) => NoSampleAfter(k, t)'
    BY DEF NoSampleAfter
  <1>7. \A u \in Unsubs : unsub[u].at # "new" => unsub[u].sub \in Subs /\ unsub[u].sub # s
    BY <1>1 DEF MapInv, CallsKnow
  <1>8. OneHandle'
    BY <1>2 DEF EndInv, OneHandle
  <1>9. AskedOnce'
    <2>1. \A t \in Subs : pc'[t] = "new" => Add(t) \notin requests'
      BY <1>3, <1>4 DEF EndInv, AskedOnce
    <2>2. \A t \in Subs : Add(t) \in requests' => \A h \in Handles : ~Claims(t, h)
      BY <1>1, <1>4 DEF EndInv, AskedOnce
    <2> QED
      BY <1>2, <1>3, <2>1, <2>2 DEF EndInv, AskedOnce
  <1>10. DeletesKnow'
    <2>1. Add(s).kind = "add"
      BY DEF Add
    <2> QED
      BY <1>1, <2>1 DEF EndInv, DeletesKnow
  <1>11. AnswerIsLast'
    BY <1>5, <1>6, <1>7, DeletedPacket DEF EndInv, AnswerIsLast, MapInv
  <1>12. DeletedAreOver'
    BY <1>5, <1>6, <1>7 DEF EndInv, DeletedAreOver, Over
  <1>13. GoneAreOver'
    BY <1>3, <1>5, <1>6 DEF EndInv, GoneAreOver, Over
  <1> QED
    BY <1>8, <1>9, <1>10, <1>11, <1>12, <1>13 DEF EndInv

LEMMA BeginUnsubscribeKeepsEnd ==
  ASSUME MapInv, EndInv, NEW u \in Unsubs, NEW s \in Subs, NEW b \in BOOLEAN,
         BeginUnsubscribe(u, s, b)
  PROVE  EndInv'
  <1> USE DEF BeginUnsubscribe, clientVars, callbackVars, deviceVars
  <1> DEFINE r == [kind |-> "delete", call |-> u, handle |-> handle[s]]
  <1>1. /\ unsub[u].at = "new" /\ unsub'[u].at = "deleting" /\ unsub'[u].sub = s
        /\ \A v \in Unsubs : v # u => unsub'[v] = unsub[v]
    BY DEF MapInv, TypeOK
  <1>2. \A t \in Subs, h \in Handles : Claims(t, h)' <=> Claims(t, h)
    BY DEF Claims, Names
  <1>3. \A t : Add(t) \in requests' <=> Add(t) \in requests
    BY DEF Add
  <1>4. \A t : Forgotten(t) => Forgotten(t)'
    BY <1>3 DEF Forgotten
  <1>5. \A k, t : NoSampleAfter(k, t) => NoSampleAfter(k, t)'
    BY DEF NoSampleAfter
  <1>6. OneHandle'
    BY <1>2 DEF EndInv, OneHandle
  <1>7. AskedOnce'
    BY <1>2, <1>3 DEF EndInv, AskedOnce
  <1>8. DeletesKnow'
    <2> SUFFICES ASSUME NEW q \in requests', q.kind = "delete"
                 PROVE  unsub'[q.call].at # "new" /\ q.handle = handle'[unsub'[q.call].sub]
      BY DEF DeletesKnow
    <2>1. CASE q = r
      BY <1>1, <2>1
    <2>2. CASE q \in requests
      <3>1. q.call \in Unsubs /\ unsub[q.call].at # "new" /\ q.handle = handle[unsub[q.call].sub]
        BY <2>2, DeleteRequest DEF EndInv, DeletesKnow, MapInv
      <3> QED
        BY <1>1, <3>1
    <2> QED
      BY <2>1, <2>2
  <1>9. AnswerIsLast'
    <2>1. \A k \in 1 .. Len(wire) : wire[k].kind = "deleted" => wire[k].call \in Unsubs \ {u}
      BY <1>1, DeletedPacket DEF EndInv, AnswerIsLast, MapInv
    <2> QED
      BY <1>1, <1>4, <1>5, <2>1 DEF EndInv, AnswerIsLast
  <1>10. DeletedAreOver'
    BY <1>1, <1>4, <1>5 DEF EndInv, DeletedAreOver, Over
  <1>11. GoneAreOver'
    BY <1>4, <1>5 DEF EndInv, GoneAreOver, Over
  <1> QED
    BY <1>6, <1>7, <1>8, <1>9, <1>10, <1>11 DEF EndInv

\* Nothing that is over begins again: the request was the only one.
LEMMA DeviceAddsKeepsEnd ==
  ASSUME MapInv, EndInv, NEW s \in Subs, NEW h \in Handles, DeviceAdds(s, h)
  PROVE  EndInv'
  <1> USE DEF DeviceAdds, clientVars, callbackVars, deviceVars
  <1>1. /\ Add(s) \in requests /\ requests' = requests \ {Add(s)}
        /\ pc[s] # "new" /\ \A g \in Handles : ~Claims(s, g)
    BY DEF EndInv, AskedOnce, Add
  <1>2. wire' = Append(wire, [kind |-> "added", sub |-> s, handle |-> h])
    OBVIOUS
  <1>3. \A k \in 1 .. Len(wire') :
          \/ k \in 1 .. Len(wire) /\ wire'[k] = wire[k]
          \/ wire'[k].kind = "added" /\ wire'[k].sub = s /\ wire'[k].handle = h
    BY <1>2 DEF MapInv, TypeOK
  <1>4. \A t \in Subs, g \in Handles : device'[g] = t => device[g] = t \/ (t = s /\ g = h)
    BY DEF MapInv, TypeOK
  <1>5. \A t \in Subs, g \in Handles : Claims(t, g)' => Claims(t, g) \/ (t = s /\ g = h)
    BY <1>3, <1>4 DEF Claims, Names
  <1>6. \A t \in Subs : Add(t) \in requests' => Add(t) \in requests /\ t # s
    BY <1>1 DEF Add
  <1>7. \A t \in Subs : Forgotten(t) => Forgotten(t)' /\ t # s
    BY <1>1, <1>4, <1>6 DEF Forgotten
  <1>8. \A k \in Nat, t \in Subs : NoSampleAfter(k, t) => NoSampleAfter(k, t)'
    BY <1>3 DEF NoSampleAfter
  <1>9. OneHandle'
    BY <1>1, <1>5 DEF EndInv, OneHandle
  <1>10. AskedOnce'
    BY <1>1, <1>5, <1>6 DEF EndInv, AskedOnce
  <1>11. DeletesKnow'
    BY <1>1 DEF EndInv, DeletesKnow
  <1>12. AnswerIsLast'
    <2> SUFFICES ASSUME NEW k \in 1 .. Len(wire'), wire'[k].kind = "deleted"
                 PROVE  /\ unsub[wire'[k].call].at # "new"
                        /\ Forgotten(unsub[wire[k].call].sub)'
                        /\ NoSampleAfter(k, unsub[wire[k].call].sub)'
      BY DEF AnswerIsLast
    <2>1. k \in 1 .. Len(wire) /\ wire'[k] = wire[k] /\ k \in Nat
      BY <1>3
    <2>2. unsub[wire[k].call].sub \in Subs
      BY <2>1, DeletedPacket DEF EndInv, AnswerIsLast, MapInv, CallsKnow
    <2> QED
      BY <1>7, <1>8, <2>1, <2>2 DEF EndInv, AnswerIsLast
  <1>13. \A t \in Subs : Over(t) => Over(t)'
    BY <1>7, <1>8 DEF Over
  <1>14. DeletedAreOver'
    BY <1>13 DEF EndInv, DeletedAreOver, MapInv, CallsKnow
  <1>15. GoneAreOver'
    BY <1>13 DEF EndInv, GoneAreOver
  <1> QED
    BY <1>9, <1>10, <1>11, <1>12, <1>14, <1>15 DEF EndInv

LEMMA DeviceSamplesKeepsEnd ==
  ASSUME MapInv, EndInv, NEW h \in Handles, DeviceSamples(h)
  PROVE  EndInv'
  <1> USE DEF DeviceSamples, clientVars, callbackVars, deviceVars
  <1> DEFINE s == device[h]
  <1>1. s \in Subs
    BY DEF MapInv, TypeOK
  <1>2. wire' = Append(wire, [kind |-> "sample", sub |-> s, handle |-> h, n |-> sent[s] + 1])
    OBVIOUS
  <1>3. \A k \in 1 .. Len(wire') :
          \/ k \in 1 .. Len(wire) /\ wire'[k] = wire[k]
          \/ wire'[k].kind = "sample" /\ wire'[k].sub = s /\ wire'[k].handle = h
    BY <1>2 DEF MapInv, TypeOK
  <1>4. \A t \in Subs, g \in Handles : Claims(t, g)' => Claims(t, g)
    BY <1>3 DEF Claims, Names
  <1>5. \A t : Forgotten(t) => Forgotten(t)' /\ t # s
    BY DEF Forgotten
  <1>6. \A k \in Nat : \A t : NoSampleAfter(k, t) /\ t # s => NoSampleAfter(k, t)'
    BY <1>3 DEF NoSampleAfter
  <1>7. OneHandle'
    BY <1>4 DEF EndInv, OneHandle
  <1>8. AskedOnce'
    BY <1>4 DEF EndInv, AskedOnce
  <1>9. DeletesKnow'
    BY DEF EndInv, DeletesKnow
  <1>10. AnswerIsLast'
    <2> SUFFICES ASSUME NEW k \in 1 .. Len(wire'), wire'[k].kind = "deleted"
                 PROVE  /\ unsub[wire'[k].call].at # "new"
                        /\ Forgotten(unsub[wire[k].call].sub)'
                        /\ NoSampleAfter(k, unsub[wire[k].call].sub)'
      BY DEF AnswerIsLast
    <2>1. k \in 1 .. Len(wire) /\ wire'[k] = wire[k] /\ k \in Nat
      BY <1>3
    <2> QED
      BY <1>5, <1>6, <2>1 DEF EndInv, AnswerIsLast
  <1>11. \A t : Over(t) => Over(t)'
    BY <1>5, <1>6 DEF Over
  <1>12. DeletedAreOver'
    BY <1>11 DEF EndInv, DeletedAreOver
  <1>13. GoneAreOver'
    BY <1>11 DEF EndInv, GoneAreOver
  <1> QED
    BY <1>7, <1>8, <1>9, <1>10, <1>12, <1>13 DEF EndInv

\* The device forgets the subscription that the request names, and its answer
\* comes after the samples it has sent.
LEMMA DeviceDeletesKeepsEnd ==
  ASSUME MapInv, EndInv, NEW r \in requests, DeviceDeletes(r)
  PROVE  EndInv'
  <1> USE DEF DeviceDeletes, clientVars, callbackVars, deviceVars
  <1> DEFINE s == unsub[r.call].sub
  <1>1. /\ r.call \in Unsubs /\ r.handle \in Handles
        /\ unsub[r.call].at # "new" /\ r.handle = handle[s]
    BY DeleteRequest DEF EndInv, DeletesKnow, MapInv
  <1>2. s \in Subs /\ pc[s] \in {"active", "gone"}
    BY <1>1 DEF MapInv, CallsKnow
  <1>3. wire' = Append(wire, [kind |-> "deleted", call |-> r.call])
    OBVIOUS
  <1>4. /\ Len(wire) \in Nat /\ Len(wire') = Len(wire) + 1
        /\ \A k \in 1 .. Len(wire') :
             \/ k \in 1 .. Len(wire) /\ wire'[k] = wire[k]
             \/ k = Len(wire) + 1 /\ wire'[k].kind = "deleted" /\ wire'[k].call = r.call
    BY <1>3 DEF MapInv, TypeOK
  <1>5. \A t \in Subs, g \in Handles : device'[g] = t => device[g] = t /\ g # r.handle
    BY SubscriptionAssumption, <1>1 DEF MapInv, TypeOK
  <1>6. \A t \in Subs, g \in Handles : Claims(t, g)' => Claims(t, g)
    BY <1>4, <1>5 DEF Claims, Names
  <1>7. \A t \in Subs : Forgotten(t) => Forgotten(t)'
    BY <1>5 DEF Forgotten
  <1>8. Forgotten(s)'
    <2>1. Claims(s, r.handle)
      BY <1>1 DEF Claims
    <2>2. Add(s) \notin requests
      BY <1>1, <1>2, <2>1 DEF EndInv, AskedOnce
    <2>3. \A g \in Handles : device[g] = s => g = r.handle
      BY <1>1, <1>2, <2>1 DEF EndInv, OneHandle, Claims
    <2> QED
      BY <1>2, <1>5, <2>2, <2>3 DEF Forgotten
  <1>9. \A k \in Nat : \A t : NoSampleAfter(k, t) => NoSampleAfter(k, t)'
    BY <1>4 DEF NoSampleAfter
  <1>10. OneHandle'
    BY <1>6 DEF EndInv, OneHandle
  <1>11. AskedOnce'
    BY <1>6 DEF EndInv, AskedOnce
  <1>12. DeletesKnow'
    BY DEF EndInv, DeletesKnow
  <1>13. AnswerIsLast'
    <2> SUFFICES ASSUME NEW k \in 1 .. Len(wire'), wire'[k].kind = "deleted"
                 PROVE  /\ unsub[wire'[k].call].at # "new"
                        /\ Forgotten(unsub[wire[k].call].sub)'
                        /\ NoSampleAfter(k, unsub[wire[k].call].sub)'
      BY DEF AnswerIsLast
    <2>1. CASE k \in 1 .. Len(wire) /\ wire'[k] = wire[k]
      <3>1. k \in Nat /\ unsub[wire[k].call].sub \in Subs
        BY <2>1, DeletedPacket DEF EndInv, AnswerIsLast, MapInv, CallsKnow
      <3> QED
        BY <1>7, <1>9, <2>1, <3>1 DEF EndInv, AnswerIsLast
    <2>2. CASE k = Len(wire) + 1 /\ wire'[k].call = r.call
      <3>1. NoSampleAfter(k, s)'
        BY <1>4, <2>2 DEF NoSampleAfter
      <3> QED
        BY <1>1, <1>8, <2>2, <3>1
    <2> QED
      BY <1>4, <2>1, <2>2
  <1>14. \A t \in Subs : Over(t) => Over(t)'
    BY <1>7, <1>9 DEF Over
  <1>15. DeletedAreOver'
    BY <1>14 DEF EndInv, DeletedAreOver, MapInv, CallsKnow
  <1>16. GoneAreOver'
    BY <1>14 DEF EndInv, GoneAreOver
  <1> QED
    BY <1>10, <1>11, <1>12, <1>13, <1>15, <1>16 DEF EndInv

LEMMA RestartKeepsEnd ==
  ASSUME MapInv, EndInv, Restart
  PROVE  EndInv'
  <1> USE DEF Restart, clientVars, callbackVars, deviceVars
  <1>1. \A t \in Subs, g \in Handles : device'[g] # t
    BY SubscriptionAssumption
  <1>2. \A t \in Subs, g \in Handles : Claims(t, g)' => Claims(t, g)
    BY <1>1 DEF Claims
  <1>3. \A t \in Subs : Over(t)'
    BY <1>1 DEF Over, Forgotten, NoSampleAfter
  <1>4. OneHandle'
    BY <1>2 DEF EndInv, OneHandle
  <1>5. AskedOnce'
    BY <1>2 DEF EndInv, AskedOnce
  <1>6. DeletesKnow' /\ AnswerIsLast'
    BY DEF DeletesKnow, AnswerIsLast
  <1>7. DeletedAreOver' /\ GoneAreOver'
    BY <1>3 DEF DeletedAreOver, GoneAreOver, MapInv, CallsKnow
  <1> QED
    BY <1>4, <1>5, <1>6, <1>7 DEF EndInv

LEMMA SameWire ==
  ASSUME MapInv, wire' = wire
  PROVE  \A k \in 1 .. Len(wire') : k + 0 \in 1 .. Len(wire) /\ wire'[k] = wire[k + 0]
  BY DEF MapInv, TypeOK

LEMMA TakenFromWire ==
  ASSUME MapInv, wire # <<>>, wire' = Tail(wire)
  PROVE  \A k \in 1 .. Len(wire') : k + 1 \in 1 .. Len(wire) /\ wire'[k] = wire[k + 1]
  BY HeadAndTail DEF MapInv, TypeOK

LEMMA SubscribeFailsKeepsEnd ==
  ASSUME MapInv, EndInv, NEW s \in Subs, SubscribeFails(s)
  PROVE  EndInv'
  <1> USE DEF SubscribeFails, clientVars, callbackVars, deviceVars
  <1>1. \A k \in 1 .. Len(wire') : k + 0 \in 1 .. Len(wire) /\ wire'[k] = wire[k + 0]
    BY SameWire
  <1>2. device' = device /\ requests' = requests /\ handle' = handle
    OBVIOUS
  <1>3. \A t \in Subs, h \in Handles : Claims(t, h)' => Claims(t, h)
    BY <1>1, <1>2 DEF Claims, Names
  <1>4. \A v \in Unsubs : /\ unsub'[v].sub = unsub[v].sub
                          /\ unsub'[v].at = "new" => unsub[v].at = "new"
                          /\ unsub'[v].at = "deleted" => unsub[v].at = "deleted"
    BY DEF MapInv, TypeOK
  <1>5. \A t \in Subs : /\ pc'[t] = "new" => pc[t] = "new"
                        /\ pc'[t] = "gone" => pc[t] = "gone"
    BY DEF MapInv, TypeOK
  <1> HIDE DEF SubscribeFails
  <1> QED
    BY <1>1, <1>2, <1>3, <1>4, <1>5, ClientStepKeepsEnd

LEMMA StoreKeepsEnd ==
  ASSUME MapInv, EndInv, NEW s \in Subs, Store(s)
  PROVE  EndInv'
  <1> USE DEF Store, clientVars, callbackVars, deviceVars
  <1>1. \A k \in 1 .. Len(wire') : k + 0 \in 1 .. Len(wire) /\ wire'[k] = wire[k + 0]
    BY SameWire
  <1>2. device' = device /\ requests' = requests /\ handle' = handle
    OBVIOUS
  <1>3. \A t \in Subs, h \in Handles : Claims(t, h)' => Claims(t, h)
    BY <1>1, <1>2 DEF Claims, Names
  <1>4. \A v \in Unsubs : /\ unsub'[v].sub = unsub[v].sub
                          /\ unsub'[v].at = "new" => unsub[v].at = "new"
                          /\ unsub'[v].at = "deleted" => unsub[v].at = "deleted"
    BY DEF MapInv, TypeOK
  <1>5. \A t \in Subs : /\ pc'[t] = "new" => pc[t] = "new"
                        /\ pc'[t] = "gone" => pc[t] = "gone"
    BY DEF MapInv, TypeOK
  <1> HIDE DEF Store
  <1> QED
    BY <1>1, <1>2, <1>3, <1>4, <1>5, ClientStepKeepsEnd

LEMMA UnsubscribeFailsKeepsEnd ==
  ASSUME MapInv, EndInv, NEW u \in Unsubs, UnsubscribeFails(u)
  PROVE  EndInv'
  <1> USE DEF UnsubscribeFails, clientVars, callbackVars, deviceVars
  <1>1. \A k \in 1 .. Len(wire') : k + 0 \in 1 .. Len(wire) /\ wire'[k] = wire[k + 0]
    BY SameWire
  <1>2. device' = device /\ requests' = requests /\ handle' = handle
    OBVIOUS
  <1>3. \A t \in Subs, h \in Handles : Claims(t, h)' => Claims(t, h)
    BY <1>1, <1>2 DEF Claims, Names
  <1>4. \A v \in Unsubs : /\ unsub'[v].sub = unsub[v].sub
                          /\ unsub'[v].at = "new" => unsub[v].at = "new"
                          /\ unsub'[v].at = "deleted" => unsub[v].at = "deleted"
    BY DEF MapInv, TypeOK
  <1>5. \A t \in Subs : /\ pc'[t] = "new" => pc[t] = "new"
                        /\ pc'[t] = "gone" => pc[t] = "gone"
    BY DEF MapInv, TypeOK
  <1> HIDE DEF UnsubscribeFails
  <1> QED
    BY <1>1, <1>2, <1>3, <1>4, <1>5, ClientStepKeepsEnd

LEMMA UnsubscribeAllKeepsEnd ==
  ASSUME MapInv, EndInv, UnsubscribeAll
  PROVE  EndInv'
  <1> USE DEF UnsubscribeAll, clientVars, callbackVars, deviceVars
  <1>1. \A k \in 1 .. Len(wire') : k + 0 \in 1 .. Len(wire) /\ wire'[k] = wire[k + 0]
    BY SameWire
  <1>2. device' = device /\ requests' = requests /\ handle' = handle
    OBVIOUS
  <1>3. \A t \in Subs, h \in Handles : Claims(t, h)' => Claims(t, h)
    BY <1>1, <1>2 DEF Claims, Names
  <1>4. \A v \in Unsubs : /\ unsub'[v].sub = unsub[v].sub
                          /\ unsub'[v].at = "new" => unsub[v].at = "new"
                          /\ unsub'[v].at = "deleted" => unsub[v].at = "deleted"
    BY DEF MapInv, TypeOK
  <1>5. \A t \in Subs : /\ pc'[t] = "new" => pc[t] = "new"
                        /\ pc'[t] = "gone" => pc[t] = "gone"
    BY DEF MapInv, TypeOK
  <1> HIDE DEF UnsubscribeAll
  <1> QED
    BY <1>1, <1>2, <1>3, <1>4, <1>5, ClientStepKeepsEnd

LEMMA UnsubscribedAllKeepsEnd ==
  ASSUME MapInv, EndInv, UnsubscribedAll
  PROVE  EndInv'
  <1> USE DEF UnsubscribedAll, clientVars, callbackVars, deviceVars
  <1>1. \A k \in 1 .. Len(wire') : k + 0 \in 1 .. Len(wire) /\ wire'[k] = wire[k + 0]
    BY SameWire
  <1>2. device' = device /\ requests' = requests /\ handle' = handle
    OBVIOUS
  <1>3. \A t \in Subs, h \in Handles : Claims(t, h)' => Claims(t, h)
    BY <1>1, <1>2 DEF Claims, Names
  <1>4. \A v \in Unsubs : /\ unsub'[v].sub = unsub[v].sub
                          /\ unsub'[v].at = "new" => unsub[v].at = "new"
                          /\ unsub'[v].at = "deleted" => unsub[v].at = "deleted"
    BY DEF MapInv, TypeOK
  <1>5. \A t \in Subs : /\ pc'[t] = "new" => pc[t] = "new"
                        /\ pc'[t] = "gone" => pc[t] = "gone"
    BY DEF MapInv, TypeOK
  <1> HIDE DEF UnsubscribedAll
  <1> QED
    BY <1>1, <1>2, <1>3, <1>4, <1>5, ClientStepKeepsEnd

LEMMA RunCallbackKeepsEnd ==
  ASSUME MapInv, EndInv, NEW cb \in callbacks, RunCallback(cb)
  PROVE  EndInv'
  <1> USE DEF RunCallback, clientVars, callbackVars, deviceVars
  <1>1. \A k \in 1 .. Len(wire') : k + 0 \in 1 .. Len(wire) /\ wire'[k] = wire[k + 0]
    BY SameWire
  <1>2. device' = device /\ requests' = requests /\ handle' = handle
    OBVIOUS
  <1>3. \A t \in Subs, h \in Handles : Claims(t, h)' => Claims(t, h)
    BY <1>1, <1>2 DEF Claims, Names
  <1>4. \A v \in Unsubs : /\ unsub'[v].sub = unsub[v].sub
                          /\ unsub'[v].at = "new" => unsub[v].at = "new"
                          /\ unsub'[v].at = "deleted" => unsub[v].at = "deleted"
    BY DEF MapInv, TypeOK
  <1>5. \A t \in Subs : /\ pc'[t] = "new" => pc[t] = "new"
                        /\ pc'[t] = "gone" => pc[t] = "gone"
    BY DEF MapInv, TypeOK
  <1> HIDE DEF RunCallback
  <1> QED
    BY <1>1, <1>2, <1>3, <1>4, <1>5, ClientStepKeepsEnd

LEMMA RouteSampleKeepsEnd ==
  ASSUME MapInv, EndInv, RouteSample
  PROVE  EndInv'
  <1> USE DEF RouteSample, clientVars, callbackVars, deviceVars
  <1>1. \A k \in 1 .. Len(wire') : k + 1 \in 1 .. Len(wire) /\ wire'[k] = wire[k + 1]
    BY TakenFromWire
  <1>2. device' = device /\ requests' = requests /\ handle' = handle
    OBVIOUS
  <1>3. \A t \in Subs, h \in Handles : Claims(t, h)' => Claims(t, h)
    BY <1>1, <1>2 DEF Claims, Names
  <1>4. \A v \in Unsubs : /\ unsub'[v].sub = unsub[v].sub
                          /\ unsub'[v].at = "new" => unsub[v].at = "new"
                          /\ unsub'[v].at = "deleted" => unsub[v].at = "deleted"
    BY DEF MapInv, TypeOK
  <1>5. \A t \in Subs : /\ pc'[t] = "new" => pc[t] = "new"
                        /\ pc'[t] = "gone" => pc[t] = "gone"
    BY DEF MapInv, TypeOK
  <1> HIDE DEF RouteSample
  <1> QED
    BY <1>1, <1>2, <1>3, <1>4, <1>5, ClientStepKeepsEnd

LEMMA DropSampleKeepsEnd ==
  ASSUME MapInv, EndInv, DropSample
  PROVE  EndInv'
  <1> USE DEF DropSample, clientVars, callbackVars, deviceVars
  <1>1. \A k \in 1 .. Len(wire') : k + 1 \in 1 .. Len(wire) /\ wire'[k] = wire[k + 1]
    BY TakenFromWire
  <1>2. device' = device /\ requests' = requests /\ handle' = handle
    OBVIOUS
  <1>3. \A t \in Subs, h \in Handles : Claims(t, h)' => Claims(t, h)
    BY <1>1, <1>2 DEF Claims, Names
  <1>4. \A v \in Unsubs : /\ unsub'[v].sub = unsub[v].sub
                          /\ unsub'[v].at = "new" => unsub[v].at = "new"
                          /\ unsub'[v].at = "deleted" => unsub[v].at = "deleted"
    BY DEF MapInv, TypeOK
  <1>5. \A t \in Subs : /\ pc'[t] = "new" => pc[t] = "new"
                        /\ pc'[t] = "gone" => pc[t] = "gone"
    BY DEF MapInv, TypeOK
  <1> HIDE DEF DropSample
  <1> QED
    BY <1>1, <1>2, <1>3, <1>4, <1>5, ClientStepKeepsEnd

\* The subscription whose entry is removed is over already.
LEMMA RemoveEntryKeepsEnd ==
  ASSUME MapInv, EndInv, NEW u \in Unsubs, RemoveEntry(u)
  PROVE  EndInv'
  <1> USE DEF RemoveEntry, clientVars, callbackVars, deviceVars
  <1>1. \A k \in 1 .. Len(wire') : k + 0 \in 1 .. Len(wire) /\ wire'[k] = wire[k + 0]
    BY SameWire
  <1>2. device' = device /\ requests' = requests /\ handle' = handle
    OBVIOUS
  <1>3. \A t \in Subs, h \in Handles : Claims(t, h)' => Claims(t, h)
    BY <1>1, <1>2 DEF Claims, Names
  <1>4. \A v \in Unsubs : /\ unsub'[v].sub = unsub[v].sub
                          /\ unsub'[v].at = "new" => unsub[v].at = "new"
                          /\ unsub'[v].at = "deleted" => unsub[v].at = "deleted"
    BY DEF MapInv, TypeOK
  <1>5. Over(unsub[u].sub)
    BY DEF EndInv, DeletedAreOver
  <1>6. \A t \in Subs : /\ pc'[t] = "new" => pc[t] = "new"
                        /\ pc'[t] = "gone" => pc[t] = "gone" \/ t = unsub[u].sub
    BY DEF MapInv, TypeOK
  <1> HIDE DEF RemoveEntry
  <1> QED
    BY <1>1, <1>2, <1>3, <1>4, <1>5, <1>6, ClientStepKeepsEnd

LEMMA TakeAddedKeepsEnd ==
  ASSUME MapInv, EndInv, TakeAdded
  PROVE  EndInv'
  <1> USE DEF TakeAdded, clientVars, callbackVars, deviceVars
  <1>1. \A k \in 1 .. Len(wire') : k + 1 \in 1 .. Len(wire) /\ wire'[k] = wire[k + 1]
    BY TakenFromWire
  <1>2. device' = device /\ requests' = requests /\ unsub' = unsub
    OBVIOUS
  <1>3. /\ Head(wire) = wire[1] /\ 1 \in 1 .. Len(wire)
        /\ Head(wire).sub \in Subs /\ Head(wire).kind = "added"
    BY HeadAndTail, AddedHead DEF MapInv, TypeOK
  <1>4. \A t \in Subs :
          \/ pc'[t] = pc[t] /\ handle'[t] = handle[t]
          \/ /\ pc[t] = "adding" /\ pc'[t] = "added"
             /\ t = Head(wire).sub /\ handle'[t] = Head(wire).handle
    <2>1. CASE pc[Head(wire).sub] = "adding"
      BY <1>3, <2>1 DEF MapInv, TypeOK
    <2>2. CASE pc[Head(wire).sub] # "adding"
      BY <2>2
    <2> QED
      BY <2>1, <2>2
  <1>5. \A t \in Subs, h \in Handles : Claims(t, h)' => Claims(t, h)
    BY <1>1, <1>2, <1>3, <1>4 DEF Claims, Names
  <1> HIDE DEF TakeAdded
  <1> QED
    BY <1>1, <1>2, <1>4, <1>5, ClientStepKeepsEnd

\* After the device's answer no sample is left on the wire.
LEMMA TakeDeletedKeepsEnd ==
  ASSUME MapInv, EndInv, TakeDeleted
  PROVE  EndInv'
  <1> USE DEF TakeDeleted, clientVars, callbackVars, deviceVars
  <1>1. \A k \in 1 .. Len(wire') : k + 1 \in 1 .. Len(wire) /\ wire'[k] = wire[k + 1]
    BY TakenFromWire
  <1>2. device' = device /\ requests' = requests /\ handle' = handle /\ pc' = pc
    OBVIOUS
  <1>3. PICK c \in Unsubs : /\ Head(wire) = wire[1] /\ 1 \in 1 .. Len(wire)
                           /\ c = Head(wire).call /\ Head(wire).kind = "deleted"
    BY HeadAndTail, DeletedHead DEF MapInv, TypeOK
  <1>4. \A t \in Subs, h \in Handles : Claims(t, h)' => Claims(t, h)
    BY <1>1, <1>2 DEF Claims, Names
  <1>5. Forgotten(unsub[c].sub) /\ NoSampleAfter(1, unsub[c].sub)
    BY <1>3 DEF EndInv, AnswerIsLast
  <1>6. \A v \in Unsubs : /\ unsub'[v].sub = unsub[v].sub
                          /\ unsub'[v].at = "new" => unsub[v].at = "new"
                          /\ unsub'[v].at = "deleted" => unsub[v].at = "deleted" \/ v = c
    <2>1. CASE unsub[c].at = "deleting"
      BY <1>3, <2>1 DEF MapInv, TypeOK
    <2>2. CASE unsub[c].at # "deleting"
      BY <1>3, <2>2 DEF MapInv, TypeOK
    <2> QED
      BY <2>1, <2>2
  <1>7. Over(unsub[c].sub)'
    <2>1. unsub'[c].sub = unsub[c].sub
      BY <1>3, <1>6
    <2>2. \A s : Forgotten(s) => Forgotten(s)'
      BY <1>2 DEF Forgotten
    <2>3. \A s : NoSampleAfter(1, s) => NoSampleAfter(0, s)'
      BY <1>1 DEF NoSampleAfter
    <2> QED
      BY <1>5, <2>1, <2>2, <2>3 DEF Over
  <1>8. ASSUME NEW v \in Unsubs, unsub'[v].at = "deleted", unsub[v].at # "deleted"
        PROVE  Over(unsub[v].sub)'
    <2>1. v = c
      BY <1>6, <1>8
    <2> QED
      BY <1>7, <2>1
  <1> HIDE DEF TakeDeleted
  <1> QED
    BY <1>1, <1>2, <1>4, <1>6, <1>8, ClientStepKeepsEnd

LEMMA ReceiverBlocksKeepsEnd ==
  ASSUME MapInv, EndInv, ReceiverBlocks
  PROVE  EndInv'
  <1> USE DEF ReceiverBlocks, clientVars, callbackVars, deviceVars
  <1>1. \A k \in 1 .. Len(wire') : k + 0 \in 1 .. Len(wire) /\ wire'[k] = wire[k + 0]
    BY SameWire
  <1>2. device' = device /\ requests' = requests /\ handle' = handle
    OBVIOUS
  <1>3. \A t \in Subs, h \in Handles : Claims(t, h)' => Claims(t, h)
    BY <1>1, <1>2 DEF Claims, Names
  <1>4. \A v \in Unsubs : /\ unsub'[v].sub = unsub[v].sub
                          /\ unsub'[v].at = "new" => unsub[v].at = "new"
                          /\ unsub'[v].at = "deleted" => unsub[v].at = "deleted"
    BY DEF MapInv, TypeOK
  <1>5. \A t \in Subs : /\ pc'[t] = "new" => pc[t] = "new"
                        /\ pc'[t] = "gone" => pc[t] = "gone"
    BY DEF MapInv, TypeOK
  <1> HIDE DEF ReceiverBlocks
  <1> QED
    BY <1>1, <1>2, <1>3, <1>4, <1>5, ClientStepKeepsEnd

LEMMA StutterKeepsEnd ==
  ASSUME EndInv, UNCHANGED vars
  PROVE  EndInv'
  BY DEF EndInv, OneHandle, AskedOnce, DeletesKnow, AnswerIsLast, DeletedAreOver, GoneAreOver,
         Over, Forgotten, NoSampleAfter, Claims, Names, vars

LEMMA InitIsEnd ==
  ASSUME Init
  PROVE  EndInv
  <1> USE DEF Init
  <1>1. \A s \in Subs, h \in Handles : ~Claims(s, h)
    BY SubscriptionAssumption DEF Claims, Handles
  <1>2. OneHandle /\ AskedOnce
    BY <1>1 DEF OneHandle, AskedOnce
  <1>3. DeletesKnow /\ AnswerIsLast /\ DeletedAreOver /\ GoneAreOver
    BY DEF DeletesKnow, AnswerIsLast, DeletedAreOver, GoneAreOver, NotMade
  <1> QED
    BY <1>2, <1>3 DEF EndInv

LEMMA EndStep ==
  ASSUME MapInv, EndInv, [Next]_vars
  PROVE  EndInv'
  <1>1. ASSUME NEW s \in Subs, Subscribe(s) PROVE EndInv'
    BY <1>1, SubscribeKeepsEnd
  <1>2. ASSUME NEW s \in Subs, SubscribeFails(s) PROVE EndInv'
    BY <1>2, SubscribeFailsKeepsEnd
  <1>3. ASSUME NEW s \in Subs, Store(s) PROVE EndInv'
    BY <1>3, StoreKeepsEnd
  <1>4. ASSUME NEW u \in Unsubs, NEW s \in Subs, Unsubscribe(u, s) PROVE EndInv'
    BY <1>4, BeginUnsubscribeKeepsEnd DEF Unsubscribe
  <1>5. ASSUME NEW u \in Unsubs, NEW s \in Subs, UnsubscribeNext(u, s) PROVE EndInv'
    BY <1>5, BeginUnsubscribeKeepsEnd DEF UnsubscribeNext
  <1>6. ASSUME NEW u \in Unsubs, UnsubscribeFails(u) PROVE EndInv'
    BY <1>6, UnsubscribeFailsKeepsEnd
  <1>7. ASSUME NEW u \in Unsubs, RemoveEntry(u) PROVE EndInv'
    BY <1>7, RemoveEntryKeepsEnd
  <1>8. CASE UnsubscribeAll
    BY <1>8, UnsubscribeAllKeepsEnd
  <1>9. CASE UnsubscribedAll
    BY <1>9, UnsubscribedAllKeepsEnd
  <1>10. ASSUME NEW s \in Subs, NEW h \in Handles, DeviceAdds(s, h) PROVE EndInv'
    BY <1>10, DeviceAddsKeepsEnd
  <1>11. ASSUME NEW h \in Handles, DeviceSamples(h) PROVE EndInv'
    BY <1>11, DeviceSamplesKeepsEnd
  <1>12. ASSUME NEW r \in requests, DeviceDeletes(r) PROVE EndInv'
    BY <1>12, DeviceDeletesKeepsEnd
  <1>13. CASE Restart
    BY <1>13, RestartKeepsEnd
  <1>14. CASE TakeAdded
    BY <1>14, TakeAddedKeepsEnd
  <1>15. CASE TakeDeleted
    BY <1>15, TakeDeletedKeepsEnd
  <1>16. CASE RouteSample
    BY <1>16, RouteSampleKeepsEnd
  <1>17. CASE DropSample
    BY <1>17, DropSampleKeepsEnd
  <1>18. ASSUME NEW cb \in callbacks, RunCallback(cb) PROVE EndInv'
    BY <1>18, RunCallbackKeepsEnd
  <1>19. CASE ReceiverBlocks
    BY <1>19, ReceiverBlocksKeepsEnd
  <1>20. CASE UNCHANGED vars
    BY <1>20, StutterKeepsEnd
  <1> QED
    BY <1>1, <1>2, <1>3, <1>4, <1>5, <1>6, <1>7, <1>8, <1>9, <1>10,
       <1>11, <1>12, <1>13, <1>14, <1>15, <1>16, <1>17, <1>18, <1>19, <1>20
       DEF Next, AppStep, Receive

\* The device's answer to an Unsubscribe is the last that comes for the
\* subscription, however often it is unsubscribed and whatever fails.
THEOREM EndInvariance == SafeSpec => []EndInv
  <1>1. MapInv /\ EndInv /\ [Next]_vars => EndInv'
    BY EndStep
  <1> QED
    BY <1>1, InitIsEnd, MapInvariance, PTL DEF SafeSpec

\* A sample for which there is no entry is one whose Subscribe has not stored
\* its handle yet, or has failed.
LEMMA DroppedIsEarly ==
  ASSUME MapInv, OwnerInv, EndInv, DropSample
  PROVE  pc[Head(wire).sub] \notin {"active", "gone"}
  <1> DEFINE s == Head(wire).sub
             h == Head(wire).handle
  <1>1. /\ Head(wire) = wire[1] /\ 1 \in 1 .. Len(wire) /\ Head(wire).kind = "sample"
        /\ s \in Subs /\ h \in Handles /\ subscriptions[h] = NoSub
    BY HeadAndTail, SampleHead DEF DropSample, MapInv, TypeOK
  <1>2. pc[s] # "gone"
    BY <1>1 DEF EndInv, GoneAreOver, Over, NoSampleAfter
  <1>3. ASSUME pc[s] = "active"
        PROVE  FALSE
    <2>1. Claims(s, h)
      BY <1>1 DEF Claims, Names
    <2>2. handle[s] \in Handles /\ Claims(s, handle[s])
      BY <1>1, <1>3 DEF MapInv, CallsKnow, Claims
    <2>3. handle[s] = h
      BY <1>1, <2>1, <2>2 DEF EndInv, OneHandle
    <2>4. subscriptions[h] = s
      BY <1>1, <1>3, <2>3 DEF OwnerInv, ActiveIsMapped
    <2> QED
      BY <1>1, <2>4, SubscriptionAssumption
  <1> QED
    BY <1>2, <1>3

\* No sample of a stored subscription is dropped, not even while it is being
\* unsubscribed: the entry goes after the device's answer, and every sample comes
\* before that answer (client_subscriptions.go:189-202, 350).
THEOREM EarlySamplesOnlyAreDropped == ~HandlesAnew => (SafeSpec => OnlyEarlySamplesAreDropped)
  <1> SUFFICES ASSUME ~HandlesAnew PROVE SafeSpec => OnlyEarlySamplesAreDropped
    OBVIOUS
  <1>1. MapInv /\ OwnerInv /\ EndInv
          => [DropSample => pc[Head(wire).sub] \notin {"active", "gone"}]_vars
    BY DroppedIsEarly
  <1> QED
    BY <1>1, MapInvariance, OwnerInvariance, EndInvariance, PTL DEF OnlyEarlySamplesAreDropped
=============================================================================
