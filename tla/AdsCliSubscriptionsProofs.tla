--------------------- MODULE AdsCliSubscriptionsProofs ----------------------
(***************************************************************************)
(* Proofs about AdsCliSubscriptions: the inductive invariant says which IDs  *)
(* the running command is about, that nothing of an ID is there before it is  *)
(* given out, and that the client's map, the device's table and the handles     *)
(* agree handle by handle.                                                  *)
(***************************************************************************)
EXTENDS AdsCliSubscriptions, TLAPS

Counted(id) == subscriptionStats[id] + callbacks[id] = routed[id]
Making == at \in {"adding", "added", "stored"}

\* IDs that were not given out: nobody has them, and nothing was counted.
FreshIDs ==
  /\ cur < nextSubID
  /\ \A h \in Handles : client[h] < nextSubID
  /\ \A id \in left : id < nextSubID
  /\ \A id \in IDs : id >= nextSubID =>
       /\ id \notin subscriptions
       /\ subscriptionStats[id] = 0 /\ callbacks[id] = 0 /\ routed[id] = 0

\* The command is about an ID that is not listed, yet or any more.
NotListed ==
  /\ cur \notin subscriptions
  /\ left \intersect subscriptions = {}
  /\ at = "cleared" => subscriptions = {}
  /\ at \in {"prompt", "cleared", "next"} => cur = 0
  /\ at \in {"prompt", "cleared", "adding", "added", "stored"} => left = {}
  /\ at \in {"adding", "added"} => \A h \in Handles : client[h] # cur

CountsKept ==
  /\ \A id \in subscriptions : Counted(id)
  /\ Making => Counted(cur)

\* The handles of what is listed or stored, until the device begins anew.
HandlesKept ==
  /\ at \in {"added", "stored"} => handle[cur] \in Handles
  /\ ~anew =>
       /\ \A id \in IDs : handle[id] < nextHandle
       /\ \A i, j \in IDs : handle[i] # 0 /\ i # j => handle[i] # handle[j]
       /\ \A id \in subscriptions : handle[id] \in Handles /\ client[handle[id]] = id
       /\ at = "stored" => client[handle[cur]] = cur

\* The client's entries are under their subscriptions' handles, and the
\* device's under the client's.
TablesAgree ==
  /\ \A h \in Handles : client[h] # 0 => handle[client[h]] = h
  /\ at = "added" => device[handle[cur]] \in {0, cur}
  /\ at = "deleted" /\ handle[cur] \in Handles => device[handle[cur]] = 0
  /\ \A h \in Handles : device[h] # 0 =>
       \/ device[h] \in failed
       \/ client[h] = device[h]
       \/ at = "added" /\ handle[cur] = h /\ device[h] = cur

ClientReachable ==
  at # "cleared" =>
    \A h \in Handles : client[h] # 0 =>
      client[h] \in subscriptions \union failed \union {cur} \union left

IInv ==
  /\ TypeOK
  /\ FreshIDs
  /\ NotListed
  /\ CountsKept
  /\ HandlesKept
  /\ TablesAgree
  /\ ClientReachable

-----------------------------------------------------------------------------
(* Every step keeps the invariant.                                          *)

\* What arithmetic needs of the types.
Numbers ==
  /\ IDs \subseteq Nat \ {0} /\ Handles \subseteq Nat \ {0}
  /\ nextSubID \in Nat \ {0} /\ cur \in Nat /\ nextHandle \in Nat \ {0}
  /\ cur \in IDs \union {0} /\ left \subseteq IDs /\ subscriptions \subseteq IDs
  /\ client \in [Handles -> Nat] /\ handle \in [IDs -> Nat]
  /\ client \in [Handles -> IDs \union {0}] /\ device \in [Handles -> IDs \union {0}]
  /\ handle \in [IDs -> Handles \union {0}]
  /\ subscriptionStats \in [IDs -> Nat] /\ callbacks \in [IDs -> Nat] /\ routed \in [IDs -> Nat]
  /\ at \in {"adding", "added", "stored", "unlisted", "deleting", "deleted"} => cur \in IDs

LEMMA TypesAreNumbers == TypeOK => Numbers
  <1> SUFFICES ASSUME TypeOK PROVE Numbers
    OBVIOUS
  <1>1. 0 .. MaxID = IDs \union {0} /\ 0 .. MaxHandle = Handles \union {0}
    BY CliAssumption DEF IDs, Handles
  <1>2. IDs \subseteq Nat \ {0} /\ Handles \subseteq Nat \ {0}
    BY DEF IDs, Handles
  <1>3. nextSubID \in Nat \ {0} /\ cur \in Nat /\ nextHandle \in Nat \ {0}
    BY CliAssumption DEF TypeOK
  <1> QED
    BY <1>1, <1>2, <1>3 DEF TypeOK, Numbers

\* The ranges that a step's new numbers must keep to.
LEMMA Ranges ==
  ASSUME TypeOK
  PROVE  /\ IDs \subseteq 0 .. MaxID /\ 0 \in 0 .. MaxID
         /\ nextSubID \in IDs => nextSubID + 1 \in 1 .. MaxID + 1
         /\ nextHandle \in Handles => nextHandle + 1 \in 1 .. MaxHandle + 1 /\ nextHandle \in 0 .. MaxHandle
         /\ 1 \in 1 .. MaxHandle + 1 /\ 0 \in 0 .. MaxHandle
         /\ restarts < MaxRestart => restarts + 1 \in 0 .. MaxRestart
  BY CliAssumption DEF TypeOK, IDs, Handles

\* sub_all takes another ID, or the program is back at its prompt.
LEMMA GoOnEither ==
  ASSUME TypeOK, GoOn
  PROVE  /\ more' \in 0 .. AllNames
         /\ \/ at' = "adding" /\ cur' = nextSubID /\ nextSubID \in IDs /\ nextSubID' = nextSubID + 1
            \/ at' = "prompt" /\ cur' = 0 /\ nextSubID' = nextSubID
  BY CliAssumption DEF TypeOK, GoOn, NewID

LEMMA SubscribeStep ==
  ASSUME IInv, NEW names \in {1, AllNames}, Subscribe(names)
  PROVE  IInv'
  <1> USE DEF IInv, Subscribe, NewID, clientVars, deviceVars, countVars
  <1>1. Numbers
    BY TypesAreNumbers
  <1>2. more' \in 0 .. AllNames
    BY CliAssumption
  <1>3. \A i \in IDs : Counted(i)' = Counted(i)
    BY DEF Counted
  <1>4. nextSubID \in IDs =>
         /\ nextSubID \notin subscriptions /\ Counted(nextSubID) /\ cur # nextSubID
         /\ \A h \in Handles : client[h] # nextSubID
    BY <1>1 DEF FreshIDs, Counted, Numbers
  <1>5. /\ \A h \in Handles : client[h] < nextSubID + 1
       /\ \A i \in IDs : handle[i] < nextHandle => handle[i] < nextHandle + 1
       /\ \A n \in Nat : n >= nextSubID + 1 => n >= nextSubID /\ n # nextSubID
    BY <1>1 DEF Numbers, FreshIDs
  <1>6. TypeOK'
    BY <1>1, <1>2, <1>3, <1>4, <1>5, Ranges DEF TypeOK, Numbers
  <1>7. FreshIDs'
    <2>1. cur' < nextSubID'
      BY <1>1, <1>2, <1>3, <1>4, <1>5 DEF FreshIDs, Numbers
    <2>2. \A h \in Handles : client'[h] < nextSubID'
      BY <1>1, <1>2, <1>3, <1>4, <1>5 DEF FreshIDs, Numbers
    <2>3. \A id \in left' : id < nextSubID'
      BY <1>1, <1>2, <1>3, <1>4, <1>5 DEF FreshIDs, Numbers
    <2>4. \A id \in IDs : id >= nextSubID' =>
            /\ id \notin subscriptions'
            /\ subscriptionStats'[id] = 0 /\ callbacks'[id] = 0 /\ routed'[id] = 0
      BY <1>1, <1>2, <1>3, <1>4, <1>5 DEF FreshIDs, Numbers
    <2> QED
      BY <2>1, <2>2, <2>3, <2>4 DEF FreshIDs
  <1>8. NotListed'
    BY <1>1, <1>2, <1>3, <1>4, <1>5 DEF NotListed, FreshIDs, Numbers
  <1>9. CountsKept'
    BY <1>1, <1>2, <1>3, <1>4, <1>5 DEF CountsKept, FreshIDs, Making, NotListed, Numbers
  <1>10. HandlesKept'
    BY <1>1, <1>2, <1>3, <1>4, <1>5 DEF HandlesKept, NotListed, FreshIDs, Numbers
  <1>11. TablesAgree'
    BY <1>1, <1>2, <1>3, <1>4, <1>5 DEF TablesAgree, NotListed, FreshIDs, HandlesKept, Numbers
  <1>12. ClientReachable'
    BY <1>1, <1>2, <1>3, <1>4, <1>5 DEF ClientReachable, TablesAgree, NotListed, FreshIDs, HandlesKept, Numbers
  <1> QED
    BY <1>6, <1>7, <1>8, <1>9, <1>10, <1>11, <1>12

LEMMA SubscribeValueStep ==
  ASSUME IInv, SubscribeValue
  PROVE  IInv'
  <1> USE DEF IInv, SubscribeValue, Goto, clientVars, deviceVars, countVars
  <1>1. Numbers
    BY TypesAreNumbers
  <1>2. \A i \in IDs : Counted(i)' = Counted(i)
    BY DEF Counted
  <1>3. /\ \A h \in Handles : client[h] < nextSubID + 1
       /\ \A i \in IDs : handle[i] < nextHandle => handle[i] < nextHandle + 1
       /\ \A n \in Nat : n >= nextSubID + 1 => n >= nextSubID /\ n # nextSubID
    BY <1>1 DEF Numbers, FreshIDs
  <1>4. TypeOK'
    BY <1>1, <1>2, <1>3, Ranges DEF TypeOK, Numbers
  <1>5. FreshIDs'
    BY <1>1, <1>2, <1>3 DEF FreshIDs, Numbers
  <1>6. NotListed'
    BY <1>1, <1>2, <1>3 DEF NotListed, FreshIDs, Numbers
  <1>7. CountsKept'
    BY <1>1, <1>2, <1>3 DEF CountsKept, FreshIDs, Making, NotListed, Numbers
  <1>8. HandlesKept'
    <2>1. ASSUME ~anew
          PROVE  \A i \in IDs : handle'[i] < nextHandle'
      BY <1>1, <1>2, <1>3, <2>1 DEF HandlesKept, Numbers
    <2>2. ASSUME ~anew, NEW i \in IDs, NEW j \in IDs, handle'[i] # 0, i # j
          PROVE  handle'[i] # handle'[j]
      BY <1>1, <1>2, <1>3, <2>2 DEF HandlesKept, Numbers
    <2>3. \A i \in subscriptions : handle'[i] = handle[i]
      BY <1>1, <1>2, <1>3 DEF NotListed, Numbers
    <2> QED
      BY <1>1, <1>2, <1>3, <2>1, <2>2, <2>3 DEF HandlesKept, Numbers
  <1>9. TablesAgree'
    BY <1>1, <1>2, <1>3 DEF TablesAgree, NotListed, FreshIDs, HandlesKept, Numbers
  <1>10. ClientReachable'
    BY <1>1, <1>2, <1>3 DEF ClientReachable, TablesAgree, NotListed, FreshIDs, HandlesKept, Numbers
  <1> QED
    BY <1>4, <1>5, <1>6, <1>7, <1>8, <1>9, <1>10

LEMMA SubscribeFailsStep ==
  ASSUME IInv, SubscribeFails
  PROVE  IInv'
  <1> USE DEF IInv, SubscribeFails, clientVars, deviceVars, countVars
  <1>1. Numbers
    BY TypesAreNumbers
  <1>2. /\ more' \in 0 .. AllNames
       /\ \/ at' = "adding" /\ cur' = nextSubID /\ nextSubID \in IDs /\ nextSubID' = nextSubID + 1
          \/ at' = "prompt" /\ cur' = 0 /\ nextSubID' = nextSubID
    BY GoOnEither
  <1>3. \A i \in IDs : Counted(i)' = Counted(i)
    BY DEF Counted
  <1>4. nextSubID \in IDs =>
         /\ nextSubID \notin subscriptions /\ Counted(nextSubID) /\ cur # nextSubID
         /\ \A h \in Handles : client[h] # nextSubID
    BY <1>1 DEF FreshIDs, Counted, Numbers
  <1>5. /\ \A h \in Handles : client[h] < nextSubID + 1
       /\ \A i \in IDs : handle[i] < nextHandle => handle[i] < nextHandle + 1
       /\ \A n \in Nat : n >= nextSubID + 1 => n >= nextSubID /\ n # nextSubID
    BY <1>1 DEF Numbers, FreshIDs
  <1>6. TypeOK'
    BY <1>1, <1>2, <1>3, <1>4, <1>5, Ranges DEF TypeOK, Numbers
  <1>7. FreshIDs'
    <2>1. cur' < nextSubID'
      BY <1>1, <1>2, <1>3, <1>4, <1>5 DEF FreshIDs, Numbers
    <2>2. \A h \in Handles : client'[h] < nextSubID'
      BY <1>1, <1>2, <1>3, <1>4, <1>5 DEF FreshIDs, Numbers
    <2>3. \A id \in left' : id < nextSubID'
      BY <1>1, <1>2, <1>3, <1>4, <1>5 DEF FreshIDs, Numbers
    <2>4. \A id \in IDs : id >= nextSubID' =>
            /\ id \notin subscriptions'
            /\ subscriptionStats'[id] = 0 /\ callbacks'[id] = 0 /\ routed'[id] = 0
      BY <1>1, <1>2, <1>3, <1>4, <1>5 DEF FreshIDs, Numbers
    <2> QED
      BY <2>1, <2>2, <2>3, <2>4 DEF FreshIDs
  <1>8. NotListed'
    <2>1. cur' \notin subscriptions'
      BY <1>1, <1>2, <1>3, <1>4, <1>5 DEF NotListed, Numbers
    <2>2. left' = {}
      BY <1>1, <1>2, <1>3, <1>4, <1>5 DEF NotListed
    <2>3. at' = "adding" => \A h \in Handles : client'[h] # cur'
      BY <1>1, <1>2, <1>3, <1>4, <1>5 DEF NotListed, Numbers
    <2> QED
      BY <1>1, <1>2, <1>3, <1>4, <1>5, <2>1, <2>2, <2>3 DEF NotListed
  <1>9. CountsKept'
    BY <1>1, <1>2, <1>3, <1>4, <1>5 DEF CountsKept, FreshIDs, Making, NotListed, Numbers
  <1>10. HandlesKept'
    BY <1>1, <1>2, <1>3, <1>4, <1>5 DEF HandlesKept, NotListed, FreshIDs, Numbers
  <1>11. TablesAgree'
    BY <1>1, <1>2, <1>3, <1>4, <1>5 DEF TablesAgree, NotListed, FreshIDs, HandlesKept, Numbers
  <1>12. ClientReachable'
    BY <1>1, <1>2, <1>3, <1>4, <1>5 DEF ClientReachable, TablesAgree, NotListed, FreshIDs, HandlesKept, Numbers
  <1> QED
    BY <1>6, <1>7, <1>8, <1>9, <1>10, <1>11, <1>12

LEMMA SubscribeTimesOutStep ==
  ASSUME IInv, SubscribeTimesOut
  PROVE  IInv'
  <1> USE DEF IInv, SubscribeTimesOut, clientVars, deviceVars, countVars
  <1>1. Numbers
    BY TypesAreNumbers
  <1>2. /\ more' \in 0 .. AllNames
       /\ \/ at' = "adding" /\ cur' = nextSubID /\ nextSubID \in IDs /\ nextSubID' = nextSubID + 1
          \/ at' = "prompt" /\ cur' = 0 /\ nextSubID' = nextSubID
    BY GoOnEither
  <1>3. \A i \in IDs : Counted(i)' = Counted(i)
    BY DEF Counted
  <1>4. nextSubID \in IDs =>
         /\ nextSubID \notin subscriptions /\ Counted(nextSubID) /\ cur # nextSubID
         /\ \A h \in Handles : client[h] # nextSubID
    BY <1>1 DEF FreshIDs, Counted, Numbers
  <1>5. /\ \A h \in Handles : client[h] < nextSubID + 1
       /\ \A i \in IDs : handle[i] < nextHandle => handle[i] < nextHandle + 1
       /\ \A n \in Nat : n >= nextSubID + 1 => n >= nextSubID /\ n # nextSubID
    BY <1>1 DEF Numbers, FreshIDs
  <1>6. TypeOK'
    BY <1>1, <1>2, <1>3, <1>4, <1>5, Ranges DEF TypeOK, Numbers
  <1>7. FreshIDs'
    <2>1. cur' < nextSubID'
      BY <1>1, <1>2, <1>3, <1>4, <1>5 DEF FreshIDs, Numbers
    <2>2. \A h \in Handles : client'[h] < nextSubID'
      BY <1>1, <1>2, <1>3, <1>4, <1>5 DEF FreshIDs, Numbers
    <2>3. \A id \in left' : id < nextSubID'
      BY <1>1, <1>2, <1>3, <1>4, <1>5 DEF FreshIDs, Numbers
    <2>4. \A id \in IDs : id >= nextSubID' =>
            /\ id \notin subscriptions'
            /\ subscriptionStats'[id] = 0 /\ callbacks'[id] = 0 /\ routed'[id] = 0
      BY <1>1, <1>2, <1>3, <1>4, <1>5 DEF FreshIDs, Numbers
    <2> QED
      BY <2>1, <2>2, <2>3, <2>4 DEF FreshIDs
  <1>8. NotListed'
    <2>1. cur' \notin subscriptions'
      BY <1>1, <1>2, <1>3, <1>4, <1>5 DEF NotListed, Numbers
    <2>2. left' = {}
      BY <1>1, <1>2, <1>3, <1>4, <1>5 DEF NotListed
    <2>3. at' = "adding" => \A h \in Handles : client'[h] # cur'
      BY <1>1, <1>2, <1>3, <1>4, <1>5 DEF NotListed, Numbers
    <2> QED
      BY <1>1, <1>2, <1>3, <1>4, <1>5, <2>1, <2>2, <2>3 DEF NotListed
  <1>9. CountsKept'
    BY <1>1, <1>2, <1>3, <1>4, <1>5 DEF CountsKept, FreshIDs, Making, NotListed, Numbers
  <1>10. HandlesKept'
    <2>1. ASSUME ~anew
          PROVE  \A i \in IDs : handle'[i] < nextHandle'
      BY <1>1, <1>2, <1>3, <1>4, <1>5, <2>1 DEF HandlesKept, Numbers
    <2>2. ASSUME ~anew, NEW i \in IDs, NEW j \in IDs, handle'[i] # 0, i # j
          PROVE  handle'[i] # handle'[j]
      BY <1>1, <1>2, <1>3, <1>4, <1>5, <2>2 DEF HandlesKept, Numbers
    <2>3. \A i \in subscriptions : handle'[i] = handle[i]
      BY <1>1, <1>2, <1>3, <1>4, <1>5 DEF NotListed, Numbers
    <2> QED
      BY <1>1, <1>2, <1>3, <1>4, <1>5, <2>1, <2>2, <2>3 DEF HandlesKept, Numbers
  <1>11. TablesAgree'
    BY <1>1, <1>2, <1>3, <1>4, <1>5 DEF TablesAgree, NotListed, FreshIDs, HandlesKept, Numbers
  <1>12. ClientReachable'
    BY <1>1, <1>2, <1>3, <1>4, <1>5 DEF ClientReachable, TablesAgree, NotListed, FreshIDs, HandlesKept, Numbers
  <1> QED
    BY <1>6, <1>7, <1>8, <1>9, <1>10, <1>11, <1>12

LEMMA ClientStoresStep ==
  ASSUME IInv, ClientStores
  PROVE  IInv'
  <1> USE DEF IInv, ClientStores, Goto, clientVars, deviceVars, countVars
  <1>1. Numbers
    BY TypesAreNumbers
  <1>2. \A i \in IDs : Counted(i)' = Counted(i)
    BY DEF Counted
  <1>3. TypeOK'
    BY <1>1, <1>2, Ranges DEF TypeOK, Numbers
  <1>4. FreshIDs'
    BY <1>1, <1>2 DEF FreshIDs, Numbers
  <1>5. NotListed'
    BY <1>1, <1>2 DEF NotListed, FreshIDs, Numbers
  <1>6. CountsKept'
    BY <1>1, <1>2 DEF CountsKept, FreshIDs, Making, NotListed, Numbers
  <1>7. HandlesKept'
    BY <1>1, <1>2 DEF HandlesKept, NotListed, FreshIDs, Numbers
  <1>8. TablesAgree'
    BY <1>1, <1>2 DEF TablesAgree, NotListed, FreshIDs, HandlesKept, Numbers
  <1>9. ClientReachable'
    BY <1>1, <1>2 DEF ClientReachable, TablesAgree, NotListed, FreshIDs, HandlesKept, Numbers
  <1> QED
    BY <1>3, <1>4, <1>5, <1>6, <1>7, <1>8, <1>9

LEMMA StoreStep ==
  ASSUME IInv, Store
  PROVE  IInv'
  <1> USE DEF IInv, Store, clientVars, deviceVars, countVars
  <1>1. Numbers
    BY TypesAreNumbers
  <1>2. /\ more' \in 0 .. AllNames
       /\ \/ at' = "adding" /\ cur' = nextSubID /\ nextSubID \in IDs /\ nextSubID' = nextSubID + 1
          \/ at' = "prompt" /\ cur' = 0 /\ nextSubID' = nextSubID
    BY GoOnEither
  <1>3. \A i \in IDs : Counted(i)' = Counted(i)
    BY DEF Counted
  <1>4. nextSubID \in IDs =>
         /\ nextSubID \notin subscriptions /\ Counted(nextSubID) /\ cur # nextSubID
         /\ \A h \in Handles : client[h] # nextSubID
    BY <1>1 DEF FreshIDs, Counted, Numbers
  <1>5. /\ \A h \in Handles : client[h] < nextSubID + 1
       /\ \A i \in IDs : handle[i] < nextHandle => handle[i] < nextHandle + 1
       /\ \A n \in Nat : n >= nextSubID + 1 => n >= nextSubID /\ n # nextSubID
    BY <1>1 DEF Numbers, FreshIDs
  <1>6. TypeOK'
    BY <1>1, <1>2, <1>3, <1>4, <1>5, Ranges DEF TypeOK, Numbers
  <1>7. FreshIDs'
    <2>1. cur' < nextSubID'
      BY <1>1, <1>2, <1>3, <1>4, <1>5 DEF FreshIDs, Numbers
    <2>2. \A h \in Handles : client'[h] < nextSubID'
      BY <1>1, <1>2, <1>3, <1>4, <1>5 DEF FreshIDs, Numbers
    <2>3. \A id \in left' : id < nextSubID'
      BY <1>1, <1>2, <1>3, <1>4, <1>5 DEF FreshIDs, Numbers
    <2>4. \A id \in IDs : id >= nextSubID' =>
            /\ id \notin subscriptions'
            /\ subscriptionStats'[id] = 0 /\ callbacks'[id] = 0 /\ routed'[id] = 0
      BY <1>1, <1>2, <1>3, <1>4, <1>5 DEF FreshIDs, Numbers
    <2> QED
      BY <2>1, <2>2, <2>3, <2>4 DEF FreshIDs
  <1>8. NotListed'
    <2>1. cur' \notin subscriptions'
      BY <1>1, <1>2, <1>3, <1>4, <1>5 DEF NotListed, Numbers
    <2>2. left' = {}
      BY <1>1, <1>2, <1>3, <1>4, <1>5 DEF NotListed
    <2>3. at' = "adding" => \A h \in Handles : client'[h] # cur'
      BY <1>1, <1>2, <1>3, <1>4, <1>5 DEF NotListed, Numbers
    <2> QED
      BY <1>1, <1>2, <1>3, <1>4, <1>5, <2>1, <2>2, <2>3 DEF NotListed
  <1>9. CountsKept'
    BY <1>1, <1>2, <1>3, <1>4, <1>5 DEF CountsKept, FreshIDs, Making, NotListed, Numbers
  <1>10. HandlesKept'
    BY <1>1, <1>2, <1>3, <1>4, <1>5 DEF HandlesKept, NotListed, FreshIDs, Numbers
  <1>11. TablesAgree'
    BY <1>1, <1>2, <1>3, <1>4, <1>5 DEF TablesAgree, NotListed, FreshIDs, HandlesKept, Numbers
  <1>12. ClientReachable'
    BY <1>1, <1>2, <1>3, <1>4, <1>5 DEF ClientReachable, TablesAgree, NotListed, FreshIDs, HandlesKept, Numbers
  <1> QED
    BY <1>6, <1>7, <1>8, <1>9, <1>10, <1>11, <1>12

LEMMA UnsubscribeStep ==
  ASSUME IInv, NEW id \in IDs, Unsubscribe(id)
  PROVE  IInv'
  <1> USE DEF IInv, Unsubscribe, About, getUnsubscribeCompletions, clientVars, deviceVars, countVars
  <1>1. Numbers
    BY TypesAreNumbers
  <1>2. \A i \in IDs : Counted(i)' = Counted(i)
    BY DEF Counted
  <1>3. TypeOK'
    BY <1>1, <1>2, Ranges DEF TypeOK, Numbers
  <1>4. FreshIDs'
    BY <1>1, <1>2 DEF FreshIDs, Numbers
  <1>5. NotListed'
    BY <1>1, <1>2 DEF NotListed, FreshIDs, Numbers
  <1>6. CountsKept'
    BY <1>1, <1>2 DEF CountsKept, FreshIDs, Making, NotListed, Numbers
  <1>7. HandlesKept'
    BY <1>1, <1>2 DEF HandlesKept, NotListed, FreshIDs, Numbers
  <1>8. TablesAgree'
    BY <1>1, <1>2 DEF TablesAgree, NotListed, FreshIDs, HandlesKept, Numbers
  <1>9. ClientReachable'
    BY <1>1, <1>2 DEF ClientReachable, TablesAgree, NotListed, FreshIDs, HandlesKept, Numbers
  <1> QED
    BY <1>3, <1>4, <1>5, <1>6, <1>7, <1>8, <1>9

LEMMA DeleteStatsStep ==
  ASSUME IInv, DeleteStats
  PROVE  IInv'
  <1> USE DEF IInv, DeleteStats, Goto, clientVars, deviceVars, countVars
  <1>1. Numbers
    BY TypesAreNumbers
  <1>2. \A i \in IDs \ {cur} : Counted(i) => Counted(i)'
    BY <1>1 DEF Counted, Numbers
  <1>3. TypeOK'
    BY <1>1, <1>2, Ranges DEF TypeOK, Numbers
  <1>4. FreshIDs'
    BY <1>1, <1>2 DEF FreshIDs, Numbers
  <1>5. NotListed'
    BY <1>1, <1>2 DEF NotListed, FreshIDs, Numbers
  <1>6. CountsKept'
    BY <1>1, <1>2 DEF CountsKept, FreshIDs, Making, NotListed, Numbers
  <1>7. HandlesKept'
    BY <1>1, <1>2 DEF HandlesKept, NotListed, FreshIDs, Numbers
  <1>8. TablesAgree'
    BY <1>1, <1>2 DEF TablesAgree, NotListed, FreshIDs, HandlesKept, Numbers
  <1>9. ClientReachable'
    BY <1>1, <1>2 DEF ClientReachable, TablesAgree, NotListed, FreshIDs, HandlesKept, Numbers
  <1> QED
    BY <1>3, <1>4, <1>5, <1>6, <1>7, <1>8, <1>9

LEMMA UnsubscribeAllStep ==
  ASSUME IInv, UnsubscribeAll
  PROVE  IInv'
  <1> USE DEF IInv, UnsubscribeAll, Goto, clientVars, deviceVars, countVars
  <1>1. Numbers
    BY TypesAreNumbers
  <1>2. \A i \in IDs : Counted(i)' = Counted(i)
    BY DEF Counted
  <1>3. TypeOK'
    BY <1>1, <1>2, Ranges DEF TypeOK, Numbers
  <1>4. FreshIDs'
    BY <1>1, <1>2 DEF FreshIDs, Numbers
  <1>5. NotListed'
    BY <1>1, <1>2 DEF NotListed, FreshIDs, Numbers
  <1>6. CountsKept'
    BY <1>1, <1>2 DEF CountsKept, FreshIDs, Making, NotListed, Numbers
  <1>7. HandlesKept'
    BY <1>1, <1>2 DEF HandlesKept, NotListed, FreshIDs, Numbers
  <1>8. TablesAgree'
    BY <1>1, <1>2 DEF TablesAgree, NotListed, FreshIDs, HandlesKept, Numbers
  <1>9. ClientReachable'
    BY <1>1, <1>2 DEF ClientReachable, TablesAgree, NotListed, FreshIDs, HandlesKept, Numbers
  <1> QED
    BY <1>3, <1>4, <1>5, <1>6, <1>7, <1>8, <1>9

LEMMA ClearStatsStep ==
  ASSUME IInv, ClearStats
  PROVE  IInv'
  <1> USE DEF IInv, ClearStats, clientVars, deviceVars, countVars
  <1>1. Numbers
    BY TypesAreNumbers
  <1>2. subscriptions = {}
    BY DEF NotListed
  <1>3. TypeOK'
    BY <1>1, <1>2, Ranges DEF TypeOK, Numbers
  <1>4. FreshIDs'
    BY <1>1, <1>2 DEF FreshIDs, Numbers
  <1>5. NotListed'
    BY <1>1, <1>2 DEF NotListed, FreshIDs, Numbers
  <1>6. CountsKept'
    BY <1>1, <1>2 DEF CountsKept, FreshIDs, Making, NotListed, Numbers
  <1>7. HandlesKept'
    BY <1>1, <1>2 DEF HandlesKept, NotListed, FreshIDs, Numbers
  <1>8. TablesAgree'
    BY <1>1, <1>2 DEF TablesAgree, NotListed, FreshIDs, HandlesKept, Numbers
  <1>9. ClientReachable'
    BY <1>1, <1>2 DEF ClientReachable, TablesAgree, NotListed, FreshIDs, HandlesKept, Numbers
  <1> QED
    BY <1>3, <1>4, <1>5, <1>6, <1>7, <1>8, <1>9

LEMMA UnsubscribeNextStep ==
  ASSUME IInv, NEW id \in IDs, UnsubscribeNext(id)
  PROVE  IInv'
  <1> USE DEF IInv, UnsubscribeNext, clientVars, deviceVars, countVars
  <1>1. Numbers
    BY TypesAreNumbers
  <1>2. \A i \in IDs : Counted(i)' = Counted(i)
    BY DEF Counted
  <1>3. TypeOK'
    BY <1>1, <1>2, Ranges DEF TypeOK, Numbers
  <1>4. FreshIDs'
    BY <1>1, <1>2 DEF FreshIDs, Numbers
  <1>5. NotListed'
    BY <1>1, <1>2 DEF NotListed, FreshIDs, Numbers
  <1>6. CountsKept'
    BY <1>1, <1>2 DEF CountsKept, FreshIDs, Making, NotListed, Numbers
  <1>7. HandlesKept'
    BY <1>1, <1>2 DEF HandlesKept, NotListed, FreshIDs, Numbers
  <1>8. TablesAgree'
    BY <1>1, <1>2 DEF TablesAgree, NotListed, FreshIDs, HandlesKept, Numbers
  <1>9. ClientReachable'
    BY <1>1, <1>2 DEF ClientReachable, TablesAgree, NotListed, FreshIDs, HandlesKept, Numbers
  <1> QED
    BY <1>3, <1>4, <1>5, <1>6, <1>7, <1>8, <1>9

LEMMA UnsubscribedAllStep ==
  ASSUME IInv, UnsubscribedAll
  PROVE  IInv'
  <1> USE DEF IInv, UnsubscribedAll, Goto, clientVars, deviceVars, countVars
  <1>1. Numbers
    BY TypesAreNumbers
  <1>2. \A i \in IDs : Counted(i)' = Counted(i)
    BY DEF Counted
  <1>3. TypeOK'
    BY <1>1, <1>2, Ranges DEF TypeOK, Numbers
  <1>4. FreshIDs'
    BY <1>1, <1>2 DEF FreshIDs, Numbers
  <1>5. NotListed'
    BY <1>1, <1>2 DEF NotListed, FreshIDs, Numbers
  <1>6. CountsKept'
    BY <1>1, <1>2 DEF CountsKept, FreshIDs, Making, NotListed, Numbers
  <1>7. HandlesKept'
    BY <1>1, <1>2 DEF HandlesKept, NotListed, FreshIDs, Numbers
  <1>8. TablesAgree'
    BY <1>1, <1>2 DEF TablesAgree, NotListed, FreshIDs, HandlesKept, Numbers
  <1>9. ClientReachable'
    BY <1>1, <1>2 DEF ClientReachable, TablesAgree, NotListed, FreshIDs, HandlesKept, Numbers
  <1> QED
    BY <1>3, <1>4, <1>5, <1>6, <1>7, <1>8, <1>9

LEMMA DeleteNotificationStep ==
  ASSUME IInv, DeleteNotification
  PROVE  IInv'
  <1> USE DEF IInv, DeleteNotification, Goto, clientVars, deviceVars, countVars
  <1>1. Numbers
    BY TypesAreNumbers
  <1>2. \A i \in IDs : Counted(i)' = Counted(i)
    BY DEF Counted
  <1>3. TypeOK'
    BY <1>1, <1>2, Ranges DEF TypeOK, Numbers
  <1>4. FreshIDs'
    BY <1>1, <1>2 DEF FreshIDs, Numbers
  <1>5. NotListed'
    BY <1>1, <1>2 DEF NotListed, FreshIDs, Numbers
  <1>6. CountsKept'
    BY <1>1, <1>2 DEF CountsKept, FreshIDs, Making, NotListed, Numbers
  <1>7. HandlesKept'
    BY <1>1, <1>2 DEF HandlesKept, NotListed, FreshIDs, Numbers
  <1>8. TablesAgree'
    BY <1>1, <1>2 DEF TablesAgree, NotListed, FreshIDs, HandlesKept, Numbers
  <1>9. ClientReachable'
    BY <1>1, <1>2 DEF ClientReachable, TablesAgree, NotListed, FreshIDs, HandlesKept, Numbers
  <1> QED
    BY <1>3, <1>4, <1>5, <1>6, <1>7, <1>8, <1>9

LEMMA UnsubscribeFailsStep ==
  ASSUME IInv, UnsubscribeFails
  PROVE  IInv'
  <1> USE DEF IInv, UnsubscribeFails, Unsubscribed, About, clientVars, deviceVars, countVars
  <1>1. Numbers
    BY TypesAreNumbers
  <1>2. \A i \in IDs : Counted(i)' = Counted(i)
    BY DEF Counted
  <1>3. TypeOK'
    BY <1>1, <1>2, Ranges DEF TypeOK, Numbers
  <1>4. FreshIDs'
    BY <1>1, <1>2 DEF FreshIDs, Numbers
  <1>5. NotListed'
    BY <1>1, <1>2 DEF NotListed, FreshIDs, Numbers
  <1>6. CountsKept'
    BY <1>1, <1>2 DEF CountsKept, FreshIDs, Making, NotListed, Numbers
  <1>7. HandlesKept'
    BY <1>1, <1>2 DEF HandlesKept, NotListed, FreshIDs, Numbers
  <1>8. TablesAgree'
    BY <1>1, <1>2 DEF TablesAgree, NotListed, FreshIDs, HandlesKept, Numbers
  <1>9. ClientReachable'
    BY <1>1, <1>2 DEF ClientReachable, TablesAgree, NotListed, FreshIDs, HandlesKept, Numbers
  <1> QED
    BY <1>3, <1>4, <1>5, <1>6, <1>7, <1>8, <1>9

LEMMA ClientRemovesStep ==
  ASSUME IInv, ClientRemoves
  PROVE  IInv'
  <1> USE DEF IInv, ClientRemoves, Unsubscribed, About, clientVars, deviceVars, countVars
  <1>1. Numbers
    BY TypesAreNumbers
  <1>2. \A i \in IDs : Counted(i)' = Counted(i)
    BY DEF Counted
  <1>3. TypeOK'
    BY <1>1, <1>2, Ranges DEF TypeOK, Numbers
  <1>4. FreshIDs'
    BY <1>1, <1>2 DEF FreshIDs, Numbers
  <1>5. NotListed'
    BY <1>1, <1>2 DEF NotListed, FreshIDs, Numbers
  <1>6. CountsKept'
    BY <1>1, <1>2 DEF CountsKept, FreshIDs, Making, NotListed, Numbers
  <1>7. HandlesKept'
    BY <1>1, <1>2 DEF HandlesKept, NotListed, FreshIDs, Numbers
  <1>8. TablesAgree'
    BY <1>1, <1>2 DEF TablesAgree, NotListed, FreshIDs, HandlesKept, Numbers
  <1>9. ClientReachable'
    BY <1>1, <1>2 DEF ClientReachable, TablesAgree, NotListed, FreshIDs, HandlesKept, Numbers
  <1> QED
    BY <1>3, <1>4, <1>5, <1>6, <1>7, <1>8, <1>9

LEMMA NotifyStep ==
  ASSUME IInv, NEW h \in Handles, Notify(h)
  PROVE  IInv'
  <1> USE DEF IInv, Notify, cmdVars, clientVars, deviceVars, countVars
  <1>1. Numbers
    BY TypesAreNumbers
  <1>2. \A i \in IDs : Counted(i) => Counted(i)'
    BY <1>1 DEF Counted, Numbers
  <1>3. TypeOK'
    BY <1>1, <1>2, Ranges DEF TypeOK, Numbers
  <1>4. FreshIDs'
    BY <1>1, <1>2 DEF FreshIDs, Numbers
  <1>5. NotListed'
    BY <1>1, <1>2 DEF NotListed, FreshIDs, Numbers
  <1>6. CountsKept'
    BY <1>1, <1>2 DEF CountsKept, FreshIDs, Making, NotListed, Numbers
  <1>7. HandlesKept'
    BY <1>1, <1>2 DEF HandlesKept, NotListed, FreshIDs, Numbers
  <1>8. TablesAgree'
    BY <1>1, <1>2 DEF TablesAgree, NotListed, FreshIDs, HandlesKept, Numbers
  <1>9. ClientReachable'
    BY <1>1, <1>2 DEF ClientReachable, TablesAgree, NotListed, FreshIDs, HandlesKept, Numbers
  <1> QED
    BY <1>3, <1>4, <1>5, <1>6, <1>7, <1>8, <1>9

LEMMA CallbackStep ==
  ASSUME IInv, NEW id \in IDs, Callback(id)
  PROVE  IInv'
  <1> USE DEF IInv, Callback, cmdVars, clientVars, deviceVars, countVars
  <1>1. Numbers
    BY TypesAreNumbers
  <1>2. \A i \in IDs : Counted(i) => Counted(i)'
    BY <1>1 DEF Counted, Numbers
  <1>3. TypeOK'
    BY <1>1, <1>2, Ranges DEF TypeOK, Numbers
  <1>4. FreshIDs'
    BY <1>1, <1>2 DEF FreshIDs, Numbers
  <1>5. NotListed'
    BY <1>1, <1>2 DEF NotListed, FreshIDs, Numbers
  <1>6. CountsKept'
    BY <1>1, <1>2 DEF CountsKept, FreshIDs, Making, NotListed, Numbers
  <1>7. HandlesKept'
    BY <1>1, <1>2 DEF HandlesKept, NotListed, FreshIDs, Numbers
  <1>8. TablesAgree'
    BY <1>1, <1>2 DEF TablesAgree, NotListed, FreshIDs, HandlesKept, Numbers
  <1>9. ClientReachable'
    BY <1>1, <1>2 DEF ClientReachable, TablesAgree, NotListed, FreshIDs, HandlesKept, Numbers
  <1> QED
    BY <1>3, <1>4, <1>5, <1>6, <1>7, <1>8, <1>9

LEMMA RestartStep ==
  ASSUME IInv, Restart
  PROVE  IInv'
  <1> USE DEF IInv, Restart, cmdVars, clientVars, deviceVars, countVars
  <1>1. Numbers
    BY TypesAreNumbers
  <1>2. \A i \in IDs : Counted(i)' = Counted(i)
    BY DEF Counted
  <1>3. TypeOK'
    BY <1>1, <1>2, Ranges DEF TypeOK, Numbers
  <1>4. FreshIDs'
    BY <1>1, <1>2 DEF FreshIDs, Numbers
  <1>5. NotListed'
    BY <1>1, <1>2 DEF NotListed, FreshIDs, Numbers
  <1>6. CountsKept'
    BY <1>1, <1>2 DEF CountsKept, FreshIDs, Making, NotListed, Numbers
  <1>7. HandlesKept'
    BY <1>1, <1>2 DEF HandlesKept, NotListed, FreshIDs, Numbers
  <1>8. TablesAgree'
    BY <1>1, <1>2 DEF TablesAgree, NotListed, FreshIDs, HandlesKept, Numbers
  <1>9. ClientReachable'
    BY <1>1, <1>2 DEF ClientReachable, TablesAgree, NotListed, FreshIDs, HandlesKept, Numbers
  <1> QED
    BY <1>3, <1>4, <1>5, <1>6, <1>7, <1>8, <1>9

-----------------------------------------------------------------------------

LEMMA InitIInv == Init => IInv
  <1> SUFFICES ASSUME Init PROVE IInv
    OBVIOUS
  <1> USE CliAssumption DEF Init
  <1>1. TypeOK
    <2>1. /\ 1 \in 1 .. MaxID + 1 /\ 0 \in 0 .. MaxID /\ 0 \in 0 .. AllNames
          /\ 0 \in 0 .. MaxHandle /\ 1 \in 1 .. MaxHandle + 1 /\ 0 \in 0 .. MaxRestart
      OBVIOUS
    <2> QED
      BY <2>1 DEF TypeOK
  <1>2. FreshIDs /\ NotListed /\ CountsKept
    BY DEF FreshIDs, NotListed, CountsKept, Making, IDs, Handles
  <1>3. HandlesKept
    BY DEF HandlesKept
  <1>4. TablesAgree /\ ClientReachable
    BY DEF TablesAgree, ClientReachable
  <1> QED
    BY <1>1, <1>2, <1>3, <1>4 DEF IInv

LEMMA StutterIInv ==
  ASSUME IInv, UNCHANGED vars
  PROVE  IInv'
  <1> USE DEF vars, cmdVars, clientVars, deviceVars, countVars
  <1>1. TypeOK'
    BY DEF IInv, TypeOK
  <1>2. FreshIDs' /\ NotListed' /\ ClientReachable'
    BY DEF IInv, FreshIDs, NotListed, ClientReachable
  <1>3. CountsKept' /\ HandlesKept' /\ TablesAgree'
    BY DEF IInv, CountsKept, Counted, Making, HandlesKept, TablesAgree
  <1> QED
    BY <1>1, <1>2, <1>3 DEF IInv

\* The commands keep their invariant, whatever fails, whenever callbacks run and
\* however the device restarts.
THEOREM Invariance == Spec => []IInv
  <1>1. IInv /\ [Next]_vars => IInv'
    <2> SUFFICES ASSUME IInv, [Next]_vars PROVE IInv'
      OBVIOUS
    <2>1. CASE Command
      BY <2>1, SubscribeStep, SubscribeValueStep, SubscribeFailsStep, SubscribeTimesOutStep,
         ClientStoresStep, StoreStep, UnsubscribeStep, UnsubscribeNextStep, DeleteStatsStep,
         UnsubscribeAllStep, ClearStatsStep, UnsubscribedAllStep, DeleteNotificationStep,
         UnsubscribeFailsStep, ClientRemovesStep
         DEF Command
    <2>2. CASE \E h \in Handles : Notify(h)
      BY <2>2, NotifyStep
    <2>3. CASE \E id \in IDs : Callback(id)
      BY <2>3, CallbackStep
    <2>4. CASE Restart
      BY <2>4, RestartStep
    <2>5. CASE UNCHANGED vars
      BY <2>5, StutterIInv
    <2> QED
      BY <2>1, <2>2, <2>3, <2>4, <2>5 DEF Next
  <1> QED
    BY InitIInv, <1>1, PTL DEF Spec

\* The state is of the types that the program's variables have.
THEOREM TypeCorrect == Spec => []TypeOK
  <1>1. IInv => TypeOK
    BY DEF IInv
  <1> QED
    BY Invariance, <1>1, PTL

\* What list_subs shows is what the client calls back (cmd_subscriptions.go:86,
\* 169), for any number of commands, as long as handles are not reused.
THEOREM ListedAreRouted == Spec => []ListedIsRouted
  <1>1. IInv => ListedIsRouted
    BY DEF IInv, HandlesKept, ListedIsRouted
  <1> QED
    BY Invariance, <1>1, PTL

\* No callback is counted twice, lost or counted for another subscription
\* (cmd_subscriptions.go:38-45).
THEOREM CountsAreExact == Spec => []AllCounted
  <1>1. IInv => AllCounted
    BY DEF IInv, CountsKept, Counted, AllCounted, ListSubs
  <1> QED
    BY Invariance, <1>1, PTL

\* Nothing stays watched out of the user's reach, except what a call failed for
\* (cmd_subscriptions.go:169-178, 193-201).
THEOREM NothingIsOrphaned == Spec => []NothingOrphaned
  <1>1. IInv => NothingOrphaned
    <2> SUFFICES ASSUME IInv, at # "cleared", NEW h \in Handles
                 PROVE  {device[h], client[h]} \ {0}
                          \subseteq subscriptions \union failed \union {cur} \union left
      BY DEF NothingOrphaned
    <2>1. client[h] # 0 => client[h] \in subscriptions \union failed \union {cur} \union left
      BY DEF IInv, ClientReachable
    <2>2. device[h] # 0 => device[h] \in failed \/ device[h] = client[h] \/ device[h] = cur
      BY DEF IInv, TablesAgree
    <2> QED
      BY <2>1, <2>2
  <1> QED
    BY Invariance, <1>1, PTL
=============================================================================
