---------------------------- MODULE AdsCallProofs ---------------------------
(***************************************************************************)
(* Invariance of IInv, and with it the safety of the request/response core, *)
(* for any set of calls, any number of invoke IDs and any wire bound; and   *)
(* that AdsCall implements the safety half of AdsRpc.                        *)
(***************************************************************************)
EXTENDS AdsCall, TLAPS

(* Facts about sequences of packets.                                        *)

LEMMA AppendFacts ==
  ASSUME NEW S, NEW s \in Seq(S), NEW x \in S
  PROVE  /\ Append(s, x) \in Seq(S)
         /\ Len(Append(s, x)) = Len(s) + 1
         /\ \A k \in 1 .. Len(s) : Append(s, x)[k] = s[k]
         /\ Append(s, x)[Len(s) + 1] = x
  OBVIOUS

LEMMA TailFacts ==
  ASSUME NEW S, NEW s \in Seq(S), s # <<>>
  PROVE  /\ Tail(s) \in Seq(S)
         /\ Len(s) \in Nat \ {0}
         /\ Len(Tail(s)) = Len(s) - 1
         /\ \A k \in 1 .. Len(s) - 1 : Tail(s)[k] = s[k + 1]
         /\ Head(s) = s[1]
         /\ Head(s) \in S
  OBVIOUS

(* Two states that agree on a call's life, up to requests answered and      *)
(* packets read, have no new live call.                                     *)
LEMMA NoNewLiveCall ==
  ASSUME IInv, id' = id, \A c \in Calls : Live(c)' => Live(c)
  PROVE  IdsOfLiveCallsDiffer'
  BY DEF IInv, IdsOfLiveCallsDiffer

\* Reading the head of the wire puts nothing on it.
LEMMA TailNotLive ==
  ASSUME IInv, wire # <<>>, wire' = Tail(wire),
         UNCHANGED <<pc, id, device>>
  PROVE  /\ IdsOfLiveCallsDiffer'
         /\ PacketsAreAnswers'
         /\ wire' \in Seq(Response \union {Notification})
  <1> USE DEF IInv, TypeOK
  <1>1. /\ wire' \in Seq(Response \union {Notification})
        /\ Len(wire) \in Nat \ {0}
        /\ Len(wire') = Len(wire) - 1
        /\ \A k \in 1 .. Len(wire') : k + 1 \in 1 .. Len(wire) /\ wire'[k] = wire[k + 1]
    BY TailFacts
  <1>2. ASSUME NEW c \in Calls, Live(c)' PROVE Live(c)
    <2>1. CASE Active(c)' \/ (device[c] = "pending")'
      BY <2>1 DEF Live, Active
    <2>2. CASE OnWire(c)'
      BY <1>1, <2>2 DEF Live, OnWire
    <2> QED
      BY <1>2, <2>1, <2>2 DEF Live
  <1>3. PacketsAreAnswers'
    BY <1>1, SMTT(30) DEF PacketsAreAnswers
  <1> QED
    BY <1>1, <1>2, <1>3, NoNewLiveCall

\* An ID that is not in use belongs to no live call.
LEMMA FreeId ==
  ASSUME IInv, NEW i \in Ids, ~IdInUse(i), NEW d \in Calls, Live(d)
  PROVE  id[d] # i
  <1> USE CallAssumption DEF IInv
  <1>1. CASE Active(d)
    BY <1>1 DEF RegistryExact, IdInUse
  <1>2. CASE device[d] = "pending"
    BY <1>2 DEF IdInUse
  <1>3. CASE OnWire(d)
    <2>1. PICK k \in 1 .. Len(wire) : wire[k].from = d
      BY <1>3 DEF OnWire
    <2>2. wire[k] # Notification
      BY <2>1 DEF Notification
    <2>3. wire[k].kind \in Answers /\ wire[k].id = id[d]
      BY <2>1, <2>2 DEF PacketsAreAnswers, Response
    <2> QED
      BY <2>3 DEF IdInUse
  <1> QED
    BY <1>1, <1>2, <1>3 DEF Live

\* The response at the head of the wire is found by its own call, if at all.
LEMMA LookupFindsOrigin ==
  ASSUME IInv, wire # <<>>, Head(wire) # Notification,
         requests[Head(wire).id] # NoCall
  PROVE  /\ Head(wire) \in Response
         /\ requests[Head(wire).id] = Head(wire).from
         /\ pc[Head(wire).from] \in {"waiting", "returning"}
         /\ device[Head(wire).from] = Head(wire).kind
  <1> USE DEF IInv, TypeOK
  <1> DEFINE r == Head(wire)
             c == requests[r.id]
  <1>1. r = wire[1] /\ 1 \in 1 .. Len(wire)
    BY TailFacts
  <1>2. r \in Response /\ r.id = id[r.from] /\ device[r.from] = r.kind
    BY <1>1 DEF PacketsAreAnswers
  <1>3. r.from \in Calls /\ r.id \in Ids /\ r.kind \in Answers
    BY <1>2 DEF Response
  <1>4. c \in Calls
    BY <1>3
  <1>5. Active(c) /\ id[c] = r.id
    BY <1>3, <1>4 DEF RegistryExact
  <1>6. Live(c) /\ Live(r.from)
    BY <1>1, <1>3, <1>5 DEF Live, OnWire
  <1>7. c = r.from
    BY <1>2, <1>3, <1>4, <1>5, <1>6 DEF IdsOfLiveCallsDiffer
  <1> QED
    BY <1>2, <1>3, <1>5, <1>7 DEF CallsInOrder, Active, Answers

-----------------------------------------------------------------------------
(* The initial state and each action preserve the inductive invariant.      *)

LEMMA InitIInv == Init => IInv
  <1> SUFFICES ASSUME Init PROVE IInv
    OBVIOUS
  <1> USE CallAssumption DEF Init
  <1>1. TypeOK
    BY DEF TypeOK, Ids, NoOutcome, NotHeld
  <1>2. RegistryExact
    BY DEF RegistryExact, Active, Ids
  <1>3. IdsOfLiveCallsDiffer
    BY DEF IdsOfLiveCallsDiffer, Live, Active, OnWire
  <1>4. PacketsAreAnswers /\ HeldIsAnswer /\ ReceiverFollowsLink
    BY DEF PacketsAreAnswers, HeldIsAnswer, ReceiverFollowsLink
  <1>5. CallsInOrder /\ OwnAnswer
    BY DEF CallsInOrder, OwnAnswer, NoOutcome, Answers
  <1> QED
    BY <1>1, <1>2, <1>3, <1>4, <1>5 DEF IInv

LEMMA DialIInv ==
  ASSUME IInv, Dial
  PROVE  IInv'
  <1> USE CallAssumption DEF IInv, Dial,
        Answers, Failures, NoOutcome, NotHeld, Notification, Response, Ids, Active, callVars
  <1>1. TypeOK'
    BY DEF TypeOK
  <1>2. RegistryExact'
    BY DEF TypeOK, RegistryExact
  <1>3. IdsOfLiveCallsDiffer'
    BY DEF TypeOK, IdsOfLiveCallsDiffer, Live, OnWire
  <1>4. PacketsAreAnswers'
    BY DEF TypeOK, PacketsAreAnswers
  <1>5. HeldIsAnswer'
    BY DEF TypeOK, HeldIsAnswer, ReceiverFollowsLink
  <1>6. ReceiverFollowsLink'
    BY DEF TypeOK, HeldIsAnswer, ReceiverFollowsLink
  <1>7. CallsInOrder'
    BY DEF TypeOK, CallsInOrder, HeldIsAnswer
  <1>8. OwnAnswer'
    BY DEF TypeOK, OwnAnswer, CallsInOrder, HeldIsAnswer
  <1> QED
    BY <1>1, <1>2, <1>3, <1>4, <1>5, <1>6, <1>7, <1>8

LEMMA LinkLostIInv ==
  ASSUME IInv, LinkLost
  PROVE  IInv'
  <1> USE CallAssumption DEF IInv, LinkLost,
        Answers, Failures, NoOutcome, NotHeld, Notification, Response, Ids, Active, callVars
  <1>1. TypeOK'
    BY DEF TypeOK
  <1>2. RegistryExact'
    BY DEF TypeOK, RegistryExact
  <1>3. IdsOfLiveCallsDiffer'
    BY DEF TypeOK, IdsOfLiveCallsDiffer, Live, OnWire
  <1>4. PacketsAreAnswers'
    BY DEF TypeOK, PacketsAreAnswers
  <1>5. HeldIsAnswer'
    BY DEF TypeOK, HeldIsAnswer
  <1>6. ReceiverFollowsLink'
    BY DEF TypeOK, ReceiverFollowsLink
  <1>7. CallsInOrder'
    BY DEF TypeOK, CallsInOrder, HeldIsAnswer
  <1>8. OwnAnswer'
    BY DEF TypeOK, OwnAnswer, CallsInOrder, HeldIsAnswer
  <1> QED
    BY <1>1, <1>2, <1>3, <1>4, <1>5, <1>6, <1>7, <1>8

LEMMA RefuseIInv ==
  ASSUME IInv, NEW c \in Calls, Refuse(c)
  PROVE  IInv'
  <1> USE CallAssumption DEF IInv, Refuse,
        Answers, Failures, NoOutcome, NotHeld, Notification, Response, Ids, Active, callVars
  <1>1. TypeOK'
    BY DEF TypeOK
  <1>2. RegistryExact'
    BY DEF TypeOK, RegistryExact
  <1>3. IdsOfLiveCallsDiffer'
    BY DEF TypeOK, IdsOfLiveCallsDiffer, Live, OnWire
  <1>4. PacketsAreAnswers'
    BY DEF TypeOK, PacketsAreAnswers
  <1>5. HeldIsAnswer'
    BY DEF TypeOK, HeldIsAnswer
  <1>6. ReceiverFollowsLink'
    BY DEF TypeOK, ReceiverFollowsLink
  <1>7. CallsInOrder'
    BY DEF TypeOK, CallsInOrder, HeldIsAnswer
  <1>8. OwnAnswer'
    BY DEF TypeOK, OwnAnswer, CallsInOrder, HeldIsAnswer
  <1> QED
    BY <1>1, <1>2, <1>3, <1>4, <1>5, <1>6, <1>7, <1>8

LEMMA GetInvokeIDIInv ==
  ASSUME IInv, NEW c \in Calls, GetInvokeID(c)
  PROVE  IInv'
  <1> USE CallAssumption DEF IInv, GetInvokeID,
        Answers, Failures, NoOutcome, NotHeld, Notification, Response, Ids, Active, callVars
  <1> DEFINE next == (invokeID + 1) % IdSpace
  <1>next. next \in Ids
    BY DEF TypeOK
  <1>1. TypeOK'
    BY <1>next DEF TypeOK
  <1>2. RegistryExact'
    <2>1. requests[next] = NoCall /\ ~Active(c)
      BY DEF IdInUse
    <2> QED
      BY <2>1, FreeId DEF TypeOK, RegistryExact, Live
  <1>3. IdsOfLiveCallsDiffer'
    <2>1. ASSUME NEW d \in Calls, d # c, Live(d)' PROVE Live(d) /\ id[d] # next
      BY <2>1, FreeId DEF TypeOK, Live, OnWire
    <2> QED
      BY <2>1 DEF TypeOK, IdsOfLiveCallsDiffer
  <1>4. PacketsAreAnswers'
    <2>1. device[c] = "none"
      BY DEF CallsInOrder
    <2> QED
      BY <2>1 DEF TypeOK, PacketsAreAnswers
  <1>5. HeldIsAnswer'
    BY <1>next DEF TypeOK, HeldIsAnswer
  <1>6. ReceiverFollowsLink'
    BY <1>next DEF TypeOK, ReceiverFollowsLink
  <1>7. CallsInOrder'
    BY <1>next DEF TypeOK, CallsInOrder, HeldIsAnswer
  <1>8. OwnAnswer'
    BY <1>next DEF TypeOK, OwnAnswer, CallsInOrder, HeldIsAnswer
  <1> QED
    BY <1>1, <1>2, <1>3, <1>4, <1>5, <1>6, <1>7, <1>8

LEMMA SendFailsIInv ==
  ASSUME IInv, NEW c \in Calls, SendFails(c)
  PROVE  IInv'
  <1> USE CallAssumption DEF IInv, SendFails, Return,
        Answers, Failures, NoOutcome, NotHeld, Notification, Response, Ids, Active, callVars
  <1>1. TypeOK'
    BY DEF TypeOK
  <1>2. RegistryExact'
    BY DEF TypeOK, RegistryExact
  <1>3. IdsOfLiveCallsDiffer'
    <2>1. ASSUME NEW d \in Calls, Live(d)' PROVE Live(d)
      BY <2>1 DEF TypeOK, Live, OnWire
    <2> QED
      BY <2>1, NoNewLiveCall
  <1>4. PacketsAreAnswers'
    BY DEF TypeOK, PacketsAreAnswers
  <1>5. HeldIsAnswer'
    BY DEF TypeOK, HeldIsAnswer
  <1>6. ReceiverFollowsLink'
    BY DEF TypeOK, ReceiverFollowsLink
  <1>7. CallsInOrder'
    BY DEF TypeOK, CallsInOrder, HeldIsAnswer
  <1>8. OwnAnswer'
    BY DEF TypeOK, OwnAnswer, CallsInOrder, HeldIsAnswer
  <1> QED
    BY <1>1, <1>2, <1>3, <1>4, <1>5, <1>6, <1>7, <1>8

LEMMA WriteIInv ==
  ASSUME IInv, NEW c \in Calls, Write(c)
  PROVE  IInv'
  <1> USE CallAssumption DEF IInv, Write,
        Answers, Failures, NoOutcome, NotHeld, Notification, Response, Ids, Active, callVars
  <1>1. TypeOK'
    BY DEF TypeOK
  <1>2. RegistryExact'
    BY DEF TypeOK, RegistryExact
  <1>3. IdsOfLiveCallsDiffer'
    <2>1. ASSUME NEW d \in Calls, Live(d)' PROVE Live(d)
      BY <2>1 DEF TypeOK, Live, OnWire
    <2> QED
      BY <2>1, NoNewLiveCall
  <1>4. PacketsAreAnswers'
    BY DEF TypeOK, PacketsAreAnswers, CallsInOrder
  <1>5. HeldIsAnswer'
    BY DEF TypeOK, HeldIsAnswer
  <1>6. ReceiverFollowsLink'
    BY DEF TypeOK, ReceiverFollowsLink
  <1>7. CallsInOrder'
    BY DEF TypeOK, CallsInOrder, HeldIsAnswer
  <1>8. OwnAnswer'
    BY DEF TypeOK, OwnAnswer, CallsInOrder, HeldIsAnswer
  <1> QED
    BY <1>1, <1>2, <1>3, <1>4, <1>5, <1>6, <1>7, <1>8

LEMMA TimesOutIInv ==
  ASSUME IInv, NEW c \in Calls, TimesOut(c)
  PROVE  IInv'
  <1> USE CallAssumption DEF IInv, TimesOut, Return,
        Answers, Failures, NoOutcome, NotHeld, Notification, Response, Ids, Active, callVars
  <1>1. TypeOK'
    BY DEF TypeOK
  <1>2. RegistryExact'
    BY DEF TypeOK, RegistryExact
  <1>3. IdsOfLiveCallsDiffer'
    <2>1. ASSUME NEW d \in Calls, Live(d)' PROVE Live(d)
      BY <2>1 DEF TypeOK, Live, OnWire
    <2> QED
      BY <2>1, NoNewLiveCall
  <1>4. PacketsAreAnswers'
    BY DEF TypeOK, PacketsAreAnswers
  <1>5. HeldIsAnswer'
    BY DEF TypeOK, HeldIsAnswer
  <1>6. ReceiverFollowsLink'
    BY DEF TypeOK, ReceiverFollowsLink
  <1>7. CallsInOrder'
    BY DEF TypeOK, CallsInOrder, HeldIsAnswer
  <1>8. OwnAnswer'
    BY DEF TypeOK, OwnAnswer, CallsInOrder, HeldIsAnswer
  <1> QED
    BY <1>1, <1>2, <1>3, <1>4, <1>5, <1>6, <1>7, <1>8

LEMMA RemoveInvokeIdIInv ==
  ASSUME IInv, NEW c \in Calls, RemoveInvokeId(c)
  PROVE  IInv'
  <1> USE CallAssumption DEF IInv, RemoveInvokeId,
        Answers, Failures, NoOutcome, NotHeld, Notification, Response, Ids, Active, callVars
  <1>1. TypeOK'
    BY DEF TypeOK
  <1>2. RegistryExact'
    BY DEF TypeOK, RegistryExact
  <1>3. IdsOfLiveCallsDiffer'
    <2>1. ASSUME NEW d \in Calls, Live(d)' PROVE Live(d)
      BY <2>1 DEF TypeOK, Live, OnWire
    <2> QED
      BY <2>1, NoNewLiveCall
  <1>4. PacketsAreAnswers'
    BY DEF TypeOK, PacketsAreAnswers
  <1>5. HeldIsAnswer'
    BY DEF TypeOK, HeldIsAnswer
  <1>6. ReceiverFollowsLink'
    BY DEF TypeOK, ReceiverFollowsLink
  <1>7. CallsInOrder'
    BY DEF TypeOK, CallsInOrder, HeldIsAnswer
  <1>8. OwnAnswer'
    BY DEF TypeOK, OwnAnswer, CallsInOrder, HeldIsAnswer
  <1> QED
    BY <1>1, <1>2, <1>3, <1>4, <1>5, <1>6, <1>7, <1>8

LEMMA DeviceAnswersIInv ==
  ASSUME IInv, NEW c \in Calls, NEW k \in Answers, DeviceAnswers(c, k)
  PROVE  IInv'
  <1> USE CallAssumption DEF IInv, DeviceAnswers,
        Answers, Failures, NoOutcome, NotHeld, Notification, Response, Ids, Active, callVars
  <1>packet. [id |-> id[c], from |-> c, kind |-> k] \in Response \union {Notification}
    BY DEF TypeOK
  <1>1. TypeOK'
    BY <1>packet DEF TypeOK
  <1>2. RegistryExact'
    BY <1>packet DEF TypeOK, RegistryExact
  <1>3. IdsOfLiveCallsDiffer'
    <2>1. ASSUME NEW d \in Calls, Live(d)' PROVE Live(d)
      <3>1. CASE OnWire(d)'
        BY <3>1, AppendFacts, <1>packet DEF TypeOK, Live, OnWire
      <3> QED
        BY <2>1, <3>1 DEF TypeOK, Live
    <2> QED
      BY <2>1, NoNewLiveCall
  <1>4. PacketsAreAnswers'
    BY <1>packet DEF TypeOK, PacketsAreAnswers
  <1>5. HeldIsAnswer'
    BY <1>packet DEF TypeOK, HeldIsAnswer
  <1>6. ReceiverFollowsLink'
    BY <1>packet DEF TypeOK, ReceiverFollowsLink
  <1>7. CallsInOrder'
    BY <1>packet DEF TypeOK, CallsInOrder, HeldIsAnswer
  <1>8. OwnAnswer'
    BY <1>packet DEF TypeOK, OwnAnswer, CallsInOrder, HeldIsAnswer
  <1> QED
    BY <1>1, <1>2, <1>3, <1>4, <1>5, <1>6, <1>7, <1>8

LEMMA DeviceNotifiesIInv ==
  ASSUME IInv, DeviceNotifies
  PROVE  IInv'
  <1> USE CallAssumption DEF IInv, DeviceNotifies,
        Answers, Failures, NoOutcome, NotHeld, Notification, Response, Ids, Active, callVars
  <1>packet. Notification \in Response \union {Notification}
    BY DEF TypeOK
  <1>1. TypeOK'
    BY <1>packet DEF TypeOK
  <1>2. RegistryExact'
    BY <1>packet DEF TypeOK, RegistryExact
  <1>3. IdsOfLiveCallsDiffer'
    <2>1. ASSUME NEW d \in Calls, Live(d)' PROVE Live(d)
      <3>1. CASE OnWire(d)'
        BY <3>1, AppendFacts, <1>packet DEF TypeOK, Live, OnWire
      <3> QED
        BY <2>1, <3>1 DEF TypeOK, Live
    <2> QED
      BY <2>1, NoNewLiveCall
  <1>4. PacketsAreAnswers'
    BY <1>packet DEF TypeOK, PacketsAreAnswers
  <1>5. HeldIsAnswer'
    BY <1>packet DEF TypeOK, HeldIsAnswer
  <1>6. ReceiverFollowsLink'
    BY <1>packet DEF TypeOK, ReceiverFollowsLink
  <1>7. CallsInOrder'
    BY <1>packet DEF TypeOK, CallsInOrder, HeldIsAnswer
  <1>8. OwnAnswer'
    BY <1>packet DEF TypeOK, OwnAnswer, CallsInOrder, HeldIsAnswer
  <1> QED
    BY <1>1, <1>2, <1>3, <1>4, <1>5, <1>6, <1>7, <1>8

LEMMA TakeNotificationIInv ==
  ASSUME IInv, TakeNotification
  PROVE  IInv'
  <1> USE CallAssumption DEF IInv, TakeNotification,
        Answers, Failures, NoOutcome, NotHeld, Notification, Response, Ids, Active, callVars
  <1>1. TypeOK'
    BY TailNotLive DEF TypeOK
  <1>2. RegistryExact'
    BY DEF TypeOK, RegistryExact
  <1>3. IdsOfLiveCallsDiffer'
    BY TailNotLive
  <1>4. PacketsAreAnswers'
    BY TailNotLive
  <1>5. HeldIsAnswer'
    BY DEF TypeOK, HeldIsAnswer
  <1>6. ReceiverFollowsLink'
    BY DEF TypeOK, ReceiverFollowsLink
  <1>7. CallsInOrder'
    BY DEF TypeOK, CallsInOrder, HeldIsAnswer
  <1>8. OwnAnswer'
    BY DEF TypeOK, OwnAnswer, CallsInOrder, HeldIsAnswer
  <1> QED
    BY <1>1, <1>2, <1>3, <1>4, <1>5, <1>6, <1>7, <1>8

LEMMA LookupIInv ==
  ASSUME IInv, Lookup
  PROVE  IInv'
  <1> USE CallAssumption DEF IInv, Lookup,
        Answers, Failures, NoOutcome, NotHeld, Notification, Response, Ids, Active, callVars
  <1>1. TypeOK'
    BY LookupFindsOrigin, TailNotLive DEF TypeOK
  <1>2. RegistryExact'
    BY DEF TypeOK, RegistryExact
  <1>3. IdsOfLiveCallsDiffer'
    BY TailNotLive
  <1>4. PacketsAreAnswers'
    BY TailNotLive
  <1>5. HeldIsAnswer'
    BY LookupFindsOrigin DEF TypeOK, HeldIsAnswer
  <1>6. ReceiverFollowsLink'
    BY DEF TypeOK, ReceiverFollowsLink
  <1>7. CallsInOrder'
    BY DEF TypeOK, CallsInOrder, HeldIsAnswer
  <1>8. OwnAnswer'
    BY DEF TypeOK, OwnAnswer, CallsInOrder, HeldIsAnswer
  <1> QED
    BY <1>1, <1>2, <1>3, <1>4, <1>5, <1>6, <1>7, <1>8

LEMMA DiscardIInv ==
  ASSUME IInv, Discard
  PROVE  IInv'
  <1> USE CallAssumption DEF IInv, Discard,
        Answers, Failures, NoOutcome, NotHeld, Notification, Response, Ids, Active, callVars
  <1>1. TypeOK'
    BY TailNotLive DEF TypeOK
  <1>2. RegistryExact'
    BY DEF TypeOK, RegistryExact
  <1>3. IdsOfLiveCallsDiffer'
    BY TailNotLive
  <1>4. PacketsAreAnswers'
    BY TailNotLive
  <1>5. HeldIsAnswer'
    BY DEF TypeOK, HeldIsAnswer
  <1>6. ReceiverFollowsLink'
    BY DEF TypeOK, ReceiverFollowsLink
  <1>7. CallsInOrder'
    BY DEF TypeOK, CallsInOrder, HeldIsAnswer
  <1>8. OwnAnswer'
    BY DEF TypeOK, OwnAnswer, CallsInOrder, HeldIsAnswer
  <1> QED
    BY <1>1, <1>2, <1>3, <1>4, <1>5, <1>6, <1>7, <1>8

LEMMA DeliverIInv ==
  ASSUME IInv, Deliver
  PROVE  IInv'
  <1> USE CallAssumption DEF IInv, Deliver, Return,
        Answers, Failures, NoOutcome, NotHeld, Notification, Response, Ids, Active, callVars
  <1>1. TypeOK'
    BY DEF TypeOK
  <1>2. RegistryExact'
    BY DEF TypeOK, RegistryExact
  <1>3. IdsOfLiveCallsDiffer'
    <2>1. ASSUME NEW d \in Calls, Live(d)' PROVE Live(d)
      BY <2>1 DEF TypeOK, Live, OnWire
    <2> QED
      BY <2>1, NoNewLiveCall
  <1>4. PacketsAreAnswers'
    BY DEF TypeOK, PacketsAreAnswers
  <1>5. HeldIsAnswer'
    BY DEF TypeOK, HeldIsAnswer
  <1>6. ReceiverFollowsLink'
    BY DEF TypeOK, ReceiverFollowsLink
  <1>7. CallsInOrder'
    BY DEF TypeOK, CallsInOrder, HeldIsAnswer
  <1>8. OwnAnswer'
    BY DEF TypeOK, OwnAnswer, CallsInOrder, HeldIsAnswer
  <1> QED
    BY <1>1, <1>2, <1>3, <1>4, <1>5, <1>6, <1>7, <1>8

LEMMA ReceiverExitsIInv ==
  ASSUME IInv, ReceiverExits
  PROVE  IInv'
  <1> USE CallAssumption DEF IInv, ReceiverExits,
        Answers, Failures, NoOutcome, NotHeld, Notification, Response, Ids, Active, callVars
  <1>1. TypeOK'
    BY DEF TypeOK
  <1>2. RegistryExact'
    BY DEF TypeOK, RegistryExact
  <1>3. IdsOfLiveCallsDiffer'
    BY DEF TypeOK, IdsOfLiveCallsDiffer, Live, OnWire
  <1>4. PacketsAreAnswers'
    BY DEF TypeOK, PacketsAreAnswers
  <1>5. HeldIsAnswer'
    BY DEF TypeOK, HeldIsAnswer
  <1>6. ReceiverFollowsLink'
    BY DEF TypeOK, ReceiverFollowsLink
  <1>7. CallsInOrder'
    BY DEF TypeOK, CallsInOrder, HeldIsAnswer
  <1>8. OwnAnswer'
    BY DEF TypeOK, OwnAnswer, CallsInOrder, HeldIsAnswer
  <1> QED
    BY <1>1, <1>2, <1>3, <1>4, <1>5, <1>6, <1>7, <1>8

LEMMA NextIInv == IInv /\ [Next]_vars => IInv'
  <1> SUFFICES ASSUME IInv, [Next]_vars PROVE IInv'
    OBVIOUS
  <1>1. CASE Dial \/ LinkLost
    BY <1>1, DialIInv, LinkLostIInv
  <1>2. ASSUME NEW c \in Calls, Send(c) PROVE IInv'
    BY <1>2, RefuseIInv, GetInvokeIDIInv, SendFailsIInv, WriteIInv, TimesOutIInv,
       RemoveInvokeIdIInv DEF Send
  <1>3. ASSUME NEW c \in Calls, NEW k \in Answers, DeviceAnswers(c, k) PROVE IInv'
    BY <1>3, DeviceAnswersIInv
  <1>4. CASE DeviceNotifies
    BY <1>4, DeviceNotifiesIInv
  <1>5. CASE Receive
    BY <1>5, TakeNotificationIInv, LookupIInv, DiscardIInv, DeliverIInv,
       ReceiverExitsIInv DEF Receive
  <1>6. CASE UNCHANGED vars
    <2> USE <1>6 DEF vars, IInv
    <2>1. TypeOK'
      BY DEF TypeOK
    <2>2. RegistryExact' /\ CallsInOrder' /\ OwnAnswer' /\ ReceiverFollowsLink'
      BY DEF RegistryExact, Active, CallsInOrder, OwnAnswer, ReceiverFollowsLink
    <2>3. IdsOfLiveCallsDiffer' /\ PacketsAreAnswers' /\ HeldIsAnswer'
      BY DEF IdsOfLiveCallsDiffer, Live, Active, OnWire, PacketsAreAnswers, HeldIsAnswer
    <2> QED
      BY <2>1, <2>2, <2>3
  <1> QED
    BY <1>1, <1>2, <1>3, <1>4, <1>5, <1>6 DEF Next

-----------------------------------------------------------------------------
(* The theorems.                                                            *)

\* IInv is an invariant of the request/response core (client_send.go,
\* client_send_utils.go, client_buffer.go), type correctness included.
THEOREM Invariance == SafeSpec => []IInv
  BY InitIInv, NextIInv, PTL DEF SafeSpec

\* The state of send, the registry and receive keep their types.
THEOREM TypeCorrect == SafeSpec => []TypeOK
  <1>1. IInv => TypeOK
    BY DEF IInv
  <1> QED
    BY Invariance, <1>1, PTL

\* No cross-talk between concurrent calls of send: an answer that send returns
\* is the answer to its own request (client_buffer.go:93, client_send.go:51).
THEOREM NoCrossTalk == SafeSpec => []OwnAnswer
  <1>1. IInv => OwnAnswer
    BY DEF IInv
  <1> QED
    BY Invariance, <1>1, PTL

\* c.requests holds exactly the active calls: send's defer leaks no entry and
\* removes no other call's (client_send.go:26, client_send_utils.go:16).
THEOREM RegistryIsExact == SafeSpec => []RegistryExact
  <1>1. IInv => RegistryExact
    BY DEF IInv
  <1> QED
    BY Invariance, <1>1, PTL

\* processReceiveBuffer drops a response only after its call has returned
\* (client_buffer.go:107): registration precedes the write.
THEOREM AnswersReachTheirCalls == SafeSpec => NoAnswerLost
  <1>1. ASSUME IInv, [Next]_vars, Discard PROVE pc[Head(wire).from] = "done"
    <2> DEFINE r == Head(wire)
    <2>1. r = wire[1] /\ 1 \in 1 .. Len(wire) /\ r # Notification
      BY <1>1, TailFacts DEF IInv, TypeOK, Discard
    <2>2. r \in Response /\ r.id = id[r.from] /\ device[r.from] = r.kind
      BY <1>1, <2>1 DEF IInv, PacketsAreAnswers
    <2>3. r.from \in Calls /\ r.id \in Ids /\ r.kind \in Answers
      BY <2>2 DEF Response
    <2>4. requests[r.id] # r.from
      BY <1>1, <2>3, CallAssumption DEF Discard
    <2>5. ~Active(r.from)
      BY <1>1, <2>2, <2>3, <2>4 DEF IInv, RegistryExact
    <2>6. pc[r.from] # "new"
      BY <1>1, <2>2, <2>3 DEF IInv, CallsInOrder, Answers
    <2> QED
      BY <1>1, <2>3, <2>5, <2>6 DEF IInv, TypeOK, Active
  <1>2. IInv /\ [Next]_vars => [Discard => pc[Head(wire).from] = "done"]_vars
    BY <1>1
  <1> QED
    BY Invariance, <1>2, PTL DEF SafeSpec, NoAnswerLost

-----------------------------------------------------------------------------
(* AdsCall implements the safety half of AdsRpc.                             *)

LEMMA InitRefines == Init => Rpc!Init
  BY DEF Init, Rpc!Init, Rpc!NoResult, NoOutcome, Answers, PhaseBar, ReplyBar, ResultBar

\* Beginning a call.
LEMMA OpenRefines ==
  ASSUME IInv, NEW c \in Calls, GetInvokeID(c)
  PROVE  Rpc!Open(c)
  BY DEF IInv, TypeOK, GetInvokeID, Rpc!Open, PhaseBar, ReplyBar, ResultBar, NoOutcome

LEMMA RefuseRefines ==
  ASSUME IInv, NEW c \in Calls, Refuse(c)
  PROVE  Rpc!Refuse(c)
  BY DEF IInv, TypeOK, Refuse, Rpc!Refuse, PhaseBar, ReplyBar, ResultBar, NoOutcome

LEMMA AnswerRefines ==
  ASSUME IInv, NEW c \in Calls, NEW k \in Answers, DeviceAnswers(c, k)
  PROVE  Rpc!Answer(c, k)
  BY DEF IInv, TypeOK, CallsInOrder, DeviceAnswers, callVars, Answers,
         Rpc!Answer, PhaseBar, ReplyBar, ResultBar, NoOutcome

\* Returning: an answer was given to this call, the rest are local failures.
LEMMA CloseRefines ==
  ASSUME IInv, NEW c \in Calls, RemoveInvokeId(c)
  PROVE  Rpc!Close(c)
  <1> USE DEF IInv, TypeOK, RemoveInvokeId, NoOutcome, PhaseBar, ReplyBar, ResultBar
  <1>1. /\ PhaseBar[c] = "open"
        /\ PhaseBar' = [PhaseBar EXCEPT ![c] = "closed"]
        /\ ReplyBar' = ReplyBar
        /\ ResultBar' = [ResultBar EXCEPT ![c] = outcome[c]]
    OBVIOUS
  <1>2. outcome[c] = [kind |-> outcome[c].kind, from |-> outcome[c].from]
    OBVIOUS
  <1>3. CASE outcome[c].kind \in Answers
    <2>1. outcome[c].from = c /\ ReplyBar[c] = outcome[c].kind /\ ReplyBar[c] # "none"
      BY <1>3 DEF OwnAnswer, Answers
    <2>2. Rpc!CloseAnswered(c)
      BY <1>1, <1>2, <2>1 DEF Rpc!CloseAnswered
    <2> QED
      BY <2>2 DEF Rpc!Close
  <1>4. CASE outcome[c].kind \notin Answers
    <2>1. outcome[c].from = NoCall /\ outcome[c].kind \in Failures
      BY <1>4 DEF CallsInOrder, Answers, Failures
    <2>2. \E k \in Failures : Rpc!CloseFailed(c, k)
      BY <1>1, <1>2, <2>1 DEF Rpc!CloseFailed
    <2> QED
      BY <2>2 DEF Rpc!Close, Rpc!Failures, Failures
  <1> QED
    BY <1>3, <1>4

\* Everything else happens inside an open call, or outside all calls.
LEMMA InsideRefines ==
  ASSUME IInv, NEW c \in Calls, SendFails(c) \/ Write(c) \/ TimesOut(c)
  PROVE  UNCHANGED <<PhaseBar, ReplyBar, ResultBar>>
  BY DEF IInv, TypeOK, CallsInOrder, SendFails, Write, TimesOut, Return, NoOutcome, Answers,
         PhaseBar, ReplyBar, ResultBar

LEMMA ReceiveRefines ==
  ASSUME IInv, Receive
  PROVE  UNCHANGED <<PhaseBar, ReplyBar, ResultBar>>
  <1> USE DEF IInv, TypeOK, PhaseBar, ReplyBar, ResultBar
  <1>1. CASE Deliver
    BY <1>1 DEF HeldIsAnswer, Deliver, Return, NoOutcome
  <1>2. CASE TakeNotification \/ Lookup \/ Discard \/ ReceiverExits
    BY <1>2 DEF TakeNotification, Lookup, Discard, ReceiverExits, callVars
  <1> QED
    BY <1>1, <1>2 DEF Receive

LEMMA NextRefines == IInv /\ [Next]_vars => [Rpc!Next]_(Rpc!vars)
  <1> SUFFICES ASSUME IInv, [Next]_vars PROVE [Rpc!Next]_(Rpc!vars)
    OBVIOUS
  <1>1. CASE Dial \/ LinkLost \/ DeviceNotifies \/ UNCHANGED vars
    BY <1>1 DEF Dial, LinkLost, DeviceNotifies, callVars, vars, Rpc!vars,
                PhaseBar, ReplyBar, ResultBar
  <1>2. ASSUME NEW c \in Calls, Send(c) PROVE [Rpc!Next]_(Rpc!vars)
    BY <1>2, OpenRefines, RefuseRefines, CloseRefines, InsideRefines
       DEF Send, Rpc!Next, Rpc!vars
  <1>3. ASSUME NEW c \in Calls, NEW k \in Answers, DeviceAnswers(c, k)
        PROVE  [Rpc!Next]_(Rpc!vars)
    BY <1>3, AnswerRefines DEF Rpc!Next, Rpc!Answers, Answers
  <1>4. CASE Receive
    BY <1>4, ReceiveRefines DEF Rpc!vars
  <1> QED
    BY <1>1, <1>2, <1>3, <1>4 DEF Next

\* send keeps the abstract promise: a call is closed once, with the answer
\* given to it or a local failure (client_send.go:18-62).
THEOREM SendImplementsRpc == SafeSpec => Rpc!SafeSpec
  BY InitRefines, NextRefines, Invariance, PTL DEF SafeSpec, Rpc!SafeSpec
=============================================================================
