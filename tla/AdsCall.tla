------------------------------- MODULE AdsCall ------------------------------
(***************************************************************************)
(* The request/response core of the ads-go client: many goroutines call     *)
(* Client.send concurrently on one connection, one receive goroutine hands  *)
(* every response to the call whose invoke ID it carries.                   *)
(*                                                                          *)
(* An element of Calls is one invocation of send.  The unbuffered channel   *)
(* that getInvokeID makes is private to the invocation, so the call itself  *)
(* stands for its channel.  The device and the TCP link are external: the   *)
(* device answers what it was sent at most once, in any order, or never,    *)
(* and the link may be lost at any time.  How bytes become packets is left  *)
(* to framing: the wire carries whole packets.                              *)
(***************************************************************************)
EXTENDS Integers, Sequences

CONSTANTS
  Calls,     \* the invocations of send
  NoCall,    \* "no channel": the zero value of a lookup in c.requests
  IdSpace,   \* the number of invoke IDs: 2^32 in the code
  MaxWire    \* bound: the device pushes no notification onto a longer wire

ASSUME CallAssumption ==
  /\ NoCall \notin Calls
  /\ IdSpace \in Nat \ {0}
  /\ MaxWire \in Nat

VARIABLES
  link,      \* "none" (c.conn is nil), "up", "down" (closed by either side)
  invokeID,  \* Client.invokeID
  requests,  \* Client.requests, total: NoCall where the map has no entry
  pc,        \* pc[c]: how far c's send has come
  id,        \* id[c]: the local variable invokeID of c's send
  outcome,   \* outcome[c]: the value send is returning
  device,    \* device[c]: what the device made of c's request
  wire,      \* packets the device sent that receive has not read
  receiver,  \* "off", "reading", "delivering" (in ch <- response), "exited"
  held       \* the response being delivered and the channel looked up for it

callVars == <<invokeID, requests, pc, id, outcome>>
vars == <<link, invokeID, requests, pc, id, outcome, device, wire, receiver, held>>

Ids == 0 .. IdSpace - 1
Answers == {"data", "adsError"}
Failures == {"timeout", "failed"}
NoOutcome == [kind |-> "none", from |-> NoCall]
NotHeld == [ch |-> NoCall, from |-> NoCall, kind |-> "none"]
Notification == [id |-> 0, from |-> NoCall, kind |-> "notification"]

\* A response packet: the invoke ID is what the client sees of its origin.
Response == [id : Ids, from : Calls, kind : Answers]

\* A call owns an entry of c.requests from getInvokeID to removeInvokeId.
Active(c) == pc[c] \in {"registered", "waiting", "returning"}

TypeOK ==
  /\ link \in {"none", "up", "down"}
  /\ invokeID \in Ids
  /\ requests \in [Ids -> Calls \union {NoCall}]
  /\ pc \in [Calls -> {"new", "registered", "waiting", "returning", "done"}]
  /\ id \in [Calls -> Ids]
  /\ outcome \in [Calls -> [kind : Answers \union Failures \union {"none"},
                            from : Calls \union {NoCall}]]
  /\ device \in [Calls -> Answers \union {"none", "pending"}]
  /\ wire \in Seq(Response \union {Notification})
  /\ receiver \in {"off", "reading", "delivering", "exited"}
  /\ held \in [ch : Calls \union {NoCall}, from : Calls \union {NoCall},
               kind : Answers \union {"none"}]

Init ==
  /\ link = "none"
  /\ invokeID = 0
  /\ requests = [i \in Ids |-> NoCall]
  /\ pc = [c \in Calls |-> "new"]
  /\ id = [c \in Calls |-> 0]
  /\ outcome = [c \in Calls |-> NoOutcome]
  /\ device = [c \in Calls |-> "none"]
  /\ wire = <<>>
  /\ receiver = "off"
  /\ held = NotHeld

-----------------------------------------------------------------------------
(* The connection.                                                         *)

\* Connect sets c.conn and starts the receive goroutine.
Dial ==
  /\ link = "none"
  /\ link' = "up"
  /\ receiver' = "reading"
  /\ UNCHANGED <<callVars, device, wire, held>>

\* The peer, the network or Disconnect closes the connection.
LinkLost ==
  /\ link = "up"
  /\ link' = "down"
  /\ UNCHANGED <<callVars, device, wire, receiver, held>>

-----------------------------------------------------------------------------
(* send, in the goroutine of call c.                                       *)

\* A packet about an earlier user of i is still under way, or i is taken.
IdInUse(i) ==
  \/ requests[i] # NoCall
  \/ \E c \in Calls : device[c] = "pending" /\ id[c] = i
  \/ \E k \in 1 .. Len(wire) : wire[k].kind \in Answers /\ wire[k].id = i

\* No connection was ever made: send returns before it takes an ID.
Refuse(c) ==
  /\ pc[c] = "new"
  /\ link = "none"
  /\ pc' = [pc EXCEPT ![c] = "done"]
  /\ outcome' = [outcome EXCEPT ![c] = [kind |-> "failed", from |-> NoCall]]
  /\ UNCHANGED <<link, invokeID, requests, id, device, wire, receiver, held>>

\* Faulty: the counter is kept wider than an invoke ID and cut only for the map.
GetInvokeID_WideCounter(c) ==
  LET next == (invokeID + 1) % IdSpace IN
  /\ pc[c] = "new"
  /\ link # "none"
  /\ ~IdInUse(next)
  /\ invokeID' = invokeID + 1
  /\ id' = [id EXCEPT ![c] = next]
  /\ requests' = [requests EXCEPT ![next] = c]
  /\ pc' = [pc EXCEPT ![c] = "registered"]
  /\ UNCHANGED <<link, outcome, device, wire, receiver, held>>

\* Faulty: the channel is registered under the counter's old value.
GetInvokeID_RegistersOld(c) ==
  LET next == (invokeID + 1) % IdSpace IN
  /\ pc[c] = "new"
  /\ link # "none"
  /\ ~IdInUse(next)
  /\ invokeID' = next
  /\ id' = [id EXCEPT ![c] = next]
  /\ requests' = [requests EXCEPT ![invokeID] = c]
  /\ pc' = [pc EXCEPT ![c] = "registered"]
  /\ UNCHANGED <<link, outcome, device, wire, receiver, held>>

\* getInvokeID, one critical section of c.mutex.  The counter wraps around.
\* The last guard is an assumption on the environment and no code: coming
\* round to an ID takes longer than a call or a packet that uses it lasts.
GetInvokeID(c) ==
  LET next == (invokeID + 1) % IdSpace IN
  /\ pc[c] = "new"
  /\ link # "none"
  /\ ~IdInUse(next)
  /\ invokeID' = next
  /\ id' = [id EXCEPT ![c] = next]
  /\ requests' = [requests EXCEPT ![next] = c]
  /\ pc' = [pc EXCEPT ![c] = "registered"]
  /\ UNCHANGED <<link, outcome, device, wire, receiver, held>>

\* The call leaves its select, or an early return, with an outcome; the
\* deferred removeInvokeId is still to run.
Return(c, o) ==
  /\ pc' = [pc EXCEPT ![c] = "returning"]
  /\ outcome' = [outcome EXCEPT ![c] = o]

\* Faulty: the error path returns without removeInvokeId.
SendFails_KeepsEntry(c) ==
  /\ pc[c] = "registered"
  /\ pc' = [pc EXCEPT ![c] = "done"]
  /\ outcome' = [outcome EXCEPT ![c] = [kind |-> "failed", from |-> NoCall]]
  /\ UNCHANGED <<link, invokeID, requests, id, device, wire, receiver, held>>

\* BuildAmsHeader rejects the addresses, or conn.Write fails.
SendFails(c) ==
  /\ pc[c] = "registered"
  /\ Return(c, [kind |-> "failed", from |-> NoCall])
  /\ UNCHANGED <<link, invokeID, requests, id, device, wire, receiver, held>>

\* conn.Write succeeds.  The device sees the request only if the link is up:
\* the kernel may accept bytes for a peer that has gone.
Write(c) ==
  /\ pc[c] = "registered"
  /\ pc' = [pc EXCEPT ![c] = "waiting"]
  /\ device' = IF link = "up" THEN [device EXCEPT ![c] = "pending"] ELSE device
  /\ UNCHANGED <<link, invokeID, requests, id, outcome, wire, receiver, held>>

\* Faulty: only a broken connection ends the wait.
TimesOut_OnlyWhenDown(c) ==
  /\ pc[c] = "waiting"
  /\ link = "down"
  /\ Return(c, [kind |-> "timeout", from |-> NoCall])
  /\ UNCHANGED <<link, invokeID, requests, id, device, wire, receiver, held>>

\* Faulty: the timeout case returns no data and no error.
TimesOut_WithoutError(c) ==
  /\ pc[c] = "waiting"
  /\ Return(c, [kind |-> "data", from |-> NoCall])
  /\ UNCHANGED <<link, invokeID, requests, id, device, wire, receiver, held>>

\* The second case of the select: time.After fires first, or wins the draw.
TimesOut(c) ==
  /\ pc[c] = "waiting"
  /\ Return(c, [kind |-> "timeout", from |-> NoCall])
  /\ UNCHANGED <<link, invokeID, requests, id, device, wire, receiver, held>>

\* The deferred removeInvokeId, and the return to the caller.
RemoveInvokeId(c) ==
  /\ pc[c] = "returning"
  /\ requests' = [requests EXCEPT ![id[c]] = NoCall]
  /\ pc' = [pc EXCEPT ![c] = "done"]
  /\ UNCHANGED <<link, invokeID, id, outcome, device, wire, receiver, held>>

-----------------------------------------------------------------------------
(* The device, external.                                                   *)

DeviceAnswers(c, k) ==
  /\ link = "up"
  /\ device[c] = "pending"
  /\ device' = [device EXCEPT ![c] = k]
  /\ wire' = Append(wire, [id |-> id[c], from |-> c, kind |-> k])
  /\ UNCHANGED <<link, callVars, receiver, held>>

DeviceNotifies ==
  /\ link = "up"
  /\ Len(wire) < MaxWire
  /\ wire' = Append(wire, Notification)
  /\ UNCHANGED <<link, callVars, device, receiver, held>>

-----------------------------------------------------------------------------
(* receive and processReceiveBuffer, in the receive goroutine.             *)

\* Command 8: handleNotification starts its callbacks and never blocks.
TakeNotification ==
  /\ receiver = "reading"
  /\ wire # <<>>
  /\ Head(wire) = Notification
  /\ wire' = Tail(wire)
  /\ UNCHANGED <<link, callVars, device, receiver, held>>

\* Faulty: responses are taken to arrive in the order of the calls.
Lookup_AnyCall ==
  /\ receiver = "reading"
  /\ wire # <<>>
  /\ Head(wire) # Notification
  /\ \E c \in Calls : Active(c)
  /\ held' = [ch |-> CHOOSE c \in Calls : Active(c), from |-> Head(wire).from,
              kind |-> Head(wire).kind]
  /\ receiver' = "delivering"
  /\ wire' = Tail(wire)
  /\ UNCHANGED <<link, callVars, device>>

\* The response's channel is looked up under c.mutex, which is then released.
Lookup ==
  /\ receiver = "reading"
  /\ wire # <<>>
  /\ Head(wire) # Notification
  /\ requests[Head(wire).id] # NoCall
  /\ held' = [ch |-> requests[Head(wire).id], from |-> Head(wire).from,
              kind |-> Head(wire).kind]
  /\ receiver' = "delivering"
  /\ wire' = Tail(wire)
  /\ UNCHANGED <<link, callVars, device>>

\* No channel for this ID: the response is logged and dropped.
Discard ==
  /\ receiver = "reading"
  /\ wire # <<>>
  /\ Head(wire) # Notification
  /\ requests[Head(wire).id] = NoCall
  /\ wire' = Tail(wire)
  /\ UNCHANGED <<link, callVars, device, receiver, held>>

\* Faulty: the receiver does not meet the call in its select.
Deliver_ToReturnedCall ==
  /\ receiver = "delivering"
  /\ Return(held.ch, [kind |-> held.kind, from |-> held.from])
  /\ receiver' = "reading"
  /\ held' = NotHeld
  /\ UNCHANGED <<link, invokeID, requests, id, device, wire>>

\* ch <- response meets the first case of the select in held.ch's send.  The
\* channel is unbuffered: the receiver waits here until the call is there.
Deliver ==
  /\ receiver = "delivering"
  /\ pc[held.ch] = "waiting"
  /\ Return(held.ch, [kind |-> held.kind, from |-> held.from])
  /\ receiver' = "reading"
  /\ held' = NotHeld
  /\ UNCHANGED <<link, invokeID, requests, id, device, wire>>

\* conn.Read fails: receive returns.  What was not read yet is lost.
ReceiverExits ==
  /\ receiver = "reading"
  /\ link = "down"
  /\ receiver' = "exited"
  /\ wire' = <<>>
  /\ UNCHANGED <<link, callVars, device, held>>

-----------------------------------------------------------------------------

Send(c) ==
  \/ Refuse(c)
  \/ GetInvokeID(c)
  \/ SendFails(c)
  \/ Write(c)
  \/ TimesOut(c)
  \/ RemoveInvokeId(c)

Receive ==
  \/ TakeNotification
  \/ Lookup
  \/ Discard
  \/ Deliver
  \/ ReceiverExits

Next ==
  \/ Dial
  \/ LinkLost
  \/ \E c \in Calls : Send(c)
  \/ \E c \in Calls, k \in Answers : DeviceAnswers(c, k)
  \/ DeviceNotifies
  \/ Receive

\* A runnable goroutine runs and a timer fires; the device owes nothing.
Fairness ==
  /\ \A c \in Calls : WF_vars(SendFails(c) \/ Write(c))
  /\ \A c \in Calls : WF_vars(TimesOut(c))
  /\ \A c \in Calls : WF_vars(RemoveInvokeId(c))
  /\ WF_vars(Receive)

SafeSpec == Init /\ [][Next]_vars
Spec == SafeSpec /\ Fairness

-----------------------------------------------------------------------------
(* Properties.                                                             *)

\* No cross-talk: what send returns as an answer is the device's answer to
\* that very call, however late, early or out of order responses arrive and
\* although invoke IDs are reused (client_send_utils.go:3, client_buffer.go:93).
OwnAnswer ==
  \A c \in Calls :
    outcome[c].kind \in Answers =>
      outcome[c].from = c /\ device[c] = outcome[c].kind

\* c.requests holds exactly the calls between getInvokeID and removeInvokeId:
\* no return path of send leaks an entry or removes another call's.
RegistryExact ==
  \A i \in Ids, c \in Calls : requests[i] = c <=> Active(c) /\ id[c] = i

\* A response is dropped for want of a channel only if its call has returned:
\* send registers before it writes, so no answer can overtake its own entry.
NoAnswerLost ==
  [][ Discard => pc[Head(wire).from] = "done" ]_vars

\* Every call of send that was begun returns, with or without an answer.
EveryCallReturns ==
  \A c \in Calls : Active(c) ~> pc[c] = "done"

\* Why OwnAnswer holds although IDs are reused.  Whoever can still cause a
\* response (a request with the device, a packet on the wire) or holds an entry
\* is the only one of its ID; and every packet names the ID of its origin.
OnWire(c) == \E k \in 1 .. Len(wire) : wire[k].from = c
Live(c) == Active(c) \/ device[c] = "pending" \/ OnWire(c)

IdsOfLiveCallsDiffer ==
  \A c, d \in Calls : Live(c) /\ Live(d) /\ id[c] = id[d] => c = d

PacketsAreAnswers ==
  \A k \in 1 .. Len(wire) :
    \/ wire[k] = Notification
    \/ /\ wire[k] \in Response
       /\ wire[k].id = id[wire[k].from]
       /\ device[wire[k].from] = wire[k].kind

HeldIsAnswer ==
  IF receiver = "delivering"
  THEN /\ held.ch \in Calls
       /\ held.from = held.ch
       /\ held.kind \in Answers
       /\ device[held.ch] = held.kind
       /\ pc[held.ch] \in {"waiting", "returning", "done"}
  ELSE held = NotHeld

ReceiverFollowsLink == link = "none" => receiver = "off"

CallsInOrder ==
  \A c \in Calls :
    /\ pc[c] \in {"new", "registered"} => device[c] = "none" /\ outcome[c] = NoOutcome
    /\ pc[c] = "waiting" => outcome[c] = NoOutcome
    /\ pc[c] \in {"returning", "done"} => outcome[c] # NoOutcome
    /\ outcome[c].kind \notin Answers => outcome[c].from = NoCall

\* The inductive invariant.
IInv ==
  /\ TypeOK
  /\ RegistryExact
  /\ IdsOfLiveCallsDiffer
  /\ PacketsAreAnswers
  /\ HeldIsAnswer
  /\ ReceiverFollowsLink
  /\ CallsInOrder
  /\ OwnAnswer

\* The abstract call this module implements: a call is open while it is
\* active and closed once removeInvokeId has run.
PhaseBar ==
  [c \in Calls |-> IF pc[c] = "new" THEN "idle"
                   ELSE IF pc[c] = "done" THEN "closed" ELSE "open"]
ReplyBar ==
  [c \in Calls |-> IF device[c] \in Answers THEN device[c] ELSE "none"]
ResultBar ==
  [c \in Calls |-> IF pc[c] = "done" THEN outcome[c] ELSE NoOutcome]

Rpc == INSTANCE AdsRpc WITH phase <- PhaseBar, reply <- ReplyBar, result <- ResultBar

\* send implements the abstract call, its liveness included.
ImplementsRpc == Rpc!Spec

\* "Ensures correct handling of concurrent operations" (README.md:1925): a
\* response that receive has taken off the wire leaves its hands, so that the
\* responses behind it are handled too.
ReceiverMovesOn == receiver = "delivering" ~> receiver # "delivering"
=============================================================================
