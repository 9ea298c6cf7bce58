------------------------------- MODULE AdsRpc -------------------------------
(***************************************************************************)
(* What Client.send (src/pkg/ads/client_send.go) promises its callers,      *)
(* without the machinery that provides it: every call that is opened is     *)
(* closed exactly once, either with the answer the device gave to that very *)
(* call or with a local failure.  AdsCall implements this specification.    *)
(***************************************************************************)

CONSTANTS
  Calls,     \* the invocations of send
  NoCall     \* "no invocation": the origin of a result that is no answer

VARIABLES
  phase,     \* phase[c]: "idle" (not begun), "open" or "closed" (returned)
  reply,     \* reply[c]: what the device answered to c, "none" before it does
  result     \* result[c]: what send returned to c's caller

vars == <<phase, reply, result>>

Answers == {"data", "adsError"}
Failures == {"timeout", "failed"}
NoResult == [kind |-> "none", from |-> NoCall]

Init ==
  /\ phase = [c \in Calls |-> "idle"]
  /\ reply = [c \in Calls |-> "none"]
  /\ result = [c \in Calls |-> NoResult]

\* A call begins.
Open(c) ==
  /\ phase[c] = "idle"
  /\ phase' = [phase EXCEPT ![c] = "open"]
  /\ UNCHANGED <<reply, result>>

\* A call is refused at once: there is no connection.
Refuse(c) ==
  /\ phase[c] = "idle"
  /\ phase' = [phase EXCEPT ![c] = "closed"]
  /\ result' = [result EXCEPT ![c] = [kind |-> "failed", from |-> NoCall]]
  /\ UNCHANGED reply

\* The device answers a call, once; the caller may have given up already.
Answer(c, k) ==
  /\ phase[c] # "idle"
  /\ reply[c] = "none"
  /\ reply' = [reply EXCEPT ![c] = k]
  /\ UNCHANGED <<phase, result>>

\* send returns the device's answer to this call.
CloseAnswered(c) ==
  /\ phase[c] = "open"
  /\ reply[c] # "none"
  /\ phase' = [phase EXCEPT ![c] = "closed"]
  /\ result' = [result EXCEPT ![c] = [kind |-> reply[c], from |-> c]]
  /\ UNCHANGED reply

\* send returns a local failure, whether or not the device answered.
CloseFailed(c, k) ==
  /\ phase[c] = "open"
  /\ phase' = [phase EXCEPT ![c] = "closed"]
  /\ result' = [result EXCEPT ![c] = [kind |-> k, from |-> NoCall]]
  /\ UNCHANGED reply

Close(c) == CloseAnswered(c) \/ \E k \in Failures : CloseFailed(c, k)

Next ==
  \E c \in Calls :
    \/ Open(c)
    \/ Refuse(c)
    \/ \E k \in Answers : Answer(c, k)
    \/ Close(c)

\* The safety half, which the proofs refine, and the whole promise: an open
\* call is closed eventually, whatever the device does.
SafeSpec == Init /\ [][Next]_vars
Spec == SafeSpec /\ \A c \in Calls : WF_vars(Close(c))
=============================================================================
